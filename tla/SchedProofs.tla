---------------------------- MODULE SchedProofs -----------------------------
(***************************************************************************)
(* The safety of Sched for every number of slots, channels, pids and       *)
(* ticks, every quantum and every range of nice values.  First the types,  *)
(* then the invariants that the runs check, which are inductive only       *)
(* together: the run queue is exact because a thread is where its state    *)
(* says, a zombie is not reaped on its own stack because it is off the CPU *)
(* by the time its parent runs, no process is orphaned because the slot of *)
(* an unfinished fork belongs to a live process.                           *)
(*                                                                         *)
(* Then sleepers, the clock and the names of processes.  wait goes to      *)
(* sleep and exit wakes the parent, both under ptable.lock; what has to be *)
(* argued is every other step that changes a parent, a state or a killed   *)
(* flag.  No sleeper of sys_sleep misses its tick or a kill, the quantum is *)
(* counted down to zero exactly, pids are unique, and a zombie leaves the  *)
(* table only through its parent.                                          *)
(***************************************************************************)
EXTENDS Sched, TLAPS

(* The provers to try on a step, and how long each of them may take.       *)
USE SMTT(60), SMTT(75), ZenonT(60), SMTT(90)

(* The first process sits in the first slot.                               *)
LEMMA InitprocInTable == initproc \in Proc /\ NULL \notin Proc
BY SchedAssumption DEF initproc, Proc, NULL

LEMMA DeadlineIsInt ==
  ASSUME NEW n \in Nice, NEW t \in Nat
  PROVE  computevd(n, t) \in Int
BY BfsAssumption DEF computevd, Nice

LEMMA ZeroIsNice == 0 \in Nice
BY BfsAssumption DEF Nice

LEMMA SumIsNat ==
  ASSUME NEW a \in Nat, NEW b \in Nat
  PROVE  a + b \in Nat
OBVIOUS

LEMMA UpdateKeepsInts ==
  ASSUME NEW f \in [Proc -> Int], NEW q \in Proc, NEW v \in Int
  PROVE  [f EXCEPT ![q] = v] \in [Proc -> Int]
OBVIOUS

ForkPlaces == {"kalloc", "copy", "insert"}

(* nicefork's np is set while it is in use: without it TypeOK is not       *)
(* inductive.                                                              *)
NpSet == \A p \in Proc : pc[p] \in ForkPlaces => np[p] \in Proc

TypeInv == TypeOK /\ NpSet

(* TypeInv is inductive.                                                   *)
LEMMA TypeInvariant == Spec => []TypeInv
<1>1. Init => TypeInv
  BY InitprocInTable, ZeroIsNice, DeadlineIsInt
     DEF Init, TypeInv, NpSet, ForkPlaces, TypeOK, States, Places
<1>2. TypeInv /\ [Next]_vars => TypeInv'
  <2> SUFFICES ASSUME TypeInv, [Next]_vars PROVE TypeInv'
    OBVIOUS
  <2> USE DEF TypeInv, NpSet, ForkPlaces, TypeOK, States, Places,
              procVars, bfsVars, forkVars
  <2>1. ASSUME NEW p \in Proc, scheduler(p) PROVE TypeInv'
    BY <2>1, BfsAssumption DEF scheduler
  <2>2. ASSUME NEW p \in Proc, resumeStep(p) PROVE TypeInv'
    <3>1. CASE forkret(p)
      BY ZenonT(60), <3>1 DEF forkret
    <3>4. CASE syscall(p)
      BY ZenonT(60), <3>4 DEF syscall
    <3>5. CASE sysReturn(p)
      BY ZenonT(60), <3>5 DEF sysReturn, returned
    <3>6. CASE bootDone(p)
      BY ZenonT(60), <3>6 DEF bootDone
    <3>2. CASE yieldReturn(p)
      BY ZenonT(60), <3>2 DEF yieldReturn, returned
    <3>3. CASE sleepReturn(p)
      BY ZenonT(60), <3>3 DEF sleepReturn
    <3> QED
      BY ZenonT(60), <2>2, <3>1, <3>2, <3>3, <3>4, <3>5, <3>6 DEF resumeStep
  <2>3. ASSUME NEW p \in Proc, forkStep(p) PROVE TypeInv'
    <3>1. ASSUME NEW n \in NiceArg, niceforkAlloc(p, n) PROVE TypeInv'
      <4> PICK q \in Proc :
            /\ state' = [state EXCEPT ![q] = "EMBRYO"]
            /\ pid' = [pid EXCEPT ![q] = nextpid]
            /\ virt_deadline' = [virt_deadline EXCEPT ![q] = 0]
            /\ nice' = [nice EXCEPT ![q] = 0]
            /\ np' = [np EXCEPT ![p] = q]
        BY ZenonT(60), <3>1 DEF niceforkAlloc
      <4>1. /\ n \in Nice
            /\ nextpid' = nextpid + 1
            /\ niceArg' = [niceArg EXCEPT ![p] = n]
            /\ pc' = [pc EXCEPT ![p] = "kalloc"]
            /\ UNCHANGED <<parent, killed, chan, kstack, ticks_left, runq,
                           curproc, lock, ticks, yielded, wakeAt, panic>>
        BY ZenonT(60), <3>1 DEF niceforkAlloc, validNice, takePid
      <4>2. /\ nextpid' \in Nat /\ pid' \in [Proc -> Nat]
            /\ nice' \in [Proc -> Nice] /\ niceArg' \in [Proc -> Nice]
            /\ virt_deadline' \in [Proc -> Int]
        <5>1. nextpid + 1 \in Nat
          BY ZenonT(60), SumIsNat
        <5>2. nextpid' \in Nat /\ pid' \in [Proc -> Nat]
          BY ZenonT(60), <4>1, <5>1
        <5>3. nice' \in [Proc -> Nice] /\ niceArg' \in [Proc -> Nice]
          BY ZenonT(60), <4>1, ZeroIsNice
        <5>4. virt_deadline' \in [Proc -> Int]
          <6> HIDE DEF TypeInv, NpSet, ForkPlaces, States, Places
          <6>1. virt_deadline \in [Proc -> Int]
            BY ZenonT(60) DEF TypeInv
          <6> QED BY <6>1, UpdateKeepsInts
        <5> QED BY ZenonT(60), <5>2, <5>3, <5>4
      <4>3. /\ state' \in [Proc -> States] /\ pc' \in [Proc -> Places]
            /\ np' \in [Proc -> Proc \cup {NULL}]
        BY ZenonT(60), <4>1
      <4>4. NpSet'
        BY ZenonT(60), <4>1
      <4> QED BY ZenonT(60), <4>1, <4>2, <4>3, <4>4
    <3>2. ASSUME NEW n \in NiceArg, niceforkInvalid(p, n) PROVE TypeInv'
      BY ZenonT(60), <3>2 DEF niceforkInvalid
    <3>3. CASE niceforkKalloc(p)
      BY ZenonT(60), <3>3 DEF niceforkKalloc
    <3>4. CASE niceforkFail(p)
      BY ZenonT(60), <3>4, ZeroIsNice DEF niceforkFail, returned
    <3>5. CASE niceforkCopy(p)
      BY ZenonT(60), <3>5, ZeroIsNice, DeadlineIsInt DEF niceforkCopy
    <3>6. CASE niceforkInsert(p)
      BY ZenonT(60), <3>6 DEF niceforkInsert, returned
    <3> QED BY ZenonT(60), <2>3, <3>1, <3>2, <3>3, <3>4, <3>5, <3>6 DEF forkStep
  <2>4. ASSUME NEW p \in Proc, waitStep(p) PROVE TypeInv'
    <3>1. CASE waitReap(p)
      <4> PICK q \in Proc :
            /\ kstack' = kstack \ {q}
            /\ pid' = [pid EXCEPT ![q] = 0]
            /\ parent' = [parent EXCEPT ![q] = NULL]
            /\ killed' = killed \ {q}
            /\ state' = [state EXCEPT ![q] = "UNUSED"]
        BY ZenonT(60), <3>1 DEF waitReap
      <4>1. /\ chan' = [chan EXCEPT ![p] = NULL]
            /\ pc' = [pc EXCEPT ![p] = returned(p)]
            /\ lock' = NULL
            /\ UNCHANGED <<bfsVars, runq, curproc, ticks, nextpid, yielded,
                           forkVars, wakeAt, panic>>
        BY ZenonT(60), <3>1 DEF waitReap
      <4> QED BY ZenonT(60), <4>1 DEF returned
    <3>2. CASE waitNone(p)
      BY ZenonT(60), <3>2 DEF waitNone, returned
    <3>3. CASE waitSleep(p)
      BY ZenonT(60), <3>3 DEF waitSleep, sleep, sched, Chan
    <3> QED BY ZenonT(60), <2>4, <3>1, <3>2, <3>3 DEF waitStep
  <2>5. ASSUME NEW p \in Proc, exitStep(p) PROVE TypeInv'
    <3>1. CASE sys_exit(p)
      BY ZenonT(60), <3>1 DEF sys_exit
    <3>5. CASE fault(p)
      BY ZenonT(60), <3>5 DEF fault
    <3>2. CASE exitStart(p)
      BY ZenonT(60), <3>2 DEF exitStart
    <3>3. CASE exit(p)
      <4>1. sleepersOn(initproc) \subseteq Proc /\ exitWakes(p) \subseteq Proc
        BY ZenonT(60) DEF exitWakes, sleepersOn
      <4> QED BY ZenonT(60), <3>3, <4>1, InitprocInTable DEF exit, handOver, madeRunnable
    <3>4. CASE exitSched(p)
      <4>1. CASE schedRunning(p)
        BY ZenonT(60), <3>4, <4>1 DEF exitSched
      <4>2. CASE ~schedRunning(p)
        BY ZenonT(60), <3>4, <4>2 DEF exitSched, sched
      <4> QED BY ZenonT(60), <4>1, <4>2
    <3> QED BY ZenonT(60), <2>5, <3>1, <3>2, <3>3, <3>4, <3>5 DEF exitStep
  <2>6. ASSUME NEW p \in Proc, sleepStep(p) PROVE TypeInv'
    <3>0. ASSUME NEW c \in Chan, sleep(p, c)
          PROVE  /\ chan' \in [Proc -> Chan \cup {NULL}]
                 /\ runq' \subseteq Proc
                 /\ state' \in [Proc -> States]
                 /\ curproc' \in Proc \cup {NULL}
                 /\ lock' \in Proc \cup {NULL}
      BY ZenonT(60), <3>0 DEF sleep, sched
    <3>1. ASSUME NEW c \in ioChans, block(p, c) PROVE TypeInv'
      BY ZenonT(60), <3>1 DEF block, sleep, sched, Chan
    <3>2. ASSUME NEW n \in SleepArg, sys_sleep(p, n) PROVE TypeInv'
      <4>0. n \in Nat /\ ticks \in Nat
        BY ZenonT(60), SchedAssumption
      <4>1. ticksChan \in Chan /\ ticks + n \in Nat
        BY ZenonT(60), <4>0, SumIsNat DEF Chan
      <4>2. CASE 0 < n /\ p \notin killed
        <5>1. /\ sleep(p, ticksChan)
              /\ pc' = [pc EXCEPT ![p] = "ticksleep"]
              /\ wakeAt' = [wakeAt EXCEPT ![p] = ticks + n]
              /\ UNCHANGED <<pid, parent, killed, kstack, bfsVars, ticks,
                             nextpid, yielded, forkVars, panic>>
          BY ZenonT(60), <3>2, <4>2 DEF sys_sleep
        <5> QED BY ZenonT(60), <3>0, <4>1, <5>1
      <4>3. CASE ~(0 < n /\ p \notin killed)
        <5>1. /\ pc' = [pc EXCEPT ![p] = "ticksleep"]
              /\ wakeAt' = [wakeAt EXCEPT ![p] = ticks + n]
              /\ UNCHANGED <<state, chan, runq, curproc, lock, pid, parent,
                             killed, kstack, bfsVars, ticks, nextpid, yielded,
                             forkVars, panic>>
          BY ZenonT(60), <3>2, <4>3 DEF sys_sleep
        <5> QED BY ZenonT(60), <4>1, <5>1
      <4> QED BY ZenonT(60), <4>2, <4>3
    <3>3. CASE sys_sleepLoop(p)
      <4>1. ticksChan \in Chan
        BY ZenonT(60) DEF Chan
      <4>2. CASE ticks < wakeAt[p] /\ p \notin killed
        BY ZenonT(60), <3>0, <3>3, <4>1, <4>2 DEF sys_sleepLoop
      <4>3. CASE ~(ticks < wakeAt[p] /\ p \notin killed)
        <5>1. /\ pc' = [pc EXCEPT ![p] = returned(p)]
              /\ wakeAt' = [wakeAt EXCEPT ![p] = 0]
              /\ UNCHANGED <<state, chan, runq, curproc, lock, pid, parent,
                             killed, kstack, bfsVars, ticks, nextpid, yielded,
                             forkVars, panic>>
          BY ZenonT(60), <3>3, <4>3 DEF sys_sleepLoop
        <5> QED BY ZenonT(60), <5>1 DEF returned
      <4> QED BY ZenonT(60), <4>2, <4>3
    <3> QED BY ZenonT(60), <2>6, <3>1, <3>2, <3>3 DEF sleepStep
  <2>7. ASSUME NEW p \in Proc, sys_yield(p) PROVE TypeInv'
    BY ZenonT(60), <2>7, DeadlineIsInt DEF sys_yield, yield, sched
  <2>8. ASSUME NEW p \in Proc, NEW n \in 0..MaxPid, kill(p, n) PROVE TypeInv'
    <3> PICK q \in Proc :
          /\ killed' = killed \cup {q}
          /\ IF state[q] = "SLEEPING"
             THEN state' = madeRunnable({q}) /\ runq' = runq \cup {q}
             ELSE UNCHANGED <<state, runq>>
          /\ pc' = [pc EXCEPT ![p] = IF q = p THEN "exit" ELSE returned(p)]
      BY ZenonT(60), <2>8 DEF kill
    <3>1. state' \in [Proc -> States] /\ runq' \subseteq Proc
      BY ZenonT(60) DEF madeRunnable
    <3>2. UNCHANGED <<pid, parent, chan, kstack, bfsVars, curproc, lock, ticks,
                      nextpid, yielded, forkVars, wakeAt, panic>>
      BY ZenonT(60), <2>8 DEF kill
    <3> QED BY ZenonT(60), <3>1, <3>2 DEF returned
  <2>9. CASE timer
    <3>1. madeRunnable(sleepersOn(ticksChan)) \in [Proc -> States]
      BY ZenonT(60) DEF madeRunnable
    <3>2. sleepersOn(ticksChan) \subseteq Proc
      BY ZenonT(60) DEF sleepersOn
    <3>3. CASE curproc = NULL
      BY <2>9, <3>1, <3>2, <3>3 DEF timer
    <3>4. CASE curproc \in Proc
      <4>1. computevd(nice[curproc], ticks + 1) \in Int
        <5>1. nice[curproc] \in Nice /\ ticks + 1 \in Nat
          BY ZenonT(60), <3>4, SumIsNat
        <5> QED BY ZenonT(60), <5>1, DeadlineIsInt
      <4> QED BY <2>9, <3>1, <3>2, <3>4, <4>1 DEF timer, yield, sched
    <3> QED BY ZenonT(60), <3>3, <3>4
  <2>10. ASSUME NEW c \in ioChans, ioWakeup(c) PROVE TypeInv'
    BY <2>10 DEF ioWakeup, madeRunnable, sleepersOn
  <2>11. CASE UNCHANGED vars
    BY ZenonT(60), <2>11 DEF vars
  <2> QED BY ZenonT(60), <2>1, <2>2, <2>3, <2>4, <2>5, <2>6, <2>7, <2>8, <2>9, <2>10,
             <2>11 DEF Next
<1> QED BY <1>1, <1>2, PTL DEF Spec

(* Every variable of the scheduler keeps its type: nice values stay in     *)
(* range, deadlines are integers, every pointer is a slot or null.         *)
THEOREM TypeCorrect == Spec => []TypeOK
BY TypeInvariant, PTL DEF TypeInv

-----------------------------------------------------------------------------
SafeInv ==
  /\ QueueExact /\ RunsOnOwnStack /\ ThreadsConsistent /\ ForkOwnsSlot
  /\ StacksAccounted /\ NoOrphan /\ ParentsLive

(* The types that the safety of the process table rests on.                *)
TableTypes ==
  /\ state \in [Proc -> States] /\ pc \in [Proc -> Places]
  /\ parent \in [Proc -> Proc \cup {NULL}] /\ np \in [Proc -> Proc \cup {NULL}]
  /\ chan \in [Proc -> Chan \cup {NULL}]
  /\ runq \subseteq Proc /\ kstack \subseteq Proc /\ yielded \subseteq Proc
  /\ curproc \in Proc \cup {NULL} /\ lock \in Proc \cup {NULL}

LEMMA TypesOfTable == TypeInv => TableTypes
BY ZenonT(60) DEF TypeInv, TypeOK, TableTypes

(* A step that leaves the process table, the queue and the threads alone.  *)
LEMMA UnchangedSafe ==
  ASSUME SafeInv,
         UNCHANGED <<procVars, runq, curproc, lock, pc, yielded, np>>
  PROVE  SafeInv'
BY DEF procVars, SafeInv, QueueExact, RunsOnOwnStack, ThreadsConsistent,
       ForkOwnsSlot, StacksAccounted, NoOrphan, ParentsLive

(* userinit establishes the invariant.                                     *)
LEMMA InitSafe == Init => SafeInv
BY InitprocInTable
   DEF Init, SafeInv, QueueExact, RunsOnOwnStack, ThreadsConsistent,
       ForkOwnsSlot, StacksAccounted, NoOrphan, ParentsLive

(* scheduler and yield keep it: the CPU changes hands, the queue does not. *)
LEMMA SwitchSafe ==
  ASSUME TypeInv, SafeInv, NEW p \in Proc, scheduler(p) \/ sys_yield(p)
  PROVE  SafeInv'
<1>0. TableTypes
  BY TypesOfTable
<1> USE <1>0, InitprocInTable DEF TableTypes, SafeInv
<1>1. CASE scheduler(p)
  <2>1. /\ curproc = NULL /\ lock = NULL /\ p \in runq
        /\ curproc' = p /\ lock' = p /\ state' = [state EXCEPT ![p] = "RUNNING"]
        /\ UNCHANGED <<parent, chan, kstack, runq, pc, yielded, np>>
    BY ZenonT(60), <1>1 DEF scheduler, Earliest, forkVars
  <2>2. state[p] = "RUNNABLE"
    BY <2>1 DEF QueueExact, RunsOnOwnStack
  <2>3. QueueExact' /\ RunsOnOwnStack' /\ StacksAccounted'
    BY <2>1, <2>2 DEF QueueExact, RunsOnOwnStack, StacksAccounted
  <2>4. ThreadsConsistent'
    BY <2>1, <2>2 DEF ThreadsConsistent, RunsOnOwnStack
  <2>5. ForkOwnsSlot'
    BY <2>1, <2>2 DEF ForkOwnsSlot, RunsOnOwnStack
  <2>6. NoOrphan' /\ ParentsLive'
    BY <2>1, <2>2 DEF NoOrphan, ParentsLive, RunsOnOwnStack
  <2> QED BY ZenonT(60), <2>3, <2>4, <2>5, <2>6
<1>2. CASE sys_yield(p)
  <2>1. /\ curproc = p /\ lock = NULL /\ pc[p] = "syscall"
        /\ curproc' = NULL /\ lock' = NULL
        /\ state' = [state EXCEPT ![p] = "RUNNABLE"]
        /\ yielded' = yielded \cup {p} /\ pc' = [pc EXCEPT ![p] = "user"]
        /\ UNCHANGED <<parent, chan, kstack, runq, np>>
    BY ZenonT(60), <1>2 DEF sys_yield, yield, sched, InSyscall, Runs, forkVars
  <2>2. state[p] = "RUNNING"
    BY <2>1 DEF RunsOnOwnStack
  <2>3. QueueExact' /\ RunsOnOwnStack' /\ StacksAccounted'
    BY <2>1, <2>2 DEF QueueExact, RunsOnOwnStack, StacksAccounted
  <2>4. ThreadsConsistent'
    BY <2>1, <2>2 DEF ThreadsConsistent, RunsOnOwnStack
  <2>5. ForkOwnsSlot'
    BY <2>1, <2>2 DEF ForkOwnsSlot, RunsOnOwnStack
  <2>6. NoOrphan' /\ ParentsLive'
    BY <2>1, <2>2 DEF NoOrphan, ParentsLive, RunsOnOwnStack
  <2> QED BY ZenonT(60), <2>3, <2>4, <2>5, <2>6
<1> QED BY ZenonT(60), <1>1, <1>2

(* The running process moves to another place of the kernel or out of it,  *)
(* with or without ptable.lock.                                            *)
LEMMA MoveSafe ==
  ASSUME SafeInv, TableTypes, NEW p \in Proc, curproc = p,
         lock = p \/ pc[p] # "zombie",
         NEW r \in Places \ {"none", "forkret", "wait", "zombie"},
         r \in ForkPlaces \/ pc[p] \in ForkPlaces => r = pc[p],
         r = "closing" => pc[p] = "closing" \/ p # initproc,
         pc' = [pc EXCEPT ![p] = r], lock' = NULL,
         \A x \in Proc : x # p => chan'[x] = chan[x],
         \/ yielded' = yielded \ {p}
         \/ UNCHANGED yielded /\ (lock = NULL \/ p \notin yielded),
         UNCHANGED <<state, parent, kstack, runq, curproc, np>>
  PROVE  SafeInv'
<1> USE InitprocInTable DEF TableTypes, SafeInv
<1>1. state[p] = "RUNNING"
  BY DEF RunsOnOwnStack, ThreadsConsistent
<1>2. yielded' = yielded \ {p}
  BY <1>1 DEF ThreadsConsistent
<1>3. pc'[p] = r /\ \A x \in Proc : x # p => pc'[x] = pc[x]
  BY ZenonT(60)
<1>4. QueueExact' /\ RunsOnOwnStack' /\ StacksAccounted'
  BY <1>1, <1>2, <1>3 DEF QueueExact, RunsOnOwnStack, StacksAccounted
<1>5. ThreadsConsistent'
  BY <1>1, <1>2, <1>3 DEF ThreadsConsistent, RunsOnOwnStack
<1>6. ForkOwnsSlot'
  BY <1>1, <1>2, <1>3 DEF ForkOwnsSlot, ForkPlaces
<1>7. NoOrphan' /\ ParentsLive'
  BY <1>1, <1>2, <1>3 DEF NoOrphan, ParentsLive, RunsOnOwnStack
<1> QED BY ZenonT(60), <1>4, <1>5, <1>6, <1>7

(* The returns from a switch, a trap and a system call keep it.            *)
LEMMA ResumeSafe ==
  ASSUME TypeInv, SafeInv, NEW p \in Proc, resumeStep(p)
  PROVE  SafeInv'
<1>0. TableTypes
  BY TypesOfTable
<1>1. /\ returned(p) \in Places \ {"none", "forkret", "wait", "zombie"}
      /\ returned(p) \notin ForkPlaces /\ returned(p) # "closing"
  BY ZenonT(60) DEF returned, Places, ForkPlaces
<1> DEFINE Stays == UNCHANGED <<state, parent, kstack, runq, curproc, np>>
<1>2. CASE forkret(p)
  <2> DEFINE r == IF p = initproc THEN "boot" ELSE "user"
  <2>1. /\ curproc = p /\ lock = p /\ p \notin yielded /\ pc[p] = "forkret"
        /\ lock' = NULL /\ pc' = [pc EXCEPT ![p] = r]
        /\ UNCHANGED <<chan, yielded>> /\ Stays
    BY ZenonT(60), <1>2 DEF forkret, Resumed, procVars, forkVars
  <2>2. r \in {"boot", "user"}
    BY ZenonT(60)
  <2> HIDE DEF r
  <2> QED BY ZenonT(60), <1>0, <2>1, <2>2, MoveSafe DEF Places, ForkPlaces
<1>3. CASE bootDone(p)
  <2>1. /\ curproc = p /\ lock = NULL /\ pc[p] = "boot" /\ lock' = NULL
        /\ pc' = [pc EXCEPT ![p] = "user"] /\ UNCHANGED <<chan, yielded>> /\ Stays
    BY ZenonT(60), <1>3 DEF bootDone, Runs, procVars, forkVars
  <2> QED BY ZenonT(60), <1>0, <2>1, MoveSafe DEF Places, ForkPlaces
<1>4. CASE yieldReturn(p)
  <2> DEFINE r == IF pc[p] = "user" THEN returned(p) ELSE pc[p]
  <2>1. /\ curproc = p /\ lock = p /\ p \in yielded /\ lock' = NULL
        /\ yielded' = yielded \ {p} /\ UNCHANGED chan /\ Stays
    BY ZenonT(60), <1>4 DEF yieldReturn, Resumed, procVars, forkVars
  <2>2. pc' = [pc EXCEPT ![p] = r]
    BY <1>0, <1>4 DEF yieldReturn, TableTypes
  <2>3. pc[p] \in Places \ {"none", "forkret", "wait", "zombie"}
    <3>1. state[p] = "RUNNING" /\ pc[p] \in Places
      BY <1>0, <2>1, InitprocInTable DEF SafeInv, ThreadsConsistent, TableTypes
    <3> QED BY ZenonT(60), <2>1, <3>1 DEF SafeInv, ThreadsConsistent
  <2>4. /\ r \in Places \ {"none", "forkret", "wait", "zombie"}
        /\ r \in ForkPlaces \/ pc[p] \in ForkPlaces => r = pc[p]
        /\ r = "closing" => pc[p] = "closing"
    BY ZenonT(60), <1>1, <2>3 DEF ForkPlaces
  <2> HIDE DEF r
  <2> QED BY ZenonT(60), <1>0, <2>1, <2>2, <2>4, MoveSafe
<1>5. CASE sleepReturn(p)
  <2>1. /\ curproc = p /\ lock = p /\ p \notin yielded /\ lock' = NULL
        /\ pc[p] \in {"boot", "ticksleep", "block", "closing"}
        /\ pc' = pc /\ chan' = [chan EXCEPT ![p] = NULL]
        /\ UNCHANGED yielded /\ Stays
    BY ZenonT(60), <1>5 DEF sleepReturn, Resumed, forkVars
  <2>2. /\ pc' = [pc EXCEPT ![p] = pc[p]]
        /\ \A x \in Proc : x # p => chan'[x] = chan[x]
    BY ZenonT(60), <1>0, <2>1 DEF TableTypes
  <2> QED BY ZenonT(60), <1>0, <2>1, <2>2, MoveSafe DEF Places, ForkPlaces
<1>6. CASE syscall(p)
  <2>1. /\ curproc = p /\ lock = NULL /\ pc[p] = "user" /\ lock' = NULL
        /\ pc' = [pc EXCEPT ![p] = "syscall"] /\ UNCHANGED <<chan, yielded>>
        /\ Stays
    BY ZenonT(60), <1>6 DEF syscall, Runs, procVars, forkVars
  <2> QED BY ZenonT(60), <1>0, <2>1, MoveSafe DEF Places, ForkPlaces
<1>7. CASE sysReturn(p)
  <2>1. /\ curproc = p /\ lock = NULL /\ pc[p] \in {"syscall", "block"}
        /\ lock' = NULL /\ pc' = [pc EXCEPT ![p] = returned(p)]
        /\ UNCHANGED <<chan, yielded>> /\ Stays
    BY ZenonT(60), <1>7 DEF sysReturn, Runs, procVars, forkVars
  <2> QED BY ZenonT(60), <1>0, <1>1, <2>1, MoveSafe DEF ForkPlaces
<1> QED
  BY ZenonT(60), <1>2, <1>3, <1>4, <1>5, <1>6, <1>7 DEF resumeStep

(* Every step of nicefork keeps it, also the ones without ptable.lock.     *)
LEMMA ForkSafe ==
  ASSUME TypeInv, SafeInv, NEW p \in Proc, forkStep(p)
  PROVE  SafeInv'
<1>0. TableTypes
  BY TypesOfTable
<1> USE <1>0, InitprocInTable
    DEF TableTypes, SafeInv, Runs
<1>1. ASSUME NEW n \in NiceArg, niceforkAlloc(p, n) PROVE SafeInv'
  <2>1. PICK q \in Proc :
          /\ First(freeSlots, q) /\ state' = [state EXCEPT ![q] = "EMBRYO"]
          /\ np' = [np EXCEPT ![p] = q]
    BY ZenonT(60), <1>1 DEF niceforkAlloc
  <2>2. /\ curproc = p /\ lock = NULL /\ pc[p] = "syscall"
        /\ pc' = [pc EXCEPT ![p] = "kalloc"]
        /\ UNCHANGED <<parent, chan, kstack, runq, curproc, lock, yielded>>
    BY ZenonT(60), <1>1 DEF niceforkAlloc, InSyscall
  <2>3. state[q] = "UNUSED"
    BY ZenonT(60), <2>1 DEF First, freeSlots
  <2>4. QueueExact' /\ RunsOnOwnStack' /\ StacksAccounted'
    BY <2>1, <2>2, <2>3 DEF QueueExact, RunsOnOwnStack, StacksAccounted
  <2>5. ThreadsConsistent'
    BY <2>1, <2>2, <2>3 DEF ThreadsConsistent, RunsOnOwnStack
  <2>6. ForkOwnsSlot'
    BY <2>1, <2>2, <2>3
    DEF ForkOwnsSlot, RunsOnOwnStack, ParentsLive, ThreadsConsistent
  <2>7. NoOrphan' /\ ParentsLive'
    BY <2>1, <2>2, <2>3 DEF NoOrphan, ParentsLive, RunsOnOwnStack
  <2> QED BY ZenonT(60), <2>4, <2>5, <2>6, <2>7
<1>2. ASSUME NEW n \in NiceArg, niceforkInvalid(p, n) PROVE SafeInv'
  BY ZenonT(60), <1>2, UnchangedSafe DEF niceforkInvalid, forkVars
<1>3. CASE niceforkKalloc(p)
  <2>1. /\ curproc = p /\ lock = NULL /\ pc[p] = "kalloc"
        /\ kstack' = kstack \cup {np[p]}
        /\ pc' = [pc EXCEPT ![p] = "copy", ![np[p]] = "forkret"]
        /\ UNCHANGED <<state, parent, chan, runq, curproc, lock, yielded, np>>
    BY ZenonT(60), <1>3 DEF niceforkKalloc, forkVars
  <2>2. QueueExact' /\ RunsOnOwnStack' /\ StacksAccounted'
    BY <2>1 DEF QueueExact, RunsOnOwnStack, StacksAccounted, ForkOwnsSlot
  <2>3. ThreadsConsistent'
    BY <2>1 DEF ThreadsConsistent, RunsOnOwnStack, ForkOwnsSlot
  <2>4. ForkOwnsSlot'
    BY <2>1 DEF ForkOwnsSlot, RunsOnOwnStack
  <2>5. NoOrphan' /\ ParentsLive'
    BY <2>1 DEF NoOrphan, ParentsLive, RunsOnOwnStack
  <2> QED BY ZenonT(60), <2>2, <2>3, <2>4, <2>5
<1>4. CASE niceforkFail(p)
  <2>1. /\ curproc = p /\ lock = NULL /\ pc[p] \in {"kalloc", "copy"}
        /\ kstack' = kstack \ {np[p]}
        /\ state' = [state EXCEPT ![np[p]] = "UNUSED"]
        /\ pc' = [pc EXCEPT ![p] = returned(p), ![np[p]] = "none"]
        /\ np' = [np EXCEPT ![p] = NULL]
        /\ UNCHANGED <<parent, chan, runq, curproc, lock, yielded>>
    BY ZenonT(60), <1>4 DEF niceforkFail
  <2>2. returned(p) \in {"user", "exit"}
    BY ZenonT(60) DEF returned
  <2>3. QueueExact' /\ RunsOnOwnStack' /\ StacksAccounted'
    BY <2>1, <2>2
    DEF QueueExact, RunsOnOwnStack, StacksAccounted, ForkOwnsSlot
  <2>4. ThreadsConsistent'
    BY <2>1, <2>2 DEF ThreadsConsistent, RunsOnOwnStack, ForkOwnsSlot
  <2>5. ForkOwnsSlot'
    BY <2>1, <2>2 DEF ForkOwnsSlot, RunsOnOwnStack
  <2>6. NoOrphan' /\ ParentsLive'
    BY <2>1, <2>2 DEF NoOrphan, ParentsLive, RunsOnOwnStack, ForkOwnsSlot
  <2> QED BY ZenonT(60), <2>3, <2>4, <2>5, <2>6
<1>5. CASE niceforkCopy(p)
  <2>1. /\ curproc = p /\ lock = NULL /\ pc[p] = "copy"
        /\ parent' = [parent EXCEPT ![np[p]] = p]
        /\ pc' = [pc EXCEPT ![p] = "insert"]
        /\ UNCHANGED <<state, chan, kstack, runq, curproc, lock, yielded, np>>
    BY ZenonT(60), <1>5 DEF niceforkCopy
  <2>2. QueueExact' /\ RunsOnOwnStack' /\ StacksAccounted'
    BY <2>1 DEF QueueExact, RunsOnOwnStack, StacksAccounted, ForkOwnsSlot
  <2>3. ThreadsConsistent'
    BY <2>1 DEF ThreadsConsistent, RunsOnOwnStack, ForkOwnsSlot
  <2>4. ForkOwnsSlot'
    BY <2>1 DEF ForkOwnsSlot, RunsOnOwnStack
  <2>5. NoOrphan' /\ ParentsLive'
    BY <2>1 DEF NoOrphan, ParentsLive, RunsOnOwnStack, ForkOwnsSlot
  <2> QED BY ZenonT(60), <2>2, <2>3, <2>4, <2>5
<1>6. CASE niceforkInsert(p)
  <2>1. /\ curproc = p /\ lock = NULL /\ pc[p] = "insert"
        /\ state' = [state EXCEPT ![np[p]] = "RUNNABLE"]
        /\ runq' = runq \cup {np[p]}
        /\ pc' = [pc EXCEPT ![p] = returned(p)]
        /\ np' = [np EXCEPT ![p] = NULL]
        /\ UNCHANGED <<parent, chan, kstack, curproc, lock, yielded>>
    BY ZenonT(60), <1>6 DEF niceforkInsert
  <2>2. returned(p) \in {"user", "exit"}
    BY ZenonT(60) DEF returned
  <2>3. QueueExact' /\ RunsOnOwnStack' /\ StacksAccounted'
    BY <2>1, <2>2
    DEF QueueExact, RunsOnOwnStack, StacksAccounted, ForkOwnsSlot
  <2>4. ThreadsConsistent'
    BY <2>1, <2>2 DEF ThreadsConsistent, RunsOnOwnStack, ForkOwnsSlot
  <2>5. ForkOwnsSlot'
    BY <2>1, <2>2 DEF ForkOwnsSlot, RunsOnOwnStack
  <2>6. NoOrphan' /\ ParentsLive'
    BY <2>1, <2>2 DEF NoOrphan, ParentsLive, RunsOnOwnStack, ForkOwnsSlot
  <2> QED BY ZenonT(60), <2>3, <2>4, <2>5, <2>6
<1> QED BY ZenonT(60), <1>1, <1>2, <1>3, <1>4, <1>5, <1>6 DEF forkStep

(* The running process goes to sleep on the channel of its place r.        *)
LEMMA SleeperSafe ==
  ASSUME SafeInv, TableTypes, NEW p \in Proc, curproc = p,
         lock = NULL \/ p \notin yielded,
         pc[p] \in {"boot", "syscall", "block", "closing", "wait", "ticksleep"},
         NEW c, NEW r \in {"wait", "ticksleep", "boot", "block", "closing"},
         \/ r = "wait" /\ c = p
         \/ r = "ticksleep" /\ c = ticksChan
         \/ r \in {"boot", "block", "closing"} /\ c \in ioChans,
         r = "closing" => pc[p] = "closing",
         pc' = [pc EXCEPT ![p] = r], chan' = [chan EXCEPT ![p] = c],
         state' = [state EXCEPT ![p] = "SLEEPING"], runq' = runq \ {p},
         curproc' = NULL, lock' = NULL,
         UNCHANGED <<parent, kstack, yielded, np>>
  PROVE  SafeInv'
<1> USE InitprocInTable DEF TableTypes, SafeInv
<1>1. /\ state[p] = "RUNNING" /\ p \notin yielded
      /\ pc[p] \notin {"kalloc", "copy", "insert"}
  BY DEF RunsOnOwnStack, ThreadsConsistent
<1>2. QueueExact' /\ RunsOnOwnStack' /\ StacksAccounted'
  BY <1>1 DEF QueueExact, RunsOnOwnStack, StacksAccounted
<1>3. ThreadsConsistent'
  BY <1>1 DEF ThreadsConsistent, RunsOnOwnStack
<1>4. ForkOwnsSlot'
  BY <1>1 DEF ForkOwnsSlot, RunsOnOwnStack
<1>5. NoOrphan' /\ ParentsLive'
  BY <1>1 DEF NoOrphan, ParentsLive, RunsOnOwnStack
<1> QED BY ZenonT(60), <1>2, <1>3, <1>4, <1>5

(* The running process frees the slot of a zombie child.                   *)
LEMMA ReapSafe ==
  ASSUME SafeInv, TableTypes, NEW p \in Proc, curproc = p,
         lock = NULL \/ p \notin yielded,
         pc[p] \in {"syscall", "wait"},
         NEW q \in Proc, state[q] = "ZOMBIE", parent[q] = p,
         NEW r \in {"user", "exit"}, pc' = [pc EXCEPT ![p] = r],
         chan' = [chan EXCEPT ![p] = NULL],
         state' = [state EXCEPT ![q] = "UNUSED"],
         parent' = [parent EXCEPT ![q] = NULL], kstack' = kstack \ {q},
         lock' = NULL, UNCHANGED <<runq, curproc, yielded, np>>
  PROVE  SafeInv'
<1> USE InitprocInTable DEF TableTypes, SafeInv
<1>1. /\ p # q /\ state[p] = "RUNNING" /\ p \notin yielded
      /\ \A x \in Proc : parent[x] # q
  BY DEF RunsOnOwnStack, ThreadsConsistent, ParentsLive
<1>2. QueueExact' /\ RunsOnOwnStack' /\ StacksAccounted'
  BY <1>1 DEF QueueExact, RunsOnOwnStack, StacksAccounted
<1>3. ThreadsConsistent'
  BY <1>1 DEF ThreadsConsistent, RunsOnOwnStack
<1>4. ForkOwnsSlot'
  BY <1>1 DEF ForkOwnsSlot
<1>5. NoOrphan' /\ ParentsLive'
  BY <1>1 DEF NoOrphan, ParentsLive
<1> QED BY <1>2, <1>3, <1>4, <1>5

(* wait keeps it, when it is called and when it scans again.               *)
LEMMA WaitSafe ==
  ASSUME TypeInv, SafeInv, NEW p \in Proc, waitStep(p)
  PROVE  SafeInv'
<1>0. TableTypes
  BY TypesOfTable
<1>1. InWait(p) =>
        /\ curproc = p /\ pc[p] \in {"syscall", "wait"}
        /\ lock = NULL \/ p \notin yielded
  BY ZenonT(60) DEF InWait, InSyscall, Runs, Resumed
<1>2. returned(p) \in {"user", "exit"}
  BY ZenonT(60) DEF returned
<1>3. CASE waitReap(p)
  <2>1. PICK q \in Proc :
          /\ First(zombies(p), q)
          /\ kstack' = kstack \ {q}
          /\ parent' = [parent EXCEPT ![q] = NULL]
          /\ state' = [state EXCEPT ![q] = "UNUSED"]
    BY ZenonT(60), <1>3 DEF waitReap
  <2>2. state[q] = "ZOMBIE" /\ parent[q] = p
    BY ZenonT(60), <2>1 DEF First, zombies, kids
  <2>3. /\ InWait(p) /\ chan' = [chan EXCEPT ![p] = NULL]
        /\ pc' = [pc EXCEPT ![p] = returned(p)] /\ lock' = NULL
        /\ UNCHANGED <<runq, curproc, yielded, np>>
    BY ZenonT(60), <1>3 DEF waitReap, forkVars
  <2> QED BY ZenonT(60), <1>0, <1>1, <1>2, <2>1, <2>2, <2>3, ReapSafe
<1>4. CASE waitNone(p)
  <2>1. /\ InWait(p) /\ chan' = [chan EXCEPT ![p] = NULL]
        /\ pc' = [pc EXCEPT ![p] = returned(p)] /\ lock' = NULL
        /\ UNCHANGED <<state, parent, kstack, runq, curproc, yielded, np>>
    BY ZenonT(60), <1>4 DEF waitNone, forkVars
  <2>2. \A x \in Proc : x # p => chan'[x] = chan[x]
    BY ZenonT(60), <1>0, <2>1 DEF TableTypes
  <2> QED
    BY ZenonT(60), <1>0, <1>1, <1>2, <2>1, <2>2, MoveSafe DEF Places, ForkPlaces
<1>5. CASE waitSleep(p)
  <2>1. /\ InWait(p) /\ chan' = [chan EXCEPT ![p] = p]
        /\ pc' = [pc EXCEPT ![p] = "wait"]
        /\ state' = [state EXCEPT ![p] = "SLEEPING"] /\ runq' = runq \ {p}
        /\ curproc' = NULL /\ lock' = NULL
        /\ UNCHANGED <<parent, kstack, yielded, np>>
    BY ZenonT(60), <1>5 DEF waitSleep, sleep, sched, forkVars
  <2> QED BY ZenonT(60), <1>0, <1>1, <2>1, SleeperSafe
<1> QED BY ZenonT(60), <1>3, <1>4, <1>5 DEF waitStep

(* The running process becomes a zombie: its children pass to init and the *)
(* sleepers W are woken.                                                   *)
LEMMA ZombieSafe ==
  ASSUME SafeInv, TableTypes, NEW p \in Proc, curproc = p, lock = NULL,
         pc[p] = "closing",
         NEW W, W \subseteq {q \in Proc : state[q] = "SLEEPING"},
         runq' = (runq \ {p}) \cup W, parent' = handOver(p),
         state' = [madeRunnable(W) EXCEPT ![p] = "ZOMBIE"],
         pc' = [pc EXCEPT ![p] = "zombie"],
         UNCHANGED <<chan, kstack, curproc, lock, yielded, np>>
  PROVE  SafeInv'
<1> USE InitprocInTable DEF TableTypes, SafeInv
<1>1. /\ state[p] = "RUNNING" /\ p \notin yielded /\ p # initproc
      /\ \A x \in Proc : x \in W => x # p
      /\ \A x \in Proc : pc[x] \in {"kalloc", "copy", "insert"} => x # p
  BY DEF RunsOnOwnStack, ThreadsConsistent
<1>2. QueueExact' /\ RunsOnOwnStack' /\ StacksAccounted'
  BY <1>1 DEF QueueExact, RunsOnOwnStack, StacksAccounted, madeRunnable
<1>3. ThreadsConsistent'
  BY <1>1 DEF ThreadsConsistent, RunsOnOwnStack, madeRunnable
<1>4. ForkOwnsSlot'
  BY <1>1
  DEF ForkOwnsSlot, RunsOnOwnStack, handOver, ParentsLive, madeRunnable
<1>5. NoOrphan' /\ ParentsLive'
  BY <1>1 DEF NoOrphan, ParentsLive, RunsOnOwnStack, handOver, madeRunnable
<1> QED BY ZenonT(60), <1>2, <1>3, <1>4, <1>5

(* exit keeps it: before, inside and after its critical section.           *)
LEMMA ExitSafe ==
  ASSUME TypeInv, SafeInv, NEW p \in Proc, exitStep(p)
  PROVE  SafeInv'
<1>0. TableTypes
  BY TypesOfTable
<1> USE <1>0, InitprocInTable
    DEF TableTypes, SafeInv, procVars, forkVars, Runs
<1>1. CASE sys_exit(p)
  <2>1. /\ curproc = p /\ lock = NULL /\ pc[p] \in {"syscall", "user", "exit"}
        /\ pc' = [pc EXCEPT ![p] = "exit"]
        /\ UNCHANGED <<state, parent, chan, kstack, runq, curproc, lock,
                       yielded, np>>
    BY ZenonT(60), <1>1 DEF sys_exit
  <2> QED BY ZenonT(60), <1>0, <2>1, MoveSafe DEF Places, ForkPlaces
<1>2. CASE fault(p)
  <2>1. /\ curproc = p /\ lock = NULL /\ pc[p] \in {"syscall", "user", "exit"}
        /\ pc' = [pc EXCEPT ![p] = "exit"]
        /\ UNCHANGED <<state, parent, chan, kstack, runq, curproc, lock,
                       yielded, np>>
    BY ZenonT(60), <1>2 DEF fault
  <2> QED BY ZenonT(60), <1>0, <2>1, MoveSafe DEF Places, ForkPlaces
<1>3. CASE exitStart(p) /\ p = initproc
  BY ZenonT(60), <1>3, UnchangedSafe DEF exitStart
<1>4. CASE exitStart(p) /\ p # initproc
  <2>1. /\ curproc = p /\ lock = NULL /\ pc[p] \in {"syscall", "user", "exit"}
        /\ pc' = [pc EXCEPT ![p] = "closing"]
        /\ UNCHANGED <<state, parent, chan, kstack, runq, curproc, lock,
                       yielded, np>>
    BY ZenonT(60), <1>4 DEF exitStart
  <2> QED BY ZenonT(60), <1>0, <1>4, <2>1, MoveSafe DEF Places, ForkPlaces
<1>5. CASE exit(p)
  <2>1. /\ curproc = p /\ lock = NULL /\ pc[p] = "closing"
        /\ runq' = (runq \ {p}) \cup exitWakes(p)
        /\ parent' = handOver(p)
        /\ state' = [madeRunnable(exitWakes(p)) EXCEPT ![p] = "ZOMBIE"]
        /\ pc' = [pc EXCEPT ![p] = "zombie"]
        /\ UNCHANGED <<chan, kstack, curproc, lock, yielded, np>>
    BY ZenonT(60), <1>5 DEF exit
  <2>2. exitWakes(p) \subseteq {q \in Proc : state[q] = "SLEEPING"}
    BY ZenonT(60) DEF exitWakes, sleepersOn
  <2> QED BY ZenonT(60), <1>0, <2>1, <2>2, ZombieSafe
<1>6. CASE exitSched(p)
  <2>0. curproc = p /\ lock = NULL /\ pc[p] = "zombie"
    BY ZenonT(60), <1>6 DEF exitSched
  <2>2. state[p] = "ZOMBIE"
    BY <2>0 DEF ThreadsConsistent
  <2>1. /\ curproc = p /\ lock = NULL /\ pc[p] = "zombie"
        /\ curproc' = NULL /\ lock' = NULL /\ pc' = [pc EXCEPT ![p] = "none"]
        /\ UNCHANGED <<state, parent, chan, kstack, runq, yielded, np>>
    BY ZenonT(60), <1>6, <2>0, <2>2 DEF exitSched, sched, schedRunning
  <2>3. QueueExact' /\ RunsOnOwnStack' /\ StacksAccounted'
    BY <2>1, <2>2 DEF QueueExact, RunsOnOwnStack, StacksAccounted
  <2>4. ThreadsConsistent'
    BY <2>1, <2>2 DEF ThreadsConsistent, RunsOnOwnStack
  <2>5. ForkOwnsSlot'
    BY <2>1, <2>2 DEF ForkOwnsSlot, RunsOnOwnStack
  <2>6. NoOrphan' /\ ParentsLive'
    BY <2>1, <2>2 DEF NoOrphan, ParentsLive, RunsOnOwnStack
  <2> QED BY ZenonT(60), <2>3, <2>4, <2>5, <2>6
<1> QED BY ZenonT(60), <1>1, <1>2, <1>3, <1>4, <1>5, <1>6 DEF exitStep

(* Every call of sleep but wait's keeps it.                                *)
LEMMA SleepSafe ==
  ASSUME TypeInv, SafeInv, NEW p \in Proc, sleepStep(p)
  PROVE  SafeInv'
<1>0. TableTypes
  BY TypesOfTable
<1>1. ASSUME NEW c \in ioChans, block(p, c) PROVE SafeInv'
  <2> DEFINE r == IF pc[p] = "syscall" THEN "block" ELSE pc[p]
  <2>1. /\ curproc = p /\ lock = NULL
        /\ pc[p] \in {"boot", "syscall", "block", "closing"}
        /\ chan' = [chan EXCEPT ![p] = c] /\ pc' = [pc EXCEPT ![p] = r]
        /\ state' = [state EXCEPT ![p] = "SLEEPING"] /\ runq' = runq \ {p}
        /\ curproc' = NULL /\ lock' = NULL
        /\ UNCHANGED <<parent, kstack, yielded, np>>
    BY <1>0, <1>1 DEF block, Runs, sleep, sched, forkVars, TableTypes
  <2>2. r \in {"boot", "block", "closing"} /\ (r = "closing" => pc[p] = "closing")
    BY <2>1
  <2> HIDE DEF r
  <2> QED BY ZenonT(60), <1>0, <2>1, <2>2, SleeperSafe
<1>2. ASSUME NEW n \in SleepArg, sys_sleep(p, n) PROVE SafeInv'
  <2>1. /\ curproc = p /\ lock = NULL /\ pc[p] = "syscall"
        /\ pc' = [pc EXCEPT ![p] = "ticksleep"]
        /\ UNCHANGED <<parent, kstack, yielded, np>>
        /\ \/ sleep(p, ticksChan)
           \/ UNCHANGED <<state, chan, runq, curproc, lock>>
    BY ZenonT(60), <1>2 DEF sys_sleep, InSyscall, Runs, forkVars
  <2>2. CASE sleep(p, ticksChan)
    BY ZenonT(60), <1>0, <2>1, <2>2, SleeperSafe DEF sleep, sched
  <2>3. CASE UNCHANGED <<state, chan, runq, curproc, lock>>
    BY ZenonT(60), <1>0, <2>1, <2>3, MoveSafe DEF Places, ForkPlaces
  <2> QED BY ZenonT(60), <2>1, <2>2, <2>3
<1>3. CASE sys_sleepLoop(p)
  <2>1. /\ curproc = p /\ lock = NULL /\ pc[p] = "ticksleep"
        /\ UNCHANGED <<parent, kstack, yielded, np>>
        /\ \/ sleep(p, ticksChan) /\ UNCHANGED pc
           \/ /\ pc' = [pc EXCEPT ![p] = returned(p)]
              /\ UNCHANGED <<state, chan, runq, curproc, lock>>
    BY ZenonT(60), <1>3 DEF sys_sleepLoop, Runs, forkVars
  <2>2. CASE sleep(p, ticksChan) /\ UNCHANGED pc
    <3>1. pc' = [pc EXCEPT ![p] = "ticksleep"]
      BY ZenonT(60), <1>0, <2>1, <2>2 DEF TableTypes
    <3> QED BY ZenonT(60), <1>0, <2>1, <2>2, <3>1, SleeperSafe DEF sleep, sched
  <2>3. CASE /\ pc' = [pc EXCEPT ![p] = returned(p)]
             /\ UNCHANGED <<state, chan, runq, curproc, lock>>
    <3>1. returned(p) \in {"user", "exit"}
      BY ZenonT(60) DEF returned
    <3> QED
      BY ZenonT(60), <1>0, <2>1, <2>3, <3>1, MoveSafe DEF Places, ForkPlaces
  <2> QED BY ZenonT(60), <2>1, <2>2, <2>3
<1> QED BY ZenonT(60), <1>1, <1>2, <1>3 DEF sleepStep

(* The forks under way keep their slots when nothing of them changes.      *)
LEMMA ForkKept ==
  ASSUME ForkOwnsSlot, UNCHANGED <<parent, kstack, np>>,
         \A x \in Proc :
           /\ pc'[x] \in ForkPlaces => pc'[x] = pc[x]
           /\ pc[x] = "forkret" => pc'[x] = "forkret"
           /\ state[x] = "EMBRYO" => state'[x] = "EMBRYO"
           /\ state[x] \in {"RUNNABLE", "RUNNING"} =>
                state'[x] \in {"RUNNABLE", "RUNNING"}
  PROVE  ForkOwnsSlot'
BY DEF ForkOwnsSlot, ForkPlaces

(* The sleepers S are woken, and the running process may move within the   *)
(* kernel or out of it.                                                    *)
LEMMA WokenSafe ==
  ASSUME SafeInv, TableTypes, lock = NULL,
         NEW S, S \subseteq {q \in Proc : state[q] = "SLEEPING"},
         state' = madeRunnable(S), runq' = runq \cup S,
         \/ pc' = pc
         \/ /\ curproc \in Proc /\ pc[curproc] \in {"user", "syscall"}
            /\ \E r \in {"user", "exit"} : pc' = [pc EXCEPT ![curproc] = r],
         UNCHANGED <<parent, chan, kstack, curproc, lock, yielded, np>>
  PROVE  SafeInv'
<1> USE InitprocInTable DEF TableTypes
<1>1. /\ QueueExact /\ RunsOnOwnStack /\ ThreadsConsistent /\ ForkOwnsSlot
      /\ StacksAccounted /\ NoOrphan /\ ParentsLive
  BY ZenonT(60) DEF SafeInv
<1>2. \A x \in Proc : /\ x \in S => state[x] = "SLEEPING"
                      /\ state'[x] = IF x \in S THEN "RUNNABLE" ELSE state[x]
  BY ZenonT(60) DEF madeRunnable
<1>3. QueueExact' /\ RunsOnOwnStack' /\ StacksAccounted' /\ ThreadsConsistent'
      /\ ForkOwnsSlot'
  <2>1. CASE pc' = pc
    <3>1. QueueExact' /\ RunsOnOwnStack' /\ StacksAccounted'
      BY <1>1, <1>2, <2>1 DEF QueueExact, RunsOnOwnStack, StacksAccounted
    <3>2. ThreadsConsistent'
      BY ZenonT(60), <1>1, <1>2, <2>1 DEF ThreadsConsistent
    <3>3. ForkOwnsSlot'
      BY ZenonT(60), <1>1, <1>2, <2>1, ForkKept DEF ForkPlaces
    <3> QED BY ZenonT(60), <3>1, <3>2, <3>3
  <2>2. ASSUME curproc \in Proc, pc[curproc] \in {"user", "syscall"},
               NEW r \in {"user", "exit"}, pc' = [pc EXCEPT ![curproc] = r]
        PROVE  /\ QueueExact' /\ RunsOnOwnStack' /\ StacksAccounted'
               /\ ThreadsConsistent' /\ ForkOwnsSlot'
    <3>0. pc'[curproc] = r /\ \A x \in Proc : x # curproc => pc'[x] = pc[x]
      BY ZenonT(60), <2>2
    <3>9. state[curproc] = "RUNNING"
      BY ZenonT(60), <1>1, <2>2 DEF RunsOnOwnStack
    <3>1. QueueExact' /\ RunsOnOwnStack' /\ StacksAccounted'
      BY <1>1, <1>2, <2>2, <3>0, <3>9 DEF QueueExact, RunsOnOwnStack, StacksAccounted
    <3>2. ThreadsConsistent'
      BY <1>1, <1>2, <2>2, <3>0, <3>9 DEF ThreadsConsistent
    <3>3. ForkOwnsSlot'
      BY ZenonT(60), <1>1, <1>2, <2>2, <3>0, <3>9, ForkKept DEF ForkPlaces
    <3> QED BY ZenonT(60), <3>1, <3>2, <3>3
  <2> QED BY ZenonT(60), <2>1, <2>2
<1>4. NoOrphan' /\ ParentsLive'
  BY <1>1, <1>2 DEF NoOrphan, ParentsLive
<1> QED BY ZenonT(60), <1>3, <1>4 DEF SafeInv

(* kill and the wakeups of the other subsystems keep it.                   *)
LEMMA WakeSafe ==
  ASSUME TypeInv, SafeInv,
         \/ \E p \in Proc : \E n \in 0..MaxPid : kill(p, n)
         \/ \E c \in ioChans : ioWakeup(c)
  PROVE  SafeInv'
<1>0. TableTypes
  BY TypesOfTable
<1>1. ASSUME NEW p \in Proc, NEW n \in 0..MaxPid, kill(p, n) PROVE SafeInv'
  <2>1. PICK q \in Proc :
          /\ IF state[q] = "SLEEPING"
             THEN state' = madeRunnable({q}) /\ runq' = runq \cup {q}
             ELSE UNCHANGED <<state, runq>>
          /\ pc' = [pc EXCEPT ![p] = IF q = p THEN "exit" ELSE returned(p)]
    BY ZenonT(60), <1>1 DEF kill
  <2> DEFINE S == IF state[q] = "SLEEPING" THEN {q} ELSE {}
  <2>2. S \subseteq {r \in Proc : state[r] = "SLEEPING"}
    BY ZenonT(60)
  <2>3. runq' = runq \cup S /\ state' = madeRunnable(S)
    <3>1. CASE state[q] = "SLEEPING"
      BY ZenonT(60), <2>1, <3>1
    <3>2. CASE state[q] # "SLEEPING"
      BY <1>0, <2>1, <3>2 DEF TableTypes, madeRunnable
    <3> QED BY ZenonT(60), <3>1, <3>2
  <2>4. (IF q = p THEN "exit" ELSE returned(p)) \in {"user", "exit"}
    BY ZenonT(60) DEF returned
  <2>5. /\ curproc = p /\ lock = NULL /\ pc[p] = "syscall"
        /\ UNCHANGED <<parent, chan, kstack, curproc, lock, yielded, np>>
    BY ZenonT(60), <1>1 DEF kill, InSyscall, Runs, forkVars
  <2> HIDE DEF S
  <2> QED BY ZenonT(60), <1>0, <2>1, <2>2, <2>3, <2>4, <2>5, WokenSafe
<1>2. ASSUME NEW c \in ioChans, ioWakeup(c) PROVE SafeInv'
  <2>1. /\ lock = NULL /\ state' = madeRunnable(sleepersOn(c))
        /\ runq' = runq \cup sleepersOn(c) /\ pc' = pc
        /\ UNCHANGED <<parent, chan, kstack, curproc, lock, yielded, np>>
    BY ZenonT(60), <1>2 DEF ioWakeup, forkVars
  <2>2. sleepersOn(c) \subseteq {q \in Proc : state[q] = "SLEEPING"}
    BY ZenonT(60) DEF sleepersOn
  <2> QED BY ZenonT(60), <1>0, <2>1, <2>2, WokenSafe
<1> QED BY ZenonT(60), <1>1, <1>2

(* yield from the timer, with the sleepers S of &ticks woken before.       *)
LEMMA PreemptSafe ==
  ASSUME SafeInv, TableTypes, curproc \in Proc, lock = NULL, state[curproc] = "RUNNING",
         NEW S, S \subseteq Proc, \A q \in S : state[q] = "SLEEPING",
         state' = [q \in Proc |-> IF q \in S \/ q = curproc THEN "RUNNABLE"
                                                            ELSE state[q]],
         runq' = runq \cup S, yielded' = yielded \cup {curproc},
         curproc' = NULL,
         UNCHANGED <<parent, chan, kstack, np, pc, lock>>
  PROVE  SafeInv'
<1> USE InitprocInTable DEF TableTypes, SafeInv
<1>1. QueueExact' /\ RunsOnOwnStack' /\ StacksAccounted'
  BY DEF QueueExact, RunsOnOwnStack, StacksAccounted
<1>2. ThreadsConsistent'
  BY ZenonT(60) DEF ThreadsConsistent, RunsOnOwnStack
<1>3. ForkOwnsSlot'
  <2>1. \A x \in Proc : /\ state[x] = "EMBRYO" => state'[x] = "EMBRYO"
                        /\ state[x] \in {"RUNNABLE", "RUNNING"} =>
                             state'[x] \in {"RUNNABLE", "RUNNING"}
    BY ZenonT(60)
  <2> QED BY ZenonT(60), <2>1, ForkKept
<1>4. NoOrphan' /\ ParentsLive'
  BY DEF NoOrphan, ParentsLive, RunsOnOwnStack
<1> QED BY ZenonT(60), <1>1, <1>2, <1>3, <1>4

(* The timer interrupt keeps it: idle, counting, and taking the CPU away.  *)
LEMMA TimerSafe ==
  ASSUME TypeInv, SafeInv, timer
  PROVE  SafeInv'
<1> DEFINE exits == pc[curproc] = "user" /\ curproc \in killed
           preempts == counts(curproc) /\ expires(curproc)
           Woken == /\ lock = NULL
                    /\ state' = madeRunnable(sleepersOn(ticksChan))
                    /\ runq' = runq \cup sleepersOn(ticksChan)
                    /\ UNCHANGED <<parent, chan, kstack, curproc, lock,
                                   yielded, np>>
<1>0. TableTypes
  BY TypesOfTable
<1>5. sleepersOn(ticksChan) \subseteq {q \in Proc : state[q] = "SLEEPING"}
  BY ZenonT(60) DEF sleepersOn
<1>1. CASE curproc = NULL
  <2>1. /\ pc' = pc
        /\ Woken
    BY ZenonT(60), <1>0, <1>1 DEF timer, forkVars, TableTypes
  <2> QED BY ZenonT(60), <1>0, <1>5, <2>1, WokenSafe
<1>2. CASE curproc # NULL /\ exits
  <2>1. /\ curproc \in Proc /\ pc[curproc] = "user"
        /\ pc' = [pc EXCEPT ![curproc] = "exit"]
        /\ Woken
    BY ZenonT(60), <1>0, <1>2 DEF timer, forkVars, TableTypes
  <2> QED BY ZenonT(60), <1>0, <1>5, <2>1, WokenSafe
<1>3. CASE curproc # NULL /\ ~exits /\ preempts
  <2> DEFINE S == sleepersOn(ticksChan)
  <2>1. /\ lock = NULL /\ runq' = runq \cup S
        /\ yielded' = yielded \cup {curproc} /\ curproc' = NULL
        /\ UNCHANGED <<parent, chan, kstack, np, pc>> /\ lock' = NULL
        /\ state' = [madeRunnable(S) EXCEPT ![curproc] = "RUNNABLE"]
    BY <1>3 DEF timer, yield, sched, forkVars
  <2>2. S \subseteq Proc /\ \A q \in S : state[q] = "SLEEPING"
    BY DEF sleepersOn
  <2>3. curproc \in Proc /\ state[curproc] = "RUNNING"
    BY ZenonT(60), <1>3 DEF TypeInv, TypeOK, counts
  <2>4. state' = [q \in Proc |-> IF q \in S \/ q = curproc THEN "RUNNABLE"
                                                           ELSE state[q]]
    <3> HIDE DEF S
    <3> QED BY ZenonT(60), <2>1, <2>3 DEF madeRunnable
  <2> HIDE DEF S
  <2> QED BY ZenonT(60), <1>0, <2>1, <2>2, <2>3, <2>4, PreemptSafe
<1>4. CASE curproc # NULL /\ ~exits /\ ~preempts
  <2>1. /\ pc' = pc
        /\ Woken
    BY ZenonT(60), <1>0, <1>4 DEF timer, forkVars, TableTypes
  <2> QED BY ZenonT(60), <1>0, <1>5, <2>1, WokenSafe
<1> QED BY <1>1, <1>2, <1>3, <1>4

(* SafeInv is inductive over every step of the system.                     *)
LEMMA StepSafe == TypeInv /\ SafeInv /\ [Next]_vars => SafeInv'
<1> SUFFICES ASSUME TypeInv, SafeInv, [Next]_vars PROVE SafeInv'
  OBVIOUS
<1>1. ASSUME NEW p \in Proc,
             \/ scheduler(p) \/ sys_yield(p) \/ resumeStep(p) \/ forkStep(p)
             \/ waitStep(p) \/ exitStep(p) \/ sleepStep(p)
      PROVE  SafeInv'
  BY <1>1, SwitchSafe, ResumeSafe, ForkSafe, WaitSafe, ExitSafe, SleepSafe
<1>2. ASSUME NEW p \in Proc, NEW n \in 0..MaxPid, kill(p, n) PROVE SafeInv'
  BY <1>2, WakeSafe
<1>3. ASSUME NEW c \in ioChans, ioWakeup(c) PROVE SafeInv'
  BY <1>3, WakeSafe
<1>4. CASE timer
  BY <1>4, TimerSafe
<1>5. CASE UNCHANGED vars
  BY <1>5, UnchangedSafe DEF vars, forkVars
<1> QED BY <1>1, <1>2, <1>3, <1>4, <1>5 DEF Next

(* The invariants of the process table hold together in every reachable    *)
(* state.                                                                  *)
LEMMA SafeInvariant == Spec => []SafeInv
BY TypeInvariant, InitSafe, StepSafe, PTL DEF Spec

(* The skip list holds exactly the RUNNABLE and RUNNING processes, so that *)
(* insert never meets a process that is linked and delete always finds the *)
(* one it is given.                                                        *)
THEOREM RunQueueExact == Spec => []QueueExact
<1>1. SafeInv => QueueExact
  BY DEF SafeInv
<1> QED BY <1>1, SafeInvariant, PTL

(* The CPU runs at most one process, on a kernel stack that process still  *)
(* owns: wait cannot free the stack exit is standing on.                   *)
THEOREM StackOwned == Spec => []RunsOnOwnStack
<1>1. SafeInv => RunsOnOwnStack
  BY DEF SafeInv
<1> QED BY <1>1, SafeInvariant, PTL

(* A thread is where its process state says: it sleeps on the channel of   *)
(* its own loop, and comes out of sched holding ptable.lock once.          *)
THEOREM ThreadsWhereStateSays == Spec => []ThreadsConsistent
<1>1. SafeInv => ThreadsConsistent
  BY DEF SafeInv
<1> QED BY <1>1, SafeInvariant, PTL

(* The slot that allocproc gave to nicefork is its own until it is         *)
(* inserted or given back, although ptable.lock is dropped in between.     *)
THEOREM ForkSlotKept == Spec => []ForkOwnsSlot
<1>1. SafeInv => ForkOwnsSlot
  BY DEF SafeInv
<1> QED BY <1>1, SafeInvariant, PTL

(* A free slot has no kernel stack and a process that can run has one,     *)
(* also after forks that failed half way.                                  *)
THEOREM StacksNeverLeaked == Spec => []StacksAccounted
<1>1. SafeInv => StacksAccounted
  BY DEF SafeInv
<1> QED BY <1>1, SafeInvariant, PTL

(* Every process but the first has a parent that has not exited: the loop  *)
(* of exit that hands the children to init misses none.                    *)
THEOREM NobodyOrphaned == Spec => []NoOrphan
<1>1. SafeInv => NoOrphan
  BY DEF SafeInv
<1> QED BY <1>1, SafeInvariant, PTL

-----------------------------------------------------------------------------
(* Nobody is its own parent, and init has none: a process that exits is    *)
(* not one of the children exit hands to init.                             *)
ParentsProper == parent[initproc] = NULL /\ \A p \in Proc : parent[p] # p

(* The parent pointers change in nicefork, wait and exit only.             *)
LEMMA StepProper ==
  ASSUME TypeInv, SafeInv, ParentsProper, [Next]_vars
  PROVE  ParentsProper'
<1>1. ASSUME NEW p \in Proc, niceforkCopy(p) PROVE ParentsProper'
  <2>1. /\ pc[p] = "copy" /\ parent' = [parent EXCEPT ![np[p]] = p]
        /\ parent \in [Proc -> Proc \cup {NULL}]
    BY ZenonT(60), <1>1 DEF niceforkCopy, TypeInv, TypeOK
  <2>2. /\ state[p] \in {"RUNNABLE", "RUNNING"} /\ state[np[p]] = "EMBRYO"
        /\ state[initproc] \in {"SLEEPING", "RUNNABLE", "RUNNING"}
    BY ZenonT(60), <2>1 DEF SafeInv, ForkOwnsSlot, ParentsLive
  <2>3. np[p] # p /\ np[p] # initproc
    BY ZenonT(60), <2>2
  <2> QED BY ZenonT(60), <2>1, <2>3, InitprocInTable DEF ParentsProper
<1>2. ASSUME NEW p \in Proc, waitReap(p) PROVE ParentsProper'
  <2> PICK q \in Proc : parent' = [parent EXCEPT ![q] = NULL]
    BY ZenonT(60), <1>2 DEF waitReap
  <2>1. parent \in [Proc -> Proc \cup {NULL}]
    BY ZenonT(60) DEF TypeInv, TypeOK
  <2> QED BY <2>1, InitprocInTable DEF ParentsProper
<1>3. ASSUME NEW p \in Proc, exit(p) PROVE ParentsProper'
  BY ZenonT(60), <1>3, InitprocInTable
  DEF exit, handOver, Runs, TypeInv, TypeOK, SafeInv, ThreadsConsistent,
      ParentsProper
<1>4. CASE UNCHANGED parent
  BY <1>4 DEF ParentsProper
<1>5. ASSUME NEW p \in Proc, forkStep(p), ~niceforkCopy(p)
      PROVE  UNCHANGED parent
  BY ZenonT(60), <1>5 DEF forkStep, niceforkAlloc, niceforkInvalid, niceforkKalloc,
              niceforkFail, niceforkInsert, procVars
<1>6. ASSUME NEW p \in Proc, waitStep(p), ~waitReap(p)
      PROVE  UNCHANGED parent
  BY <1>6 DEF waitStep, waitNone, waitSleep
<1>7. ASSUME NEW p \in Proc, exitStep(p), ~exit(p)
      PROVE  UNCHANGED parent
  BY ZenonT(60), <1>7 DEF exitStep, sys_exit, fault, exitStart, exitSched, procVars
<1>8. ASSUME NEW p \in Proc, resumeStep(p) \/ sleepStep(p)
      PROVE  UNCHANGED parent
  BY ZenonT(60), <1>8 DEF resumeStep, forkret, bootDone, yieldReturn, sleepReturn,
              syscall, sysReturn, sleepStep, block, sys_sleep,
              sys_sleepLoop, procVars
<1>9. ASSUME NEW p \in Proc, scheduler(p) \/ sys_yield(p)
      PROVE  UNCHANGED parent
  BY <1>9 DEF scheduler, sys_yield
<1>10. ASSUME NEW p \in Proc, NEW n \in 0..MaxPid, kill(p, n)
       PROVE  UNCHANGED parent
  BY ZenonT(60), <1>10 DEF kill
<1>11. ASSUME timer \/ \E c \in ioChans : ioWakeup(c)
       PROVE  UNCHANGED parent
  BY <1>11 DEF timer, ioWakeup
<1>12. ASSUME UNCHANGED vars PROVE UNCHANGED parent
  BY <1>12 DEF vars, procVars
<1> QED
  BY <1>1, <1>2, <1>3, <1>4, <1>5, <1>6, <1>7, <1>8, <1>9, <1>10, <1>11, <1>12
  DEF Next

(* A step after which nobody else sleeps in wait, no parent or killed flag *)
(* has changed and there is no new zombie.                                 *)
LEMMA FrameNoLost ==
  ASSUME NoLostExit, UNCHANGED <<parent, killed>>,
         \A q \in Proc : /\ state'[q] = "SLEEPING" /\ pc'[q] = "wait" =>
                              state[q] = "SLEEPING" /\ pc[q] = "wait"
                         /\ state'[q] = "ZOMBIE" => state[q] = "ZOMBIE"
  PROVE  NoLostExit'
BY ZenonT(60) DEF NoLostExit, kids, zombies

(* The CPU changing hands loses no exit.                                   *)
LEMMA SwitchNoLost ==
  ASSUME TypeInv, NoLostExit, NEW p \in Proc,
         scheduler(p) \/ sys_yield(p) \/ resumeStep(p)
  PROVE  NoLostExit'
<1> USE DEF TypeInv, TypeOK, procVars
<1>1. CASE scheduler(p) \/ sys_yield(p)
  BY ZenonT(60), <1>1, FrameNoLost DEF scheduler, sys_yield
<1>2. CASE forkret(p) \/ bootDone(p) \/ syscall(p) \/ sleepReturn(p)
  BY ZenonT(60), <1>2, FrameNoLost DEF forkret, bootDone, syscall, sleepReturn
<1>3. CASE yieldReturn(p) \/ sysReturn(p)
  BY ZenonT(60), <1>3, FrameNoLost DEF yieldReturn, sysReturn, returned
<1> QED BY ZenonT(60), <1>1, <1>2, <1>3 DEF resumeStep

(* Nor does a fork: the new child is no zombie, and its parent is running. *)
LEMMA ForkNoLost ==
  ASSUME TypeInv, SafeInv, NoLostExit, NEW p \in Proc, forkStep(p)
  PROVE  NoLostExit'
<1>0. TableTypes
  BY TypesOfTable
<1>1. ASSUME NEW n \in NiceArg, niceforkAlloc(p, n) PROVE NoLostExit'
  <2>1. /\ UNCHANGED <<parent, killed>> /\ pc' = [pc EXCEPT ![p] = "kalloc"]
        /\ \E q \in Proc : state' = [state EXCEPT ![q] = "EMBRYO"]
    BY ZenonT(60), <1>1 DEF niceforkAlloc
  <2> QED BY ZenonT(60), <1>0, <2>1, FrameNoLost DEF TableTypes
<1>2. ASSUME NEW n \in NiceArg, niceforkInvalid(p, n) PROVE NoLostExit'
  <2>1. UNCHANGED <<state, parent, killed, pc>>
    BY ZenonT(60), <1>2 DEF niceforkInvalid, procVars
  <2> QED BY ZenonT(60), <2>1, FrameNoLost
<1>3. CASE niceforkKalloc(p)
  <2>1. /\ UNCHANGED <<state, parent, killed>>
        /\ pc' = [pc EXCEPT ![p] = "copy", ![np[p]] = "forkret"]
    BY ZenonT(60), <1>3 DEF niceforkKalloc
  <2> QED BY ZenonT(60), <1>0, <2>1, FrameNoLost DEF TableTypes
<1>4. CASE niceforkFail(p)
  <2>1. /\ UNCHANGED <<parent, killed>>
        /\ state' = [state EXCEPT ![np[p]] = "UNUSED"]
        /\ pc' = [pc EXCEPT ![p] = returned(p), ![np[p]] = "none"]
    BY ZenonT(60), <1>4 DEF niceforkFail
  <2> QED BY ZenonT(60), <1>0, <2>1, FrameNoLost DEF TableTypes, returned
<1>5. CASE niceforkCopy(p)
  <2>1. /\ curproc = p /\ pc[p] = "copy" /\ pc' = [pc EXCEPT ![p] = "insert"]
        /\ parent' = [parent EXCEPT ![np[p]] = p]
        /\ UNCHANGED <<state, killed>>
    BY ZenonT(60), <1>5 DEF niceforkCopy, Runs
  <2>2. np[p] \in Proc /\ state[np[p]] = "EMBRYO" /\ parent[np[p]] = NULL
    BY ZenonT(60), <2>1 DEF SafeInv, ForkOwnsSlot
  <2> SUFFICES ASSUME NEW r \in Proc, state'[r] = "SLEEPING", pc'[r] = "wait"
               PROVE  kids(r)' # {} /\ zombies(r)' = {} /\ r \notin killed'
    BY ZenonT(60) DEF NoLostExit
  <2>3. r # p /\ state[r] = "SLEEPING" /\ pc[r] = "wait"
    BY ZenonT(60), <1>0, <2>1 DEF TableTypes
  <2>4. kids(r) # {} /\ zombies(r) = {} /\ r \notin killed
    BY ZenonT(60), <2>3 DEF NoLostExit
  <2>5. \A q \in Proc : parent'[q] = r <=> parent[q] = r
    BY ZenonT(60), <1>0, <2>1, <2>2, <2>3, InitprocInTable DEF TableTypes
  <2> QED BY ZenonT(60), <2>1, <2>4, <2>5 DEF kids, zombies
<1>6. CASE niceforkInsert(p)
  <2>1. /\ UNCHANGED <<parent, killed>>
        /\ state' = [state EXCEPT ![np[p]] = "RUNNABLE"]
        /\ pc' = [pc EXCEPT ![p] = returned(p)]
    BY ZenonT(60), <1>6 DEF niceforkInsert
  <2> QED BY ZenonT(60), <1>0, <2>1, FrameNoLost DEF TableTypes, returned
<1> QED BY ZenonT(60), <1>1, <1>2, <1>3, <1>4, <1>5, <1>6 DEF forkStep

(* wait sleeps only after it has found a child and no zombie.              *)
LEMMA WaitNoLost ==
  ASSUME TypeInv, SafeInv, NoLostExit, NEW p \in Proc, waitStep(p)
  PROVE  NoLostExit'
<1>0. TableTypes
  BY TypesOfTable
<1>1. CASE waitReap(p)
  <2>1. PICK q \in Proc :
          /\ First(zombies(p), q)
          /\ parent' = [parent EXCEPT ![q] = NULL]
          /\ killed' = killed \ {q}
          /\ state' = [state EXCEPT ![q] = "UNUSED"]
    BY ZenonT(60), <1>1 DEF waitReap
  <2>2. pc' = [pc EXCEPT ![p] = returned(p)]
    BY ZenonT(60), <1>1 DEF waitReap
  <2>3. parent[q] = p
    BY ZenonT(60), <2>1 DEF First, zombies, kids
  <2> SUFFICES ASSUME NEW r \in Proc, state'[r] = "SLEEPING", pc'[r] = "wait"
               PROVE  kids(r)' # {} /\ zombies(r)' = {} /\ r \notin killed'
    BY ZenonT(60) DEF NoLostExit
  <2>4. r # p /\ state[r] = "SLEEPING" /\ pc[r] = "wait"
    BY ZenonT(60), <1>0, <2>1, <2>2 DEF TableTypes, returned
  <2>5. kids(r) # {} /\ zombies(r) = {} /\ r \notin killed
    BY ZenonT(60), <2>4 DEF NoLostExit
  <2>6. \A x \in Proc : /\ parent'[x] = r <=> parent[x] = r
                        /\ state'[x] = "ZOMBIE" => state[x] = "ZOMBIE"
    BY ZenonT(60), <1>0, <2>1, <2>3, <2>4, InitprocInTable DEF TableTypes
  <2> QED BY ZenonT(60), <2>1, <2>5, <2>6 DEF kids, zombies
<1>2. CASE waitNone(p)
  <2>1. /\ UNCHANGED <<state, parent, killed>>
        /\ pc' = [pc EXCEPT ![p] = returned(p)]
    BY ZenonT(60), <1>2 DEF waitNone
  <2> QED BY ZenonT(60), <1>0, <2>1, FrameNoLost DEF TableTypes, returned
<1>3. CASE waitSleep(p)
  <2>1. /\ zombies(p) = {} /\ kids(p) # {} /\ p \notin killed
        /\ state' = [state EXCEPT ![p] = "SLEEPING"]
        /\ pc' = [pc EXCEPT ![p] = "wait"] /\ UNCHANGED <<parent, killed>>
    BY ZenonT(60), <1>3 DEF waitSleep, sleep
  <2> SUFFICES ASSUME NEW r \in Proc, state'[r] = "SLEEPING", pc'[r] = "wait"
               PROVE  kids(r)' # {} /\ zombies(r)' = {} /\ r \notin killed'
    BY ZenonT(60) DEF NoLostExit
  <2>2. kids(r) # {} /\ zombies(r) = {} /\ r \notin killed
    BY ZenonT(60), <1>0, <2>1 DEF TableTypes, NoLostExit
  <2>3. \A x \in Proc : state'[x] = "ZOMBIE" => state[x] = "ZOMBIE"
    BY ZenonT(60), <1>0, <2>1 DEF TableTypes
  <2> QED BY ZenonT(60), <2>1, <2>2, <2>3 DEF kids, zombies
<1> QED BY ZenonT(60), <1>1, <1>2, <1>3 DEF waitStep

(* exit wakes the parent, and init when it inherits a zombie.              *)
LEMMA ExitNoLost ==
  ASSUME TypeInv, SafeInv, ParentsProper, NoLostExit,
         NEW p \in Proc, exitStep(p)
  PROVE  NoLostExit'
<1>1. CASE sys_exit(p)
  BY ZenonT(60), <1>1, FrameNoLost DEF sys_exit, procVars, TypeInv, TypeOK
<1>2. CASE fault(p)
  BY ZenonT(60), <1>2
  DEF fault, Runs, TypeInv, TypeOK, SafeInv, RunsOnOwnStack, NoLostExit, kids,
      zombies
<1>3. CASE exitStart(p)
  BY ZenonT(60), <1>3, FrameNoLost DEF exitStart, procVars, TypeInv, TypeOK
<1>4. CASE exitSched(p)
  BY ZenonT(60), <1>4, FrameNoLost DEF exitSched, procVars, TypeInv, TypeOK
<1>5. CASE exit(p)
  <2> SUFFICES ASSUME NEW r \in Proc, state'[r] = "SLEEPING", pc'[r] = "wait"
               PROVE  kids(r)' # {} /\ zombies(r)' = {} /\ r \notin killed'
    BY ZenonT(60) DEF NoLostExit
  <2>1. /\ r # p /\ state[r] = "SLEEPING" /\ pc[r] = "wait" /\ chan[r] = r
        /\ r \notin sleepersOn(parent[p])
        /\ zombies(p) # {} => r \notin sleepersOn(initproc)
    BY ZenonT(60), <1>5 DEF exit, exitWakes, madeRunnable, TypeInv, TypeOK, SafeInv,
                ThreadsConsistent
  <2>2. r # parent[p] /\ (r = initproc => zombies(p) = {})
    BY ZenonT(60), <2>1 DEF sleepersOn
  <2>3. kids(r) # {} /\ zombies(r) = {} /\ r \notin killed /\ killed' = killed
    BY ZenonT(60), <1>5, <2>1 DEF NoLostExit, exit
  <2>4. /\ \A q \in Proc : parent[q] = r => parent'[q] = r
        /\ \A q \in Proc : parent'[q] = r =>
             parent[q] = r \/ (parent[q] = p /\ r = initproc)
        /\ \A q \in Proc : state'[q] = "ZOMBIE" => state[q] = "ZOMBIE" \/ q = p
    BY ZenonT(60), <1>5, <2>1 DEF exit, handOver, madeRunnable, TypeInv, TypeOK
  <2>5. parent'[p] # r
    BY ZenonT(60), <2>2, <2>4 DEF ParentsProper
  <2> QED BY ZenonT(60), <2>2, <2>3, <2>4, <2>5 DEF kids, zombies
<1> QED BY <1>1, <1>2, <1>3, <1>4, <1>5 DEF exitStep

(* Other sleeps, wakeups, kills and the timer lose no exit.                *)
LEMMA OtherNoLost ==
  ASSUME TypeInv, SafeInv, NoLostExit,
         \/ \E p \in Proc : sleepStep(p) \/ \E n \in 0..MaxPid : kill(p, n)
         \/ timer
         \/ \E c \in ioChans : ioWakeup(c)
  PROVE  NoLostExit'
<1>1. ASSUME NEW p \in Proc, sleepStep(p) PROVE NoLostExit'
  <2>1. ASSUME NEW c \in ioChans, block(p, c) PROVE NoLostExit'
    BY ZenonT(60), <2>1, FrameNoLost DEF block, sleep, TypeInv, TypeOK
  <2>2. ASSUME NEW n \in SleepArg, sys_sleep(p, n) PROVE NoLostExit'
    BY ZenonT(60), <2>2, FrameNoLost DEF sys_sleep, sleep, TypeInv, TypeOK
  <2>3. CASE sys_sleepLoop(p)
    BY ZenonT(60), <2>3, FrameNoLost DEF sys_sleepLoop, sleep, returned, TypeInv, TypeOK
  <2> QED BY <1>1, <2>1, <2>2, <2>3 DEF sleepStep
<1>2. ASSUME NEW p \in Proc, NEW n \in 0..MaxPid, kill(p, n) PROVE NoLostExit'
  <2>0. TableTypes
    BY TypesOfTable
  <2>1. PICK q \in Proc :
          /\ killed' = killed \cup {q}
          /\ IF state[q] = "SLEEPING" THEN state' = madeRunnable({q})
                                      ELSE UNCHANGED state
          /\ pc' = [pc EXCEPT ![p] = IF q = p THEN "exit" ELSE returned(p)]
    BY ZenonT(60), <1>2 DEF kill
  <2>2. UNCHANGED parent
    BY ZenonT(60), <1>2 DEF kill
  <2> SUFFICES ASSUME NEW r \in Proc, state'[r] = "SLEEPING", pc'[r] = "wait"
               PROVE  kids(r)' # {} /\ zombies(r)' = {} /\ r \notin killed'
    BY ZenonT(60) DEF NoLostExit
  <2>3. (IF q = p THEN "exit" ELSE returned(p)) # "wait"
    BY ZenonT(60) DEF returned
  <2>4. pc[r] = "wait"
    BY ZenonT(60), <2>0, <2>1, <2>3 DEF TableTypes
  <2>5. state[r] = "SLEEPING" /\ r # q
    BY ZenonT(60), <2>1 DEF madeRunnable
  <2>6. kids(r) # {} /\ zombies(r) = {} /\ r \notin killed
    BY ZenonT(60), <2>4, <2>5 DEF NoLostExit
  <2>7. \A x \in Proc : state'[x] = "ZOMBIE" => state[x] = "ZOMBIE"
    BY ZenonT(60), <2>1 DEF madeRunnable
  <2> QED BY ZenonT(60), <2>1, <2>2, <2>5, <2>6, <2>7 DEF kids, zombies
<1>3. CASE timer
  <2>1. \A q \in Proc : /\ state'[q] = "SLEEPING" /\ pc'[q] = "wait" =>
                             state[q] = "SLEEPING" /\ pc[q] = "wait"
                        /\ state'[q] = "ZOMBIE" => state[q] = "ZOMBIE"
    BY ZenonT(60), <1>3 DEF timer, madeRunnable, TypeInv, TypeOK
  <2>2. UNCHANGED <<parent, killed>>
    BY ZenonT(60), <1>3 DEF timer
  <2> QED BY ZenonT(60), <2>1, <2>2, FrameNoLost
<1>4. ASSUME NEW c \in ioChans, ioWakeup(c) PROVE NoLostExit'
  BY ZenonT(60), <1>4, FrameNoLost DEF ioWakeup, madeRunnable, TypeInv, TypeOK
<1> QED BY <1>1, <1>2, <1>3, <1>4

(* No process ever sleeps in wait past the exit of a child: NoLostExit     *)
(* holds in every reachable state, for every number of processes.          *)
THEOREM ExitNeverLost == Spec => []NoLostExit
<1> DEFINE WaitInv == TypeInv /\ SafeInv /\ ParentsProper /\ NoLostExit
<1>1. Init => ParentsProper /\ NoLostExit
  BY InitprocInTable DEF Init, ParentsProper, NoLostExit
<1>2. WaitInv /\ [Next]_vars => NoLostExit'
  <2>1. CASE UNCHANGED vars
    BY <2>1, FrameNoLost DEF vars, procVars
  <2> QED
    BY <2>1, SwitchNoLost, ForkNoLost, WaitNoLost, ExitNoLost, OtherNoLost
    DEF Next
<1>3. WaitInv /\ [Next]_vars => ParentsProper'
  BY StepProper
<1> QED BY <1>1, <1>2, <1>3, TypeInvariant, InitSafe, StepSafe, PTL DEF Spec

-----------------------------------------------------------------------------
(* A step that does not advance the clock, kills no sleeper and puts       *)
(* nobody to sleep in sys_sleep.                                           *)
LEMMA FrameTick ==
  ASSUME NoLostTick, ticks' = ticks,
         \A q \in Proc : state'[q] = "SLEEPING" /\ pc'[q] = "ticksleep" =>
           /\ state[q] = "SLEEPING" /\ pc[q] = "ticksleep"
           /\ wakeAt'[q] = wakeAt[q]
           /\ q \in killed' => q \in killed
  PROVE  NoLostTick'
BY DEF NoLostTick

(* The steps of one process other than sleeping and killing.               *)
LEMMA ProcessTick ==
  ASSUME TypeInv, SafeInv, NoLostTick, NEW p \in Proc,
         \/ scheduler(p) \/ sys_yield(p) \/ resumeStep(p) \/ forkStep(p)
         \/ waitStep(p) \/ exitStep(p)
  PROVE  NoLostTick'
<1> USE DEF TypeInv, TypeOK, procVars, bfsVars, forkVars
<1>1. CASE scheduler(p) \/ sys_yield(p)
  BY ZenonT(60), <1>1, FrameTick DEF scheduler, sys_yield
<1>2. CASE resumeStep(p)
  <2>1. CASE forkret(p) \/ bootDone(p) \/ syscall(p) \/ sleepReturn(p)
    BY ZenonT(60), <2>1, FrameTick DEF forkret, bootDone, syscall, sleepReturn
  <2>2. CASE yieldReturn(p) \/ sysReturn(p)
    BY ZenonT(60), <2>2, FrameTick DEF yieldReturn, sysReturn, returned
  <2> QED BY ZenonT(60), <1>2, <2>1, <2>2 DEF resumeStep
<1>3. CASE forkStep(p)
  <2>1. ASSUME NEW n \in NiceArg, niceforkAlloc(p, n) PROVE NoLostTick'
    BY <2>1, FrameTick, ZenonT(60) DEF niceforkAlloc
  <2>2. ASSUME NEW n \in NiceArg, niceforkInvalid(p, n) PROVE NoLostTick'
    BY ZenonT(60), <2>2, FrameTick DEF niceforkInvalid
  <2>3. CASE niceforkKalloc(p) \/ niceforkCopy(p)
    BY ZenonT(60), <2>3, FrameTick DEF niceforkKalloc, niceforkCopy
  <2>4. CASE niceforkFail(p) \/ niceforkInsert(p)
    BY ZenonT(60), <2>4, FrameTick DEF niceforkFail, niceforkInsert, returned
  <2> QED BY ZenonT(60), <1>3, <2>1, <2>2, <2>3, <2>4 DEF forkStep
<1>4. CASE waitStep(p)
  <2>1. CASE waitReap(p)
    BY ZenonT(60), <2>1, FrameTick DEF waitReap, returned
  <2>2. CASE waitNone(p)
    BY ZenonT(60), <2>2, FrameTick DEF waitNone, returned
  <2>3. CASE waitSleep(p)
    BY ZenonT(60), <2>3, FrameTick DEF waitSleep, sleep
  <2> QED BY ZenonT(60), <1>4, <2>1, <2>2, <2>3 DEF waitStep
<1>5. CASE exitStep(p)
  <2>1. CASE sys_exit(p) \/ exitStart(p) \/ exitSched(p)
    BY ZenonT(60), <2>1, FrameTick DEF sys_exit, exitStart, exitSched
  <2>2. CASE fault(p)
    BY ZenonT(60), <2>2, FrameTick DEF fault
  <2>3. CASE exit(p)
    BY ZenonT(60), <2>3, FrameTick DEF exit, madeRunnable
  <2> QED BY ZenonT(60), <1>5, <2>1, <2>2, <2>3 DEF exitStep
<1> QED BY ZenonT(60), <1>1, <1>2, <1>3, <1>4, <1>5

(* A sleep of at least one tick ends later than now.                      *)
LEMMA LaterIsGreater ==
  ASSUME NEW t \in Nat, NEW n \in Nat, 0 < n
  PROVE  t < t + n
OBVIOUS

(* sys_sleep goes to sleep only after it compared the time and the killed  *)
(* flag; the timer wakes every sleeper and kill the one it marks.          *)
LEMMA SleepTick ==
  ASSUME TypeInv, SafeInv, NoLostTick,
         \/ \E p \in Proc : sleepStep(p) \/ \E n \in 0..MaxPid : kill(p, n)
         \/ timer
         \/ \E c \in ioChans : ioWakeup(c)
  PROVE  NoLostTick'
<1> USE DEF TypeInv, TypeOK, procVars, bfsVars, forkVars
<1>1. ASSUME NEW p \in Proc, NEW c \in ioChans, block(p, c) PROVE NoLostTick'
  BY ZenonT(60), <1>1, FrameTick DEF block, sleep
<1>2. ASSUME NEW p \in Proc, NEW n \in SleepArg, sys_sleep(p, n)
      PROVE  NoLostTick'
  <2>1. n \in Nat /\ ticks \in Nat
    BY ZenonT(60), SchedAssumption
  <2>2. CASE 0 < n /\ p \notin killed
    <3>1. ticks < ticks + n
      BY ZenonT(60), <2>1, <2>2, LaterIsGreater
    <3>2. /\ ticks' = ticks /\ killed' = killed
          /\ wakeAt' = [wakeAt EXCEPT ![p] = ticks + n]
          /\ state' = [state EXCEPT ![p] = "SLEEPING"]
          /\ pc' = [pc EXCEPT ![p] = "ticksleep"]
      BY ZenonT(60), <1>2, <2>2 DEF sys_sleep, sleep
    <3> HIDE DEF TypeInv
    <3>3. \A q \in Proc \ {p} : /\ state'[q] = state[q] /\ pc'[q] = pc[q]
                               /\ wakeAt'[q] = wakeAt[q]
      BY ZenonT(60), <3>2 DEF TypeInv
    <3>4. wakeAt'[p] = ticks + n
      BY ZenonT(60), <3>2 DEF TypeInv
    <3> QED BY <2>2, <3>1, <3>2, <3>3, <3>4 DEF NoLostTick
  <2>3. CASE ~(0 < n /\ p \notin killed)
    <3>1. state[p] # "SLEEPING"
      BY ZenonT(60), <1>2, InitprocInTable DEF sys_sleep, InSyscall, Runs, SafeInv, RunsOnOwnStack
    <3> QED BY ZenonT(60), <1>2, <2>3, <3>1 DEF sys_sleep, NoLostTick
  <2> QED BY ZenonT(60), <2>2, <2>3
<1>3. ASSUME NEW p \in Proc, sys_sleepLoop(p) PROVE NoLostTick'
  BY ZenonT(60), <1>3 DEF sys_sleepLoop, sleep, returned, NoLostTick
<1>4. ASSUME NEW p \in Proc, NEW n \in 0..MaxPid, kill(p, n) PROVE NoLostTick'
  BY <1>4, FrameTick, ZenonT(60) DEF kill, madeRunnable, returned
<1>5. CASE timer
  BY <1>5, ZenonT(60)
  DEF timer, madeRunnable, sleepersOn, SafeInv, ThreadsConsistent, NoLostTick
<1>6. ASSUME NEW c \in ioChans, ioWakeup(c) PROVE NoLostTick'
  BY ZenonT(60), <1>6, FrameTick DEF ioWakeup, madeRunnable
<1> QED BY ZenonT(60), <1>1, <1>2, <1>3, <1>4, <1>5, <1>6 DEF sleepStep

(* A process asleep in sys_sleep is neither due nor killed, whatever the   *)
(* number of processes and ticks.                                          *)
THEOREM TickNeverLost == Spec => []NoLostTick
<1>1. Init => NoLostTick
  BY DEF Init, NoLostTick
<1>2. TypeInv /\ SafeInv /\ NoLostTick /\ [Next]_vars => NoLostTick'
  <2>1. ASSUME NoLostTick, UNCHANGED vars PROVE NoLostTick'
    BY ZenonT(60), <2>1 DEF vars, procVars, NoLostTick
  <2> QED BY <2>1, ProcessTick, SleepTick DEF Next
<1> QED BY <1>1, <1>2, TypeInvariant, InitSafe, StepSafe, PTL DEF Spec
-----------------------------------------------------------------------------
(* A step that starts nobody and leaves the quantum of the others alone.   *)
LEMMA FrameQuantum ==
  ASSUME QuantumBounded,
         \A q \in Proc : state'[q] = "RUNNING" =>
           state[q] = "RUNNING" /\ ticks_left'[q] = ticks_left[q]
  PROVE  QuantumBounded'
BY ZenonT(60) DEF QuantumBounded

(* The quantum is set when a process is given the CPU.                     *)
LEMMA ScheduleQuantum ==
  ASSUME TypeInv, SafeInv, QuantumBounded, NEW p \in Proc, scheduler(p)
  PROVE  QuantumBounded'
<1>1. BFS_DEFAULT_QUANTUM \in 1..BFS_DEFAULT_QUANTUM
  BY BfsAssumption
<1>2. /\ ticks_left' = [ticks_left EXCEPT ![p] = BFS_DEFAULT_QUANTUM]
      /\ state' = [state EXCEPT ![p] = "RUNNING"]
  BY DEF scheduler
<1>3. /\ ticks_left'[p] = BFS_DEFAULT_QUANTUM
      /\ \A q \in Proc \ {p} : ticks_left'[q] = ticks_left[q] /\ state'[q] = state[q]
  BY ZenonT(60), <1>2 DEF TypeInv, TypeOK
<1> QED BY <1>1, <1>3 DEF QuantumBounded

(* A quantum that the timer does not end has a tick to spare.              *)
LEMMA TickToSpare ==
  ASSUME NEW n \in 1..BFS_DEFAULT_QUANTUM, n - 1 # 0
  PROVE  n - 1 \in 1..BFS_DEFAULT_QUANTUM
BY BfsAssumption

(* The timer takes one tick from the process that runs, and the CPU with   *)
(* the last one.                                                           *)
LEMMA TimerQuantum ==
  ASSUME TypeInv, SafeInv, QuantumBounded, timer
  PROVE  QuantumBounded'
<1> DEFINE exits == pc[curproc] = "user" /\ curproc \in killed
           counted == curproc # NULL /\ ~exits /\ counts(curproc)
<1>0. \A q \in Proc : state[q] = "RUNNING" => q = curproc
  BY DEF SafeInv, RunsOnOwnStack
<1>1. CASE ~counted
  <2>1. ticks_left' = ticks_left /\ state' = madeRunnable(sleepersOn(ticksChan))
    BY <1>1 DEF timer
  <2> QED BY <2>1, FrameQuantum DEF madeRunnable
<1>2. CASE counted /\ expires(curproc)
  <2>1. curproc \in Proc
    BY ZenonT(60), <1>2 DEF TypeInv, TypeOK
  <2>2. state' = [madeRunnable(sleepersOn(ticksChan)) EXCEPT ![curproc] = "RUNNABLE"]
    BY <1>2 DEF timer
  <2>3. \A q \in Proc : state'[q] # "RUNNING"
    BY <1>0, <2>1, <2>2 DEF madeRunnable
  <2> QED BY ZenonT(60), <2>3 DEF QuantumBounded
<1>3. CASE counted /\ ~expires(curproc)
  <2>1. curproc \in Proc /\ state[curproc] = "RUNNING"
    BY ZenonT(60), <1>3 DEF TypeInv, TypeOK, counts
  <2>2. /\ ticks_left' = [ticks_left EXCEPT ![curproc] = @ - 1]
        /\ state' = madeRunnable(sleepersOn(ticksChan))
    BY <1>3 DEF timer
  <2>3. ticks_left'[curproc] = ticks_left[curproc] - 1
    BY ZenonT(60), <2>1, <2>2 DEF TypeInv, TypeOK
  <2>4. ticks_left'[curproc] \in 1..BFS_DEFAULT_QUANTUM
    <3>1. ticks_left[curproc] \in 1..BFS_DEFAULT_QUANTUM /\ ticks_left[curproc] - 1 # 0
      BY <1>3, <2>1 DEF QuantumBounded, expires
    <3> QED BY <2>3, <3>1, TickToSpare
  <2>5. \A q \in Proc : state'[q] = "RUNNING" => q = curproc
    BY <1>0, <2>2 DEF madeRunnable
  <2> QED BY <2>4, <2>5 DEF QuantumBounded
<1> QED BY <1>1, <1>2, <1>3

(* Nothing else gives the CPU away or touches a quantum.                   *)
LEMMA OtherQuantum ==
  ASSUME TypeInv, QuantumBounded,
         \/ \E p \in Proc :
              \/ sys_yield(p) \/ resumeStep(p) \/ forkStep(p) \/ waitStep(p)
              \/ exitStep(p) \/ sleepStep(p) \/ \E n \in 0..MaxPid : kill(p, n)
         \/ \E c \in ioChans : ioWakeup(c)
  PROVE  QuantumBounded'
<1> USE DEF TypeInv, TypeOK, procVars, bfsVars
<1>1. ASSUME NEW p \in Proc, sys_yield(p) \/ waitStep(p) PROVE QuantumBounded'
  BY ZenonT(60), <1>1, FrameQuantum DEF sys_yield, waitStep, waitReap, waitNone, waitSleep, sleep
<1>2. ASSUME NEW p \in Proc, resumeStep(p) PROVE QuantumBounded'
  BY <1>2, FrameQuantum, ZenonT(60)
  DEF resumeStep, forkret, bootDone, yieldReturn, sleepReturn, syscall, sysReturn
<1>3. ASSUME NEW p \in Proc, forkStep(p) PROVE QuantumBounded'
  BY <1>3, FrameQuantum, ZenonT(60)
  DEF forkStep, niceforkAlloc, niceforkInvalid, niceforkKalloc, niceforkFail,
      niceforkCopy, niceforkInsert
<1>4. ASSUME NEW p \in Proc, exitStep(p) PROVE QuantumBounded'
  BY <1>4, FrameQuantum, ZenonT(60)
  DEF exitStep, sys_exit, fault, exitStart, exit, exitSched, madeRunnable
<1>5. ASSUME NEW p \in Proc, sleepStep(p) PROVE QuantumBounded'
  BY ZenonT(60), <1>5, FrameQuantum DEF sleepStep, block, sys_sleep, sys_sleepLoop, sleep
<1>6. ASSUME NEW p \in Proc, NEW n \in 0..MaxPid, kill(p, n) PROVE QuantumBounded'
  BY <1>6, FrameQuantum, ZenonT(60) DEF kill, madeRunnable
<1>7. ASSUME NEW c \in ioChans, ioWakeup(c) PROVE QuantumBounded'
  BY ZenonT(60), <1>7, FrameQuantum DEF ioWakeup, madeRunnable
<1> QED BY ZenonT(60), <1>1, <1>2, <1>3, <1>4, <1>5, <1>6, <1>7

(* A running process always has between one tick and a whole quantum left, *)
(* for every quantum: the comparison with zero in trap is never missed.    *)
THEOREM QuantumCounted == Spec => []QuantumBounded
<1>1. Init => QuantumBounded
  BY DEF Init, QuantumBounded
<1>2. TypeInv /\ SafeInv /\ QuantumBounded /\ [Next]_vars => QuantumBounded'
  <2>1. ASSUME QuantumBounded, UNCHANGED vars PROVE QuantumBounded'
    BY ZenonT(60), <2>1 DEF vars, procVars, bfsVars, QuantumBounded
  <2> QED BY <2>1, ScheduleQuantum, TimerQuantum, OtherQuantum DEF Next
<1> QED BY <1>1, <1>2, TypeInvariant, InitSafe, StepSafe, PTL DEF Spec
-----------------------------------------------------------------------------
(* The pid 0 that wait leaves in a free slot is nobody's.                  *)
PidsPositive == 0 < nextpid /\ \A p \in Proc : state[p] # "UNUSED" => pid[p] # 0

PidInv == PidsUnique /\ PidsPositive

(* A step that hands out no pid and takes no slot.                         *)
LEMMA FramePids ==
  ASSUME PidInv, UNCHANGED <<pid, nextpid>>,
         \A q \in Proc : state[q] = "UNUSED" => state'[q] = "UNUSED"
  PROVE  PidInv'
BY ZenonT(60) DEF PidInv, PidsUnique, PidsPositive

(* allocproc hands out a pid that no slot has.                             *)
LEMMA AllocPids ==
  ASSUME TypeInv, PidInv, NEW p \in Proc, NEW n \in NiceArg, niceforkAlloc(p, n)
  PROVE  PidInv'
<1>1. PICK q \in Proc : /\ state' = [state EXCEPT ![q] = "EMBRYO"]
                        /\ pid' = [pid EXCEPT ![q] = nextpid]
  BY ZenonT(60) DEF niceforkAlloc
<1>2. nextpid' = nextpid + 1 /\ nextpid \in Nat
  BY ZenonT(60) DEF niceforkAlloc, takePid, TypeInv, TypeOK
<1>3. /\ pid'[q] = nextpid
      /\ \A r \in Proc \ {q} : pid'[r] = pid[r] /\ state'[r] = state[r]
      /\ \A r \in Proc : pid[r] \in Nat
  BY ZenonT(60), <1>1 DEF TypeInv, TypeOK
<1>4. PidsUnique'
  <2>1. \A r \in Proc : pid[r] < nextpid
    BY ZenonT(60) DEF PidInv, PidsUnique
  <2>2. \A r \in Proc : pid[r] # nextpid /\ pid[r] < nextpid'
    BY <1>2, <1>3, <2>1
  <2>3. \A r \in Proc : pid'[r] < nextpid'
    BY <1>2, <1>3, <2>2
  <2>4. \A a, b \in Proc : a # b /\ state'[a] # "UNUSED" => pid'[a] # pid'[b]
    BY ZenonT(60), <1>3, <2>2 DEF PidInv, PidsUnique
  <2> QED BY ZenonT(60), <2>3, <2>4 DEF PidsUnique
<1>5. PidsPositive'
  BY <1>2, <1>3 DEF PidInv, PidsPositive
<1> QED BY ZenonT(60), <1>4, <1>5 DEF PidInv

(* wait clears the pid of the slot that it frees.                          *)
LEMMA ReapPids ==
  ASSUME TypeInv, PidInv, NEW p \in Proc, waitReap(p)
  PROVE  PidInv'
<1>1. PICK q \in Proc : /\ state' = [state EXCEPT ![q] = "UNUSED"]
                        /\ pid' = [pid EXCEPT ![q] = 0]
  BY ZenonT(60) DEF waitReap
<1>2. nextpid' = nextpid
  BY DEF waitReap
<1>3. /\ pid'[q] = 0 /\ state'[q] = "UNUSED"
      /\ \A r \in Proc \ {q} : pid'[r] = pid[r] /\ state'[r] = state[r]
  BY ZenonT(60), <1>1 DEF TypeInv, TypeOK
<1> QED BY ZenonT(60), <1>2, <1>3 DEF PidInv, PidsUnique, PidsPositive

(* A slot is taken by allocproc only.                                      *)
LEMMA SlotsTaken ==
  ASSUME TypeInv, SafeInv, NEW p \in Proc,
         \/ scheduler(p) \/ sys_yield(p) \/ resumeStep(p) \/ waitStep(p)
         \/ exitStep(p) \/ sleepStep(p) \/ \E n \in 0..MaxPid : kill(p, n)
         \/ niceforkKalloc(p) \/ niceforkFail(p) \/ niceforkCopy(p)
         \/ niceforkInsert(p) \/ \E n \in NiceArg : niceforkInvalid(p, n)
  PROVE  \A q \in Proc : state[q] = "UNUSED" => state'[q] = "UNUSED"
<1> USE InitprocInTable DEF TypeInv, TypeOK, SafeInv, procVars
<1>1. CASE scheduler(p)
  BY ZenonT(60), <1>1 DEF scheduler, Earliest, QueueExact
<1>2. CASE sys_yield(p) \/ resumeStep(p)
  BY <1>2, ZenonT(60)
  DEF sys_yield, InSyscall, Runs, RunsOnOwnStack, resumeStep, forkret, bootDone,
      yieldReturn, sleepReturn, syscall, sysReturn
<1>3. CASE waitStep(p)
  <2>1. InWait(p) => curproc = p
    BY ZenonT(60) DEF InWait, InSyscall, Runs, Resumed
  <2> QED BY ZenonT(60), <1>3, <2>1
          DEF waitStep, waitReap, waitNone, waitSleep, sleep, RunsOnOwnStack
<1>4. CASE exitStep(p)
  BY <1>4, ZenonT(60)
  DEF exitStep, sys_exit, fault, exitStart, exit, exitSched, madeRunnable,
      exitWakes, sleepersOn, Runs, RunsOnOwnStack
<1>5. CASE sleepStep(p)
  BY <1>5, ZenonT(60)
  DEF sleepStep, block, sys_sleep, sys_sleepLoop, sleep, InSyscall, Runs, RunsOnOwnStack
<1>6. ASSUME NEW n \in 0..MaxPid, kill(p, n)
      PROVE  \A q \in Proc : state[q] = "UNUSED" => state'[q] = "UNUSED"
  BY <1>6, ZenonT(60) DEF kill, madeRunnable
<1>7. CASE \/ niceforkKalloc(p) \/ niceforkFail(p) \/ niceforkCopy(p)
           \/ \E n \in NiceArg : niceforkInvalid(p, n)
  BY ZenonT(60), <1>7 DEF niceforkKalloc, niceforkFail, niceforkCopy, niceforkInvalid
<1>8. CASE niceforkInsert(p)
  BY <1>8, ZenonT(60) DEF niceforkInsert, ForkOwnsSlot
<1> QED BY ZenonT(60), <1>1, <1>2, <1>3, <1>4, <1>5, <1>6, <1>7, <1>8

(* Pids and the counter are written by allocproc and wait only.            *)
LEMMA PidsWritten ==
  ASSUME NEW p \in Proc,
         \/ scheduler(p) \/ sys_yield(p) \/ resumeStep(p) \/ waitNone(p)
         \/ waitSleep(p) \/ exitStep(p) \/ sleepStep(p)
         \/ \E n \in 0..MaxPid : kill(p, n)
         \/ niceforkKalloc(p) \/ niceforkFail(p) \/ niceforkCopy(p)
         \/ niceforkInsert(p) \/ \E n \in NiceArg : niceforkInvalid(p, n)
  PROVE  UNCHANGED <<pid, nextpid>>
BY ZenonT(60) DEF scheduler, sys_yield, resumeStep, forkret, bootDone, yieldReturn,
       sleepReturn, syscall, sysReturn, waitNone, waitSleep, exitStep, sys_exit,
       fault, exitStart, exit, exitSched, sleepStep, block, sys_sleep,
       sys_sleepLoop, kill, niceforkKalloc, niceforkFail, niceforkCopy,
       niceforkInsert, niceforkInvalid, procVars

(* The timer and the wakeups take no slot and free none.                   *)
LEMMA WakeKeepsSlots ==
  ASSUME TypeInv, timer \/ \E c \in ioChans : ioWakeup(c)
  PROVE  /\ UNCHANGED <<pid, nextpid>>
         /\ \A q \in Proc : /\ state[q] = "UNUSED" => state'[q] = "UNUSED"
                            /\ state[q] = "ZOMBIE" => state'[q] = "ZOMBIE"
<1>1. CASE timer
  <2>1. \/ state' = madeRunnable(sleepersOn(ticksChan))
        \/ /\ curproc \in Proc /\ state[curproc] = "RUNNING"
           /\ state' = [madeRunnable(sleepersOn(ticksChan)) EXCEPT ![curproc] = "RUNNABLE"]
    BY ZenonT(60), <1>1 DEF timer, counts, TypeInv, TypeOK
  <2> QED BY ZenonT(60), <1>1, <2>1 DEF timer, madeRunnable, sleepersOn
<1>2. ASSUME NEW c \in ioChans, ioWakeup(c)
      PROVE  /\ UNCHANGED <<pid, nextpid>>
             /\ \A q \in Proc : /\ state[q] = "UNUSED" => state'[q] = "UNUSED"
                                /\ state[q] = "ZOMBIE" => state'[q] = "ZOMBIE"
  BY ZenonT(60), <1>2 DEF ioWakeup, madeRunnable, sleepersOn
<1> QED BY ZenonT(60), <1>1, <1>2

(* No two processes ever share a pid, for every table size and bound on    *)
(* pids, through failed forks and the reuse of slots.                      *)
THEOREM PidsNeverShared == Spec => []PidsUnique
<1>1. Init => PidInv
  BY InitprocInTable DEF Init, PidInv, PidsUnique, PidsPositive
<1>2. TypeInv /\ SafeInv /\ PidInv /\ [Next]_vars => PidInv'
  <2> SUFFICES ASSUME TypeInv, SafeInv, PidInv, [Next]_vars PROVE PidInv'
    OBVIOUS
  <2>1. ASSUME NEW p \in Proc, NEW n \in NiceArg, niceforkAlloc(p, n) PROVE PidInv'
    BY <2>1, AllocPids
  <2>2. ASSUME NEW p \in Proc, waitReap(p) PROVE PidInv'
    BY <2>2, ReapPids
  <2>3. ASSUME NEW p \in Proc,
               \/ scheduler(p) \/ sys_yield(p) \/ resumeStep(p) \/ waitNone(p)
               \/ waitSleep(p) \/ exitStep(p) \/ sleepStep(p)
               \/ \E n \in 0..MaxPid : kill(p, n)
               \/ niceforkKalloc(p) \/ niceforkFail(p) \/ niceforkCopy(p)
               \/ niceforkInsert(p) \/ \E n \in NiceArg : niceforkInvalid(p, n)
        PROVE  PidInv'
    <3>1. UNCHANGED <<pid, nextpid>>
      BY <2>3, PidsWritten
    <3>2. \A q \in Proc : state[q] = "UNUSED" => state'[q] = "UNUSED"
      BY ZenonT(60), <2>3, SlotsTaken DEF waitStep
    <3> QED BY <3>1, <3>2, FramePids
  <2>4. CASE timer \/ \E c \in ioChans : ioWakeup(c)
    BY <2>4, WakeKeepsSlots, FramePids
  <2>5. CASE UNCHANGED vars
    BY <2>5, FramePids DEF vars, procVars
  <2> QED BY <2>1, <2>2, <2>3, <2>4, <2>5 DEF Next, forkStep, waitStep
<1> QED BY <1>1, <1>2, TypeInvariant, InitSafe, StepSafe, PTL DEF Spec, PidInv

(* Of all the steps only wait, called by the parent, touches a zombie.     *)
LEMMA ZombieSteps ==
  ASSUME TypeInv, SafeInv, NEW p \in Proc,
         \/ scheduler(p) \/ sys_yield(p) \/ resumeStep(p) \/ forkStep(p)
         \/ waitStep(p) \/ exitStep(p) \/ sleepStep(p)
         \/ \E n \in 0..MaxPid : kill(p, n)
  PROVE  ZombieKept
<1> USE InitprocInTable DEF TypeInv, TypeOK, SafeInv, procVars, ZombieKept
<1>1. CASE scheduler(p)
  BY ZenonT(60), <1>1 DEF scheduler, Earliest, QueueExact
<1>2. CASE sys_yield(p)
  BY ZenonT(60), <1>2 DEF sys_yield, InSyscall, Runs, RunsOnOwnStack
<1>3. CASE resumeStep(p)
  BY <1>3, ZenonT(60)
  DEF resumeStep, forkret, bootDone, yieldReturn, sleepReturn, syscall, sysReturn
<1>4. CASE forkStep(p)
  <2>1. ASSUME NEW n \in NiceArg, niceforkAlloc(p, n) PROVE ZombieKept
    <3>1. PICK q \in Proc : state[q] = "UNUSED" /\ state' = [state EXCEPT ![q] = "EMBRYO"]
      BY ZenonT(60), <2>1 DEF niceforkAlloc, First, freeSlots
    <3> QED BY ZenonT(60), <3>1
  <2>2. CASE niceforkFail(p)
    BY ZenonT(60), <2>2 DEF niceforkFail, ForkOwnsSlot
  <2>4. CASE niceforkInsert(p)
    BY ZenonT(60), <2>4 DEF niceforkInsert, ForkOwnsSlot
  <2>3. CASE \/ niceforkKalloc(p) \/ niceforkCopy(p)
             \/ \E n \in NiceArg : niceforkInvalid(p, n)
    BY ZenonT(60), <2>3 DEF niceforkKalloc, niceforkCopy, niceforkInvalid
  <2> QED BY ZenonT(60), <1>4, <2>1, <2>2, <2>3, <2>4 DEF forkStep
<1>5. CASE waitReap(p)
  BY <1>5, ZenonT(60)
  DEF waitReap, InWait, InSyscall, Runs, Resumed, First, zombies, kids
<1>6. CASE waitNone(p)
  BY ZenonT(60), <1>6 DEF waitNone
<1>7. CASE waitSleep(p)
  BY ZenonT(60), <1>7
  DEF waitSleep, sleep, InWait, InSyscall, Runs, Resumed, RunsOnOwnStack
<1>8. CASE exitStep(p)
  BY <1>8, ZenonT(60)
  DEF exitStep, sys_exit, fault, exitStart, exit, exitSched, madeRunnable,
      exitWakes, sleepersOn
<1>9. CASE sleepStep(p)
  <2>1. state[p] # "ZOMBIE"
    BY ZenonT(60), <1>9
    DEF sleepStep, block, sys_sleep, sys_sleepLoop, InSyscall, Runs, RunsOnOwnStack
  <2>2. state' = [state EXCEPT ![p] = "SLEEPING"] \/ state' = state
    BY ZenonT(60), <1>9 DEF sleepStep, block, sys_sleep, sys_sleepLoop, sleep
  <2> QED BY ZenonT(60), <2>1, <2>2
<1>10. ASSUME NEW n \in 0..MaxPid, kill(p, n) PROVE ZombieKept
  <2>1. PICK q \in Proc : \/ state[q] = "SLEEPING" /\ state' = madeRunnable({q})
                         \/ state' = state
    BY ZenonT(60), <1>10 DEF kill
  <2> QED BY ZenonT(60), <2>1 DEF madeRunnable
<1> QED BY ZenonT(60), <1>1, <1>2, <1>3, <1>4, <1>5, <1>6, <1>7, <1>8, <1>9, <1>10 DEF waitStep

(* A zombie stays in the table until the process that is its parent then,  *)
(* be it by birth or by exit's hand-over, runs wait.                       *)
THEOREM ZombiesReapedByParent == Spec => ReapedByParent
<1>1. TypeInv /\ SafeInv /\ [Next]_vars => [ZombieKept]_vars
  <2>1. ASSUME TypeInv, timer \/ \E c \in ioChans : ioWakeup(c) PROVE ZombieKept
    BY ZenonT(60), <2>1, WakeKeepsSlots DEF ZombieKept
  <2> QED BY <2>1, ZombieSteps DEF Next
<1>2. Spec => []SafeInv
  BY TypeInvariant, InitSafe, StepSafe, PTL DEF Spec
<1> QED BY <1>1, <1>2, TypeInvariant, PTL DEF Spec, ReapedByParent
=============================================================================
