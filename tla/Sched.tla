------------------------------- MODULE Sched -------------------------------
(***************************************************************************)
(* Processes and the BFS scheduler (proc.c, the timer and exit checks of   *)
(* trap.c, the process system calls of sysproc.c) on the one CPU the       *)
(* Makefile configures.  Code between acquire and release of a spin lock   *)
(* runs with interrupts off and is one step; between steps an interrupt    *)
(* may come in, and the timer may take the CPU away.                       *)
(*                                                                         *)
(* The run queue is the set of listed processes: RunQueue says that its    *)
(* head is one of the earliest by deadline, and which one of several       *)
(* equal ones is left open here.                                           *)
(***************************************************************************)
EXTENDS Bfs

CONSTANTS
  NPROC,       \* slots of ptable.proc
  NIO,         \* sleep channels of the other subsystems
  NiceArg,     \* arguments user programs pass to nicefork
  SleepArg,    \* arguments user programs pass to sleep
  MaxPid,      \* bound: pids handed out
  MaxTicks     \* bound: timer interrupts

ASSUME SchedAssumption ==
  /\ NPROC \in Nat \ {0}
  /\ NIO \in Nat
  /\ NiceArg \subseteq Int
  /\ SleepArg \subseteq Nat

Proc == 0..(NPROC - 1)
initproc == 0

NULL == -1
ticksChan == NPROC                         \* &ticks
ioChans == (NPROC + 1)..(NPROC + NIO)
Chan == Proc \cup {ticksChan} \cup ioChans

VARIABLES
  state, pid, parent, chan, nice, virt_deadline, ticks_left,
  killed,      \* the slots whose killed flag is set
  kstack,      \* the slots that own a kernel stack page
  runq,        \* the processes linked in the skip list
  curproc,     \* the CPU's c->proc
  lock,        \* the thread that holds ptable.lock across a switch to it
  ticks, nextpid,
  pc,          \* where the kernel thread of a process is
  yielded,     \* the threads that gave up the CPU inside yield()
  np,          \* nicefork's np
  niceArg,     \* nicefork's nice_value
  wakeAt,      \* sys_sleep's ticks0 + n
  panic        \* the message of the panic that stopped the machine

procVars == <<state, pid, parent, killed, chan, kstack>>
bfsVars == <<nice, virt_deadline, ticks_left>>
forkVars == <<np, niceArg>>
vars == <<procVars, bfsVars, runq, curproc, lock, ticks, nextpid, pc,
          yielded, forkVars, wakeAt, panic>>

(***************************************************************************)
(* The places where a kernel thread can be between two steps:              *)
(*   "forkret"   a new process, not run yet                                *)
(*   "boot"      the first process in iinit and initlog                    *)
(*   "user"      in user mode                                              *)
(*   "syscall"   in the kernel, at the start of a system call              *)
(*   "kalloc", "copy", "insert"   nicefork after each of its steps         *)
(*   "wait", "ticksleep"   in the loops of wait and sys_sleep              *)
(*   "block"     in a system call that waits for another subsystem         *)
(*   "exit", "closing", "zombie"   exit before its check, while it closes  *)
(*               files, and after it became a zombie                       *)
(***************************************************************************)
Places == {"none", "forkret", "boot", "user", "syscall", "kalloc", "copy",
           "insert", "wait", "ticksleep", "block", "exit", "closing", "zombie"}

(* userinit, before the scheduler starts: slot 0 is the first process.     *)
Init ==
  /\ state = [p \in Proc |-> IF p = initproc THEN "RUNNABLE" ELSE "UNUSED"]
  /\ pid = [p \in Proc |-> IF p = initproc THEN 1 ELSE 0]
  /\ nextpid = 2
  /\ parent = [p \in Proc |-> NULL]
  /\ killed = {}
  /\ chan = [p \in Proc |-> NULL]
  /\ kstack = {initproc}
  /\ nice = [p \in Proc |-> 0]
  /\ virt_deadline = [p \in Proc |-> IF p = initproc THEN computevd(0, 0) ELSE 0]
  /\ ticks_left = [p \in Proc |-> 0]
  /\ runq = {initproc}
  /\ curproc = NULL
  /\ lock = NULL
  /\ ticks = 0
  /\ pc = [p \in Proc |-> IF p = initproc THEN "forkret" ELSE "none"]
  /\ yielded = {}
  /\ np = [p \in Proc |-> NULL]
  /\ niceArg = [p \in Proc |-> 0]
  /\ wakeAt = [p \in Proc |-> 0]
  /\ panic = "no"
-----------------------------------------------------------------------------
(* p runs with ptable.lock free, so interrupts may come in.                *)
Runs(p) == panic = "no" /\ curproc = p /\ lock = NULL

(* p has just been switched to and still holds ptable.lock.                *)
Resumed(p) == panic = "no" /\ curproc = p /\ lock = p

(* p is about to execute the body of a system call.                        *)
InSyscall(p) == Runs(p) /\ pc[p] = "syscall"

First(S, q) == q \in S /\ \A r \in S : q <= r

(* The return from a system call, in trap.                                 *)
returned(p) == IF p \in killed THEN "exit" ELSE "user"

(* Mutant: wakeup1 stops at the first sleeper it finds.                    *)
sleepersOnOne(c) ==
  {q \in Proc : First({r \in Proc : state[r] = "SLEEPING" /\ chan[r] = c}, q)}

sleepersOn(c) == {q \in Proc : state[q] = "SLEEPING" /\ chan[q] = c}

(* wakeup1 for the sleepers of set S.                                      *)
madeRunnable(S) == [q \in Proc |-> IF q \in S THEN "RUNNABLE" ELSE state[q]]

(* Mutant: the scheduler does not clear c->proc.                           *)
schedKeepsProc == UNCHANGED curproc /\ lock' = NULL

(* sched's panic "sched running".  sleep and yield change the state in the *)
(* step that calls sched, exit before it drops the lock in between.  The   *)
(* other panics of sched are about lock nesting and the interrupt flag:    *)
(* each caller has taken ptable.lock, and no other lock, in the same step. *)
schedRunning(p) == state[p] = "RUNNING"

(* The switch of sched: the scheduler thread takes over, clears c->proc    *)
(* and releases ptable.lock.                                               *)
sched == curproc' = NULL /\ lock' = NULL

(* Mutant: sleep leaves the process in the skip list.                      *)
sleepStaysListed(p, c) ==
  /\ chan' = [chan EXCEPT ![p] = c]
  /\ state' = [state EXCEPT ![p] = "SLEEPING"]
  /\ sched
  /\ UNCHANGED runq

(* sleep up to the switch.                                                 *)
sleep(p, c) ==
  /\ chan' = [chan EXCEPT ![p] = c]
  /\ runq' = runq \ {p}
  /\ state' = [state EXCEPT ![p] = "SLEEPING"]
  /\ sched
-----------------------------------------------------------------------------
scheduler(p) ==
  /\ panic = "no" /\ curproc = NULL /\ lock = NULL
  /\ p \in Earliest(runq, virt_deadline)
  /\ curproc' = p
  /\ state' = [state EXCEPT ![p] = "RUNNING"]
  /\ ticks_left' = [ticks_left EXCEPT ![p] = BFS_DEFAULT_QUANTUM]
  /\ lock' = p
  /\ UNCHANGED <<pid, parent, killed, chan, kstack, nice, virt_deadline, runq,
                 ticks, nextpid, pc, yielded, forkVars, wakeAt, panic>>

forkret(p) ==
  /\ Resumed(p) /\ p \notin yielded /\ pc[p] = "forkret"
  /\ lock' = NULL
  /\ pc' = [pc EXCEPT ![p] = IF p = initproc THEN "boot" ELSE "user"]
  /\ UNCHANGED <<procVars, bfsVars, runq, curproc, ticks, nextpid, yielded,
                 forkVars, wakeAt, panic>>

(* iinit and initlog are done; forkret returns to user mode unchecked.     *)
bootDone(p) ==
  /\ Runs(p) /\ pc[p] = "boot"
  /\ pc' = [pc EXCEPT ![p] = "user"]
  /\ UNCHANGED <<procVars, bfsVars, runq, curproc, lock, ticks, nextpid,
                 yielded, forkVars, wakeAt, panic>>

(* The end of yield, then of the trap it was called from.                  *)
yieldReturn(p) ==
  /\ Resumed(p) /\ p \in yielded
  /\ lock' = NULL
  /\ yielded' = yielded \ {p}
  /\ pc' = [pc EXCEPT ![p] = IF @ = "user" THEN returned(p) ELSE @]
  /\ UNCHANGED <<procVars, bfsVars, runq, curproc, ticks, nextpid, forkVars,
                 wakeAt, panic>>

(* The end of sleep, for callers that hold another lock.                   *)
sleepReturn(p) ==
  /\ Resumed(p) /\ p \notin yielded
  /\ pc[p] \in {"boot", "ticksleep", "block", "closing"}
  /\ lock' = NULL
  /\ chan' = [chan EXCEPT ![p] = NULL]
  /\ UNCHANGED <<state, pid, parent, killed, kstack, bfsVars, runq, curproc,
                 ticks, nextpid, pc, yielded, forkVars, wakeAt, panic>>
-----------------------------------------------------------------------------
(* trap enters the kernel for a system call of a process not yet killed.   *)
syscall(p) ==
  /\ Runs(p) /\ pc[p] = "user" /\ p \notin killed
  /\ pc' = [pc EXCEPT ![p] = "syscall"]
  /\ UNCHANGED <<procVars, bfsVars, runq, curproc, lock, ticks, nextpid,
                 yielded, forkVars, wakeAt, panic>>

(* A system call returns that changes nothing here (a fork that finds no   *)
(* slot, a kill of an unknown pid) or whose other subsystem answered.      *)
sysReturn(p) ==
  /\ Runs(p) /\ pc[p] \in {"syscall", "block"}
  /\ pc' = [pc EXCEPT ![p] = returned(p)]
  /\ UNCHANGED <<procVars, bfsVars, runq, curproc, lock, ticks, nextpid,
                 yielded, forkVars, wakeAt, panic>>

(* Mutant: nicefork does not look at its argument.                         *)
anyNice(n) == TRUE

(* nicefork's check of its argument.                                       *)
validNice(n) == n \in Nice

(* Mutant: allocproc takes a slot that is being filled already.            *)
freeOrEmbryo == {r \in Proc : state[r] \in {"UNUSED", "EMBRYO"}}

(* The slots allocproc's scan stops at.                                    *)
freeSlots == {r \in Proc : state[r] = "UNUSED"}

(* Mutant: every process gets the same pid.                                *)
samePid == UNCHANGED nextpid

(* nextpid++ in allocproc.                                                 *)
takePid == nextpid' = nextpid + 1

(* sys_nicefork and fork pass the argument on unchecked (argint's status   *)
(* is always within the nice range); allocproc up to its release.          *)
niceforkAlloc(p, n) ==
  /\ InSyscall(p) /\ validNice(n) /\ nextpid <= MaxPid
  /\ \E q \in Proc :
       /\ First(freeSlots, q)
       /\ state' = [state EXCEPT ![q] = "EMBRYO"]
       /\ pid' = [pid EXCEPT ![q] = nextpid]
       /\ virt_deadline' = [virt_deadline EXCEPT ![q] = 0]
       /\ nice' = [nice EXCEPT ![q] = 0]
       /\ np' = [np EXCEPT ![p] = q]
  /\ takePid
  /\ niceArg' = [niceArg EXCEPT ![p] = n]
  /\ pc' = [pc EXCEPT ![p] = "kalloc"]
  /\ UNCHANGED <<parent, killed, chan, kstack, ticks_left, runq, curproc,
                 lock, ticks, yielded, wakeAt, panic>>

niceforkInvalid(p, n) ==
  /\ InSyscall(p) /\ ~validNice(n)
  /\ panic' = "invalid nice value"
  /\ UNCHANGED <<procVars, bfsVars, runq, curproc, lock, ticks, nextpid, pc,
                 yielded, forkVars, wakeAt>>

(* The rest of allocproc: a kernel stack and a context at forkret.         *)
niceforkKalloc(p) ==
  /\ Runs(p) /\ pc[p] = "kalloc"
  /\ kstack' = kstack \cup {np[p]}
  /\ pc' = [pc EXCEPT ![p] = "copy", ![np[p]] = "forkret"]
  /\ UNCHANGED <<state, pid, parent, killed, chan, bfsVars, runq, curproc,
                 lock, ticks, nextpid, yielded, forkVars, wakeAt, panic>>

(* Mutant: the kernel stack of a failed fork is not freed.                 *)
niceforkFailLeaks(p) ==
  /\ Runs(p) /\ pc[p] \in {"kalloc", "copy"}
  /\ state' = [state EXCEPT ![np[p]] = "UNUSED"]
  /\ pc' = [pc EXCEPT ![p] = returned(p), ![np[p]] = "none"]
  /\ np' = [np EXCEPT ![p] = NULL]
  /\ niceArg' = [niceArg EXCEPT ![p] = 0]
  /\ UNCHANGED <<pid, parent, killed, chan, kstack, bfsVars, runq, curproc,
                 lock, ticks, nextpid, yielded, wakeAt, panic>>

(* kalloc or copyuvm fails: the slot is given back without ptable.lock and *)
(* with its pid still set.                                                 *)
niceforkFail(p) ==
  /\ Runs(p) /\ pc[p] \in {"kalloc", "copy"}
  /\ kstack' = kstack \ {np[p]}
  /\ state' = [state EXCEPT ![np[p]] = "UNUSED"]
  /\ pc' = [pc EXCEPT ![p] = returned(p), ![np[p]] = "none"]
  /\ np' = [np EXCEPT ![p] = NULL]
  /\ niceArg' = [niceArg EXCEPT ![p] = 0]
  /\ UNCHANGED <<pid, parent, killed, chan, bfsVars, runq, curproc, lock,
                 ticks, nextpid, yielded, wakeAt, panic>>

(* copyuvm succeeds; parent, nice value and deadline are set.              *)
niceforkCopy(p) ==
  /\ Runs(p) /\ pc[p] = "copy"
  /\ parent' = [parent EXCEPT ![np[p]] = p]
  /\ nice' = [nice EXCEPT ![np[p]] = niceArg[p]]
  /\ virt_deadline' =
       [virt_deadline EXCEPT ![np[p]] = computevd(niceArg[p], ticks)]
  /\ niceArg' = [niceArg EXCEPT ![p] = 0]
  /\ pc' = [pc EXCEPT ![p] = "insert"]
  /\ UNCHANGED <<state, pid, killed, chan, kstack, ticks_left, runq, curproc,
                 lock, ticks, nextpid, yielded, np, wakeAt, panic>>

niceforkInsert(p) ==
  /\ Runs(p) /\ pc[p] = "insert"
  /\ state' = [state EXCEPT ![np[p]] = "RUNNABLE"]
  /\ runq' = runq \cup {np[p]}
  /\ pc' = [pc EXCEPT ![p] = returned(p)]
  /\ np' = [np EXCEPT ![p] = NULL]
  /\ UNCHANGED <<pid, parent, killed, chan, kstack, bfsVars, curproc, lock,
                 ticks, nextpid, yielded, niceArg, wakeAt, panic>>
-----------------------------------------------------------------------------
(* yield, from sys_yield or from trap, at time now.                        *)
yield(p, now) ==
  /\ virt_deadline' = [virt_deadline EXCEPT ![p] = computevd(nice[p], now)]
  /\ yielded' = yielded \cup {p}
  /\ sched

sys_yield(p) ==
  /\ InSyscall(p)
  /\ state' = [state EXCEPT ![p] = "RUNNABLE"]
  /\ yield(p, ticks)
  /\ pc' = [pc EXCEPT ![p] = "user"]
  /\ UNCHANGED <<pid, parent, killed, chan, kstack, nice, ticks_left, runq,
                 ticks, nextpid, forkVars, wakeAt, panic>>

(* Mutant: the quantum is counted for a process that is exiting, too.      *)
countsAlways(p) == TRUE

(* trap counts the quantum of a RUNNING process.                           *)
counts(p) == state[p] = "RUNNING"

(* Mutant: the decrement is done after the comparison.                     *)
expiresLate(p) == ticks_left[p] = 0

(* --ticks_left == 0 in trap.                                              *)
expires(p) == ticks_left[p] - 1 = 0

(* A timer interrupt: ticks, the wakeup of its sleepers, then trap's exit  *)
(* check and the count of the quantum of a RUNNING process.                *)
timer ==
  LET woken == madeRunnable(sleepersOn(ticksChan))
      p == curproc
      exits == p # NULL /\ pc[p] = "user" /\ p \in killed
      counted == p # NULL /\ ~exits /\ counts(p)
  IN  /\ panic = "no" /\ lock = NULL /\ ticks < MaxTicks
      /\ ticks' = ticks + 1
      /\ runq' = runq \cup sleepersOn(ticksChan)
      /\ pc' = IF exits THEN [pc EXCEPT ![p] = "exit"] ELSE pc
      /\ ticks_left' = IF counted THEN [ticks_left EXCEPT ![p] = @ - 1]
                       ELSE ticks_left
      /\ IF counted /\ expires(p)
         THEN state' = [woken EXCEPT ![p] = "RUNNABLE"] /\ yield(p, ticks + 1)
         ELSE /\ state' = woken
              /\ UNCHANGED <<virt_deadline, yielded, curproc, lock>>
      /\ UNCHANGED <<pid, parent, killed, chan, kstack, nice, nextpid,
                     forkVars, wakeAt, panic>>

(* wakeup on a channel of another subsystem, from an interrupt or from the *)
(* running process.                                                        *)
ioWakeup(c) ==
  /\ panic = "no" /\ lock = NULL
  /\ state' = madeRunnable(sleepersOn(c))
  /\ runq' = runq \cup sleepersOn(c)
  /\ UNCHANGED <<pid, parent, killed, chan, kstack, bfsVars, curproc, lock,
                 ticks, nextpid, pc, yielded, forkVars, wakeAt, panic>>

(* A system call, exit or the boot of the first process sleeps on a        *)
(* channel of another subsystem, for the first time or again.              *)
block(p, c) ==
  /\ Runs(p)
  /\ pc[p] \in {"boot", "syscall", "block", "closing"}
  /\ sleep(p, c)
  /\ pc' = [pc EXCEPT ![p] = IF @ = "syscall" THEN "block" ELSE @]
  /\ UNCHANGED <<pid, parent, killed, kstack, bfsVars, ticks, nextpid,
                 yielded, forkVars, wakeAt, panic>>

(* sys_sleep(n) reads the time and enters its loop.                        *)
sys_sleep(p, n) ==
  /\ InSyscall(p)
  /\ wakeAt' = [wakeAt EXCEPT ![p] = ticks + n]
  /\ pc' = [pc EXCEPT ![p] = "ticksleep"]
  /\ IF 0 < n /\ p \notin killed
     THEN sleep(p, ticksChan)
     ELSE UNCHANGED <<state, chan, runq, curproc, lock>>
  /\ UNCHANGED <<pid, parent, killed, kstack, bfsVars, ticks, nextpid,
                 yielded, forkVars, panic>>

(* The loop of sys_sleep: one more turn after a wakeup, or the return.     *)
sys_sleepLoop(p) ==
  /\ Runs(p) /\ pc[p] = "ticksleep"
  /\ IF ticks < wakeAt[p] /\ p \notin killed
     THEN sleep(p, ticksChan) /\ UNCHANGED <<pc, wakeAt>>
     ELSE /\ pc' = [pc EXCEPT ![p] = returned(p)]
          /\ wakeAt' = [wakeAt EXCEPT ![p] = 0]
          /\ UNCHANGED <<state, chan, runq, curproc, lock>>
  /\ UNCHANGED <<pid, parent, killed, kstack, bfsVars, ticks, nextpid,
                 yielded, forkVars, panic>>

(* kill(n): the first slot with that pid, whatever its state.              *)
kill(p, n) ==
  /\ InSyscall(p)
  /\ \E q \in Proc :
       /\ First({r \in Proc : pid[r] = n}, q)
       /\ killed' = killed \cup {q}
       /\ IF state[q] = "SLEEPING"
          THEN state' = madeRunnable({q}) /\ runq' = runq \cup {q}
          ELSE UNCHANGED <<state, runq>>
       /\ pc' = [pc EXCEPT ![p] = IF q = p THEN "exit" ELSE returned(p)]
  /\ UNCHANGED <<pid, parent, chan, kstack, bfsVars, curproc, lock, ticks,
                 nextpid, yielded, forkVars, wakeAt, panic>>
-----------------------------------------------------------------------------
kids(p) == {q \in Proc : parent[q] = p}
zombies(p) == {q \in kids(p) : state[q] = "ZOMBIE"}

(* p scans the table in wait, with ptable.lock, at the start or again      *)
(* after a wakeup.                                                         *)
InWait(p) == InSyscall(p) \/ (Resumed(p) /\ p \notin yielded /\ pc[p] = "wait")

waitReap(p) ==
  /\ InWait(p)
  /\ \E q \in Proc :
       /\ First(zombies(p), q)
       /\ kstack' = kstack \ {q}
       /\ pid' = [pid EXCEPT ![q] = 0]
       /\ parent' = [parent EXCEPT ![q] = NULL]
       /\ killed' = killed \ {q}
       /\ state' = [state EXCEPT ![q] = "UNUSED"]
  /\ chan' = [chan EXCEPT ![p] = NULL]
  /\ pc' = [pc EXCEPT ![p] = returned(p)]
  /\ lock' = NULL
  /\ UNCHANGED <<bfsVars, runq, curproc, ticks, nextpid, yielded, forkVars,
                 wakeAt, panic>>

waitNone(p) ==
  /\ InWait(p)
  /\ zombies(p) = {} /\ (kids(p) = {} \/ p \in killed)
  /\ chan' = [chan EXCEPT ![p] = NULL]
  /\ pc' = [pc EXCEPT ![p] = returned(p)]
  /\ lock' = NULL
  /\ UNCHANGED <<state, pid, parent, killed, kstack, bfsVars, runq, curproc,
                 ticks, nextpid, yielded, forkVars, wakeAt, panic>>

waitSleep(p) ==
  /\ InWait(p)
  /\ zombies(p) = {} /\ kids(p) # {} /\ p \notin killed
  /\ sleep(p, p)
  /\ pc' = [pc EXCEPT ![p] = "wait"]
  /\ UNCHANGED <<pid, parent, killed, kstack, bfsVars, ticks, nextpid,
                 yielded, forkVars, wakeAt, panic>>
-----------------------------------------------------------------------------
(* The process calls exit, or traps in user mode while killed.             *)
sys_exit(p) ==
  /\ Runs(p)
  /\ pc[p] = "syscall" \/ (pc[p] = "user" /\ p \in killed)
  /\ pc' = [pc EXCEPT ![p] = "exit"]
  /\ UNCHANGED <<procVars, bfsVars, runq, curproc, lock, ticks, nextpid,
                 yielded, forkVars, wakeAt, panic>>

(* The process misbehaves in user mode: trap kills it.                     *)
fault(p) ==
  /\ Runs(p) /\ pc[p] = "user"
  /\ killed' = killed \cup {p}
  /\ pc' = [pc EXCEPT ![p] = "exit"]
  /\ UNCHANGED <<state, pid, parent, chan, kstack, bfsVars, runq, curproc,
                 lock, ticks, nextpid, yielded, forkVars, wakeAt, panic>>

(* Mutant: exit does not stop the first process.                           *)
exitStartAny(p) ==
  /\ Runs(p) /\ pc[p] = "exit"
  /\ pc' = [pc EXCEPT ![p] = "closing"]
  /\ UNCHANGED <<procVars, bfsVars, runq, curproc, lock, ticks, nextpid,
                 yielded, forkVars, wakeAt, panic>>

(* exit starts: the first process may not, the others close their files.   *)
exitStart(p) ==
  /\ Runs(p) /\ pc[p] = "exit"
  /\ IF p = initproc THEN panic' = "init exiting" /\ UNCHANGED pc
     ELSE pc' = [pc EXCEPT ![p] = "closing"] /\ UNCHANGED panic
  /\ UNCHANGED <<procVars, bfsVars, runq, curproc, lock, ticks, nextpid,
                 yielded, forkVars, wakeAt>>

(* Mutant: exit does not tell init about the zombies it inherits.          *)
exitWakesParent(p) == sleepersOn(parent[p])

(* The processes exit wakes: its parent if that sleeps in wait, and init   *)
(* if it inherits a zombie.                                                *)
exitWakes(p) ==
  sleepersOn(parent[p]) \cup
  (IF zombies(p) # {} THEN sleepersOn(initproc) ELSE {})

(* Mutant: only the children that still run are handed to init.            *)
handOverRunning(p) ==
  [q \in Proc |-> IF parent[q] = p /\ state[q] # "ZOMBIE" THEN initproc
                                                          ELSE parent[q]]

(* Mutant: only the zombies are handed to init.                            *)
handOverZombies(p) ==
  [q \in Proc |-> IF parent[q] = p /\ state[q] = "ZOMBIE" THEN initproc
                                                          ELSE parent[q]]

(* exit passes its children to init.                                       *)
handOver(p) == [q \in Proc |-> IF parent[q] = p THEN initproc ELSE parent[q]]

(* exit's critical section, up to the release of ptable.lock.              *)
exit(p) ==
  /\ Runs(p) /\ pc[p] = "closing"
  /\ runq' = (runq \ {p}) \cup exitWakes(p)
  /\ parent' = handOver(p)
  /\ state' = [madeRunnable(exitWakes(p)) EXCEPT ![p] = "ZOMBIE"]
  /\ pc' = [pc EXCEPT ![p] = "zombie"]
  /\ UNCHANGED <<pid, killed, chan, kstack, bfsVars, curproc, lock, ticks,
                 nextpid, yielded, forkVars, wakeAt, panic>>

(* exit takes ptable.lock again and leaves for good.                       *)
exitSched(p) ==
  /\ Runs(p) /\ pc[p] = "zombie"
  /\ IF schedRunning(p)
     THEN panic' = "sched running" /\ UNCHANGED <<curproc, lock, pc>>
     ELSE sched /\ pc' = [pc EXCEPT ![p] = "none"] /\ UNCHANGED panic
  /\ UNCHANGED <<procVars, bfsVars, runq, ticks, nextpid, yielded, forkVars,
                 wakeAt>>
-----------------------------------------------------------------------------
forkStep(p) ==
  \/ \E n \in NiceArg : niceforkAlloc(p, n) \/ niceforkInvalid(p, n)
  \/ niceforkKalloc(p) \/ niceforkFail(p) \/ niceforkCopy(p)
  \/ niceforkInsert(p)

waitStep(p) == waitReap(p) \/ waitNone(p) \/ waitSleep(p)

exitStep(p) ==
  sys_exit(p) \/ fault(p) \/ exitStart(p) \/ exit(p) \/ exitSched(p)

resumeStep(p) ==
  \/ forkret(p) \/ bootDone(p) \/ yieldReturn(p) \/ sleepReturn(p)
  \/ syscall(p) \/ sysReturn(p)

sleepStep(p) ==
  \/ \E c \in ioChans : block(p, c)
  \/ \E n \in SleepArg : sys_sleep(p, n)
  \/ sys_sleepLoop(p)

Next ==
  \/ \E p \in Proc :
       \/ scheduler(p) \/ resumeStep(p) \/ forkStep(p) \/ waitStep(p)
       \/ exitStep(p) \/ sleepStep(p) \/ sys_yield(p)
       \/ \E n \in 0..MaxPid : kill(p, n)
  \/ timer
  \/ \E c \in ioChans : ioWakeup(c)

Spec == Init /\ [][Next]_vars
-----------------------------------------------------------------------------
States == {"UNUSED", "EMBRYO", "SLEEPING", "RUNNABLE", "RUNNING", "ZOMBIE"}

TypeOK ==
  /\ state \in [Proc -> States]
  /\ pid \in [Proc -> Nat]
  /\ parent \in [Proc -> Proc \cup {NULL}]
  /\ killed \subseteq Proc
  /\ chan \in [Proc -> Chan \cup {NULL}]
  /\ nice \in [Proc -> Nice]
  /\ virt_deadline \in [Proc -> Int]
  /\ ticks_left \in [Proc -> Int]
  /\ kstack \subseteq Proc
  /\ runq \subseteq Proc
  /\ curproc \in Proc \cup {NULL}
  /\ lock \in Proc \cup {NULL}
  /\ ticks \in Nat
  /\ nextpid \in Nat
  /\ pc \in [Proc -> Places]
  /\ yielded \subseteq Proc
  /\ np \in [Proc -> Proc \cup {NULL}]
  /\ niceArg \in [Proc -> Nice]
  /\ wakeAt \in [Proc -> Nat]
  /\ panic \in {"no", "invalid nice value", "init exiting", "sched running"}

(* The skip list holds exactly the RUNNABLE and RUNNING processes, through *)
(* every fork, yield, sleep, wakeup, kill and exit.  This is the contract  *)
(* of insert and delete: a second insert would link a process twice, and   *)
(* deleting an absent one panics ("deletion search beyond lowest level").  *)
QueueExact ==
  \A p \in Proc : p \in runq <=> state[p] \in {"RUNNABLE", "RUNNING"}

(* A kernel thread is only ever where its process state says: it sleeps on *)
(* the channel of the loop it is in, it holds ptable.lock across a switch  *)
(* only while it is the process that resumes, and init never gets past the *)
(* check at the start of exit.                                             *)
ThreadsConsistent ==
  /\ lock # NULL => lock = curproc /\ state[curproc] = "RUNNING"
  /\ \A p \in Proc :
       /\ state[p] = "SLEEPING" =>
            \/ pc[p] = "wait" /\ chan[p] = p
            \/ pc[p] = "ticksleep" /\ chan[p] = ticksChan
            \/ pc[p] \in {"boot", "block", "closing"} /\ chan[p] \in ioChans
       /\ p \in yielded => state[p] = "RUNNABLE" \/ lock = p
       /\ state[p] \in {"RUNNABLE", "RUNNING"} =>
            /\ pc[p] \notin {"none", "zombie"}
            /\ pc[p] \in {"forkret", "wait"} =>
                 p \notin yielded /\ (state[p] = "RUNNABLE" \/ lock = p)
       /\ pc[p] = "zombie" => state[p] = "ZOMBIE" /\ curproc = p
       /\ pc[p] \in {"closing", "zombie"} => p # initproc

(* While nicefork runs with ptable.lock dropped, the slot it allocated     *)
(* stays its own: no other step gives it away, runs it or frees it.        *)
ForkOwnsSlot ==
  \A p \in Proc :
    pc[p] \in {"kalloc", "copy", "insert"} =>
      /\ state[p] \in {"RUNNABLE", "RUNNING"}
      /\ np[p] \in Proc /\ state[np[p]] = "EMBRYO"
      /\ parent[np[p]] = IF pc[p] = "insert" THEN p ELSE NULL
      /\ pc[p] # "kalloc" => np[p] \in kstack /\ pc[np[p]] = "forkret"
      /\ \A q \in Proc \ {p} :
           pc[q] \in {"kalloc", "copy", "insert"} => np[q] # np[p]

(* The CPU runs at most the one process marked RUNNING, always on a kernel *)
(* stack that process still owns: a process that exits is not reaped, and  *)
(* not made RUNNABLE again, while exit has dropped ptable.lock but is      *)
(* still on its own stack.                                                 *)
RunsOnOwnStack ==
  /\ \A p \in Proc : state[p] = "RUNNING" => curproc = p
  /\ curproc # NULL => /\ curproc \in kstack
                       /\ \/ state[curproc] = "RUNNING"
                          \/ state[curproc] = "ZOMBIE" /\ pc[curproc] = "zombie"

(* No process is orphaned: everything but the first process has a parent   *)
(* that has not exited and can still call wait, so exit's hand-over of     *)
(* children to init never misses one.                                      *)
NoOrphan ==
  \A p \in Proc \ {initproc} :
    state[p] \in {"SLEEPING", "RUNNABLE", "RUNNING", "ZOMBIE"} =>
      /\ parent[p] # NULL
      /\ state[parent[p]] \in {"SLEEPING", "RUNNABLE", "RUNNING"}

(* The parent pointers, also of slots that are free or being filled: a     *)
(* parent has not exited, and init never does.                             *)
ParentsLive ==
  /\ state[initproc] \in {"SLEEPING", "RUNNABLE", "RUNNING"}
  /\ \A p \in Proc :
       /\ parent[p] # NULL =>
            state[parent[p]] \in {"SLEEPING", "RUNNABLE", "RUNNING"}
       /\ state[p] = "UNUSED" => parent[p] = NULL

(* No exit is missed: a process asleep in wait has a child to wait for,    *)
(* none of its children is a zombie, and it has not been killed.           *)
NoLostExit ==
  \A p \in Proc :
    state[p] = "SLEEPING" /\ pc[p] = "wait" =>
      kids(p) # {} /\ zombies(p) = {} /\ p \notin killed

(* No timer wakeup or kill is missed: a process asleep in sys_sleep is     *)
(* neither due nor killed.                                                 *)
NoLostTick ==
  \A p \in Proc :
    state[p] = "SLEEPING" /\ pc[p] = "ticksleep" =>
      ticks < wakeAt[p] /\ p \notin killed

(* A running process has between one tick and a full quantum left: the     *)
(* count that trap compares with zero never steps over it.                 *)
QuantumBounded ==
  \A p \in Proc :
    state[p] = "RUNNING" => ticks_left[p] \in 1..BFS_DEFAULT_QUANTUM

(* Two processes in the table never share a pid, also when a fork fails    *)
(* half way and leaves its pid in the free slot.                           *)
PidsUnique ==
  \A p, q \in Proc :
    /\ p # q /\ state[p] # "UNUSED" => pid[p] # pid[q]
    /\ pid[p] < nextpid

(* What a step does to a zombie: nothing, or its parent frees the slot.    *)
ZombieKept ==
  \A p \in Proc : state[p] = "ZOMBIE" /\ state'[p] # "ZOMBIE" =>
    state'[p] = "UNUSED" /\ curproc = parent[p]

(* A zombie leaves the table only through its parent's wait.               *)
ReapedByParent == [][ZombieKept]_vars

(* No kernel stack is leaked or missing: a free slot owns none, and every  *)
(* process that can run owns one, also after a fork that failed half way.  *)
StacksAccounted ==
  \A p \in Proc :
    /\ state[p] = "UNUSED" => p \notin kstack
    /\ state[p] \notin {"UNUSED", "EMBRYO"} => p \in kstack

(* nicefork asserts that its argument is a nice value (proc.c, "Check if   *)
(* nice value is valid"): its panic is not reachable from sys_nicefork.     *)
NiceIsValid == panic # "invalid nice value"

(* kill's comment: "Kill the process with the given pid."  A process that  *)
(* is being created has not been killed unless its own pid was named.      *)
BornAlive ==
  [][\A p \in Proc : state[p] = "UNUSED" /\ state'[p] = "EMBRYO" =>
       p \notin killed']_vars
=============================================================================
