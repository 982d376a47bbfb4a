----------------------------- MODULE LogProofs -----------------------------
(***************************************************************************)
(* The log of log.c implements an atomic disk, for any number of           *)
(* operations and blocks, and a transaction fits the log as long as no     *)
(* operation writes more blocks than begin_op reserves for it.             *)
(***************************************************************************)
EXTENDS Log, FiniteSetTheorems, TLAPS

Busy == {o \in Op : pc[o] \in {"op", "write"}}

Injective(s) == \A i, j \in 1..Len(s) : s[i] = s[j] => i = j

Committing == {"log", "head", "install", "clear", "done"}

Booting == {"boot", "recover", "erase"}

(* Operations are counted, and none is running while a commit or a         *)
(* recovery is under way.                                                  *)
OpsInv ==
  /\ outstanding = Cardinality(Busy)
  /\ committing <=> step \in Committing
  /\ step # "none" => outstanding = 0
  /\ \A o \in Op : pend[o] # NULL <=> pc[o] = "write"

(* What the header, the list and the loop's index are at each step of a    *)
(* commit or a recovery.                                                   *)
HeadInv ==
  /\ Injective(dhead) /\ Injective(lh) /\ Len(dhead) <= LOGSIZE
  /\ step \in {"none", "log", "head", "done"} => dhead = <<>>
  /\ step \in {"install", "clear", "recover", "erase"} => dhead = lh
  /\ step \in {"log", "install", "recover"} => tail < Len(lh)
  /\ step \notin {"log", "install", "recover"} => tail = 0
  /\ step = "head" => 0 < Len(lh)
  /\ step = "done" => lh = <<>>

(* A block that differs in the cache and at home is listed, or an          *)
(* operation is in log_write with it.                                      *)
CacheInv ==
  /\ step \notin Booting /\ ~panic =>
       \A b \in Block : cache[b] = home[b] \/ Contains(lh, b)
                          \/ \E o \in Op : pend[o] = b
  /\ step \in Booting => cache = home

(* What write_log has copied to the log, and install_trans from it.        *)
CopyInv ==
  /\ step = "log" => \A i \in 1..tail : dlog[i] = cache[lh[i]]
  /\ step \in {"head", "install", "clear"} =>
       \A i \in 1..Len(lh) : dlog[i] = cache[lh[i]]
  /\ step \in {"install", "recover"} =>
       \A i \in 1..tail : home[lh[i]] = dlog[i]
  /\ step \in {"clear", "erase"} =>
       \A i \in 1..Len(lh) : home[lh[i]] = dlog[i]

(* Where the copies of a block agree, by the progress of the commit.       *)
DiskInv == HeadInv /\ CacheInv /\ CopyInv

LogInv == TypeOK /\ OpsInv /\ DiskInv

(* The provers to try on a step, and how long each of them may take.       *)
USE SMTT(60), SMTT(75), ZenonT(60), SMTT(90)

-----------------------------------------------------------------------------
(* A step of the log keeps the types of its variables, while the           *)
(* transaction fits the log.                                               *)
LEMMA TypeStep ==
  ASSUME TypeOK, OpsInv, DiskInv, LogFits, [Next]_vars
  PROVE  TypeOK'
<1> USE LogAssumption
<1>1. ASSUME NEW o \in Op, begin_op(o) PROVE TypeOK'
  BY <1>1 DEF TypeOK, begin_op, diskVars
<1>2. ASSUME NEW o \in Op, log_write(o) PROVE TypeOK'
  <2>1. pend[o] \in Block
    BY ZenonT(60), <1>2 DEF TypeOK, OpsInv, log_write
  <2>2. absorb(pend[o]) \in Seq(Block)
    BY <2>1 DEF TypeOK, absorb
  <2> QED BY ZenonT(60), <1>2, <2>2 DEF TypeOK, log_write, diskVars
<1>3. ASSUME NEW o \in Op, end_op(o) PROVE TypeOK'
  <2>1. outstanding - 1 \in Nat
    <3>1. o \in Busy /\ IsFiniteSet(Busy)
      BY ZenonT(60), <1>3, FS_Subset DEF end_op, Busy
    <3>2. Cardinality(Busy) # 0
      BY ZenonT(60), <3>1, FS_EmptySet
    <3> QED BY <3>2 DEF OpsInv, TypeOK
  <2>2. awake \in [Op -> {"idle", "begin", "asleep", "op", "write", "commit"}]
    BY ZenonT(60) DEF TypeOK, awake
  <2> QED BY ZenonT(60), <1>3, <2>1, <2>2 DEF TypeOK, end_op, leave, diskVars
<1>4. ASSUME NEW o \in Op, NEW b \in Block, NEW v \in Val, modify(o, b, v)
      PROVE  TypeOK'
  <2>1. cache' \in [Block -> Val] /\ panic' \in BOOLEAN
    BY ZenonT(60), <1>4 DEF TypeOK, modify
  <2>2. /\ pc' \in [Op -> {"idle", "begin", "asleep", "op", "write", "commit"}]
        /\ pend' \in [Op -> Block \cup {NULL}]
    BY ZenonT(60), <1>4 DEF TypeOK, modify, opVars
  <2>3. written' \in [Op -> SUBSET Block]
    <3>1. written[o] \cup {b} \in SUBSET Block
      BY ZenonT(60) DEF TypeOK
    <3>2. CASE written' = written
      BY ZenonT(60), <3>2 DEF TypeOK
    <3>3. CASE written' = [written EXCEPT ![o] = @ \cup {b}]
      BY ZenonT(60), <3>1, <3>3 DEF TypeOK
    <3> QED BY ZenonT(60), <1>4, <3>2, <3>3 DEF modify, opVars
  <2> QED BY ZenonT(60), <1>4, <2>1, <2>2, <2>3 DEF TypeOK, modify, diskVars
<1>5. CASE write_log
  <2>1. tail + 1 \in 1..Len(lh)
    BY <1>5 DEF write_log, DiskInv, HeadInv, TypeOK
  <2>2. cache[lh[tail + 1]] \in Val
    BY <2>1 DEF TypeOK
  <2>3. dlog' \in [1..LOGSIZE -> Val]
    BY ZenonT(60), <1>5, <2>2 DEF TypeOK, write_log
  <2>4. tail' \in Nat /\ step' \in {"log", "head"}
    BY <1>5 DEF TypeOK, write_log
  <2> QED BY ZenonT(60), <1>5, <2>3, <2>4 DEF TypeOK, write_log, opVars
<1>6. CASE write_head
  BY ZenonT(60), <1>6 DEF TypeOK, write_head, opVars
<1>7. CASE install_trans
  <2>1. tail + 1 \in 1..Len(lh) /\ tail + 1 \in 1..LOGSIZE
    BY <1>7 DEF install_trans, DiskInv, HeadInv, TypeOK, LogFits
  <2>2. dlog[tail + 1] \in Val
    BY ZenonT(60), <2>1 DEF TypeOK
  <2>3. home' \in [Block -> Val] /\ cache' \in [Block -> Val]
    BY ZenonT(60), <1>7, <2>2 DEF TypeOK, install_trans
  <2>4. tail' \in Nat /\ step' \in {"install", "recover", "clear", "erase"}
    BY <1>7 DEF TypeOK, install_trans
  <2> QED BY ZenonT(60), <1>7, <2>3, <2>4 DEF TypeOK, install_trans, opVars
<1>8. CASE clear
  BY <1>8 DEF TypeOK, clear, opVars
<1>9. CASE commitDone
  BY ZenonT(60), <1>9 DEF TypeOK, commitDone, diskVars, awake
<1>10. CASE read_head
  BY ZenonT(60), <1>10 DEF TypeOK, read_head, diskVars, opVars
<1>11. CASE Crash
  <2>1. /\ pc' \in [Op -> {"idle", "begin", "asleep", "op", "write", "commit"}]
        /\ pend' \in [Op -> Block \cup {NULL}]
        /\ written' \in [Op -> SUBSET Block]
    BY ZenonT(60), <1>11 DEF Crash, boot
  <2>2. lh' \in Seq(Block)
    BY <1>11 DEF Crash, boot
  <2> QED BY ZenonT(60), <1>11, <2>1, <2>2 DEF TypeOK, Crash, boot, diskVars
<1>12. CASE UNCHANGED vars
  BY ZenonT(60), <1>12 DEF TypeOK, vars, diskVars, opVars
<1> QED
  BY ZenonT(60), <1>1, <1>2, <1>3, <1>4, <1>5, <1>6, <1>7, <1>8, <1>9, <1>10, <1>11, <1>12
  DEF Next, commitStep

(* The count of operations is exact after every step.                      *)
LEMMA OpsStep ==
  ASSUME TypeOK, OpsInv, DiskInv, LogFits, [Next]_vars
  PROVE  OpsInv'
<1> USE LogAssumption
<1>0. IsFiniteSet(Busy) /\ Cardinality(Busy) \in Nat
  BY ZenonT(60), FS_Subset, FS_CardinalityType DEF Busy
<1>1. ASSUME NEW o \in Op, begin_op(o) PROVE OpsInv'
  <2>1. CASE mustWait
    <3>1. Busy' = Busy
      BY ZenonT(60), <1>1, <2>1 DEF TypeOK, begin_op, Busy
    <3> QED BY ZenonT(60), <1>1, <2>1, <3>1 DEF TypeOK, OpsInv, begin_op
  <2>2. CASE ~mustWait
    <3>1. Busy' = Busy \cup {o} /\ o \notin Busy
      BY ZenonT(60), <1>1, <2>2 DEF TypeOK, begin_op, Busy
    <3>2. Cardinality(Busy') = Cardinality(Busy) + 1
      BY ZenonT(60), <1>0, <3>1, FS_AddElement
    <3>3. step = "none"
      BY ZenonT(60), <1>1, <2>2 DEF TypeOK, OpsInv, begin_op, Running, mustWait, Committing
    <3> QED BY ZenonT(60), <1>1, <2>2, <3>2, <3>3 DEF TypeOK, OpsInv, begin_op
  <2> QED BY ZenonT(60), <2>1, <2>2
<1>2. ASSUME NEW o \in Op, log_write(o) PROVE OpsInv'
  <2>1. Busy' = Busy
    BY ZenonT(60), <1>2 DEF TypeOK, log_write, Busy
  <2> QED BY ZenonT(60), <1>2, <2>1 DEF TypeOK, OpsInv, log_write
<1>3. ASSUME NEW o \in Op, end_op(o) PROVE OpsInv'
  <2>1. o \in Busy
    BY ZenonT(60), <1>3 DEF end_op, Busy
  <2>2. Cardinality(Busy) # 0 /\ Cardinality(Busy \ {o}) = Cardinality(Busy) - 1
    BY ZenonT(60), <1>0, <2>1, FS_EmptySet, FS_RemoveElement
  <2>3. step = "none" /\ ~committing
    BY ZenonT(60), <1>3, <2>2 DEF OpsInv, Committing
  <2>4. Busy' = Busy \ {o}
    BY ZenonT(60), <1>3, <2>3 DEF TypeOK, end_op, Busy, awake, leave
  <2>5. pend[o] = NULL
    BY ZenonT(60), <1>3 DEF OpsInv, end_op
  <2>6. \A q \in Op : pc'[q] = "write" <=> pc[q] = "write"
    BY ZenonT(60), <1>3, <2>3 DEF TypeOK, end_op, awake, leave
  <2> QED BY ZenonT(60), <1>3, <2>2, <2>3, <2>4, <2>6 DEF TypeOK, OpsInv, end_op, Committing
<1>4. ASSUME NEW o \in Op, NEW b \in Block, NEW v \in Val, modify(o, b, v)
      PROVE  OpsInv'
  <2>1. Busy' = Busy
    BY ZenonT(60), <1>4 DEF TypeOK, modify, Busy, opVars
  <2> QED BY ZenonT(60), <1>4, <2>1 DEF TypeOK, OpsInv, modify, opVars
<1>5. CASE write_log \/ write_head \/ install_trans \/ clear \/ read_head
  <2>1. Busy' = Busy
    BY ZenonT(60), <1>5 DEF write_log, write_head, install_trans, clear, read_head, opVars,
                Busy
  <2> QED
    BY <1>5, <2>1 DEF write_log, write_head, install_trans, clear, read_head,
                      opVars, OpsInv, Committing
<1>6. CASE commitDone
  <2>1. Busy' = Busy
    BY ZenonT(60), <1>6 DEF TypeOK, commitDone, awake, Busy
  <2> QED BY ZenonT(60), <1>6, <2>1 DEF TypeOK, commitDone, awake, OpsInv, Committing
<1>7. CASE Crash
  <2>1. Busy' = {}
    BY ZenonT(60), <1>7 DEF Crash, boot, Busy
  <2> QED BY ZenonT(60), <1>7, <2>1, FS_EmptySet DEF Crash, boot, OpsInv, Committing
<1>8. CASE UNCHANGED vars
  BY ZenonT(60), <1>8 DEF OpsInv, vars, opVars, Busy
<1> QED
  BY ZenonT(60), <1>1, <1>2, <1>3, <1>4, <1>5, <1>6, <1>7, <1>8 DEF Next, commitStep
-----------------------------------------------------------------------------
(* absorb lists its block once and loses none: what log_write's loop over  *)
(* log.lh.block leaves.                                                    *)
LEMMA AbsorbOnce ==
  ASSUME lh \in Seq(Block), Injective(lh), NEW b \in Block
  PROVE  /\ Injective(absorb(b))
         /\ Contains(absorb(b), b)
         /\ \A c \in Block : Contains(lh, c) => Contains(absorb(b), c)
<1>1. CASE Contains(lh, b)
  BY ZenonT(60), <1>1 DEF absorb
<1>2. CASE ~Contains(lh, b)
  <2>1. /\ Len(absorb(b)) = Len(lh) + 1
        /\ absorb(b)[Len(lh) + 1] = b
        /\ \A i \in 1..Len(lh) : absorb(b)[i] = lh[i]
    BY <1>2 DEF absorb
  <2>2. Len(lh) \in Nat
    OBVIOUS
  <2>3. \A i \in 1..Len(lh) : lh[i] # b
    BY ZenonT(60), <1>2 DEF Contains
  <2> HIDE DEF absorb
  <2>4. Injective(absorb(b))
    BY <2>1, <2>2, <2>3 DEF Injective
  <2>5. Contains(absorb(b), b)
    BY <2>1, <2>2 DEF Contains
  <2>6. \A c \in Block : Contains(lh, c) => Contains(absorb(b), c)
    BY <2>1, <2>2 DEF Contains
  <2> QED BY ZenonT(60), <2>4, <2>5, <2>6
<1> QED BY ZenonT(60), <1>1, <1>2

(* While no operation is counted none is in log_write.                     *)
LEMMA NoneBusy ==
  ASSUME TypeOK, OpsInv, outstanding = 0
  PROVE  \A o \in Op : pc[o] \notin {"op", "write"} /\ pend[o] = NULL
<1>1. IsFiniteSet(Busy)
  BY ZenonT(60), LogAssumption, FS_Subset DEF Busy
<1>2. Busy = {}
  BY ZenonT(60), <1>1, FS_EmptySet DEF OpsInv
<1> QED BY ZenonT(60), <1>2 DEF Busy, OpsInv

(* The invariant only depends on the disk, the list and what is pending.   *)
LEMMA DiskFrame ==
  ASSUME DiskInv,
         UNCHANGED <<home, dhead, dlog, cache, lh, step, tail, pend, panic>>
  PROVE  DiskInv'
<1>1. HeadInv'
  BY DEF DiskInv, HeadInv, Injective
<1>2. CacheInv'
  BY ZenonT(60) DEF DiskInv, CacheInv, Booting
<1>3. CopyInv'
  BY ZenonT(60) DEF DiskInv, CopyInv
<1> QED BY ZenonT(60), <1>1, <1>2, <1>3 DEF DiskInv

(* Between commits only the cache and the list change.                     *)
LEMMA DiskIdle ==
  ASSUME DiskInv, step = "none", step' = "none", UNCHANGED <<diskVars, tail>>,
         Injective(lh'),
         ~panic' => \A b \in Block : cache'[b] = home[b] \/ Contains(lh', b)
                                        \/ \E o \in Op : pend'[o] = b
  PROVE  DiskInv'
<1>1. HeadInv'
  <2>1. dhead' = dhead /\ tail' = tail
    BY ZenonT(60) DEF diskVars
  <2> QED BY <2>1 DEF DiskInv, HeadInv, Injective
<1>2. CacheInv'
  <2>1. home' = home
    BY ZenonT(60) DEF diskVars
  <2> QED BY ZenonT(60), <2>1 DEF CacheInv, Booting
<1>3. CopyInv'
  BY ZenonT(60) DEF CopyInv
<1> QED BY ZenonT(60), <1>1, <1>2, <1>3 DEF DiskInv

(* The steps of operations keep the copies of the blocks in agreement.     *)
LEMMA DiskOps ==
  ASSUME TypeOK, OpsInv, DiskInv, NEW o \in Op,
         \/ begin_op(o) \/ log_write(o) \/ end_op(o)
         \/ \E b \in Block, v \in Val : modify(o, b, v)
  PROVE  DiskInv'
<1>0. pend \in [Op -> Block \cup {NULL}] /\ cache \in [Block -> Val]
  BY ZenonT(60) DEF TypeOK
<1>1. CASE begin_op(o)
  BY ZenonT(60), <1>1, DiskFrame DEF begin_op, diskVars
<1>2. CASE log_write(o)
  <2>1. step = "none"
    BY ZenonT(60), <1>2, NoneBusy DEF log_write, OpsInv
  <2>2. pend[o] \in Block
    BY ZenonT(60), <1>0, <1>2 DEF OpsInv, log_write
  <2>3. /\ Injective(lh') /\ Contains(lh', pend[o])
        /\ \A c \in Block : Contains(lh, c) => Contains(lh', c)
    <3>1. lh \in Seq(Block) /\ Injective(lh) /\ lh' = absorb(pend[o])
      BY ZenonT(60), <1>2 DEF TypeOK, DiskInv, HeadInv, log_write
    <3> QED BY ZenonT(60), <2>2, <3>1, AbsorbOnce
  <2>4. \A q \in Op : q # o => pend'[q] = pend[q]
    BY ZenonT(60), <1>0, <1>2 DEF log_write
  <2>5. \A b \in Block : cache[b] = home[b] \/ Contains(lh', b)
                           \/ \E q \in Op : pend'[q] = b
    <3> TAKE b \in Block
    <3>1. cache[b] = home[b] \/ Contains(lh, b) \/ \E q \in Op : pend[q] = b
      BY ZenonT(60), <1>2, <2>1 DEF DiskInv, CacheInv, Booting, log_write, Running
    <3> QED BY ZenonT(60), <2>3, <2>4, <3>1
  <2> QED BY ZenonT(60), <1>2, <2>1, <2>3, <2>5, DiskIdle DEF log_write
<1>3. CASE end_op(o)
  <2>1. step = "none" /\ ~committing
    BY ZenonT(60), <1>3, NoneBusy DEF end_op, OpsInv, Committing
  <2>2. /\ UNCHANGED <<home, dhead, dlog, cache, lh, tail, pend, panic>>
        /\ step' = "none" \/ step' = IF lh = <<>> THEN "done" ELSE "log"
    BY ZenonT(60), <1>3, <2>1 DEF end_op, diskVars
  <2>3. CASE step' = "none"
    BY ZenonT(60), <2>1, <2>2, <2>3, DiskFrame
  <2>4. CASE step' = IF lh = <<>> THEN "done" ELSE "log"
    <3>1. (lh # <<>> => 0 < Len(lh)) /\ tail = 0
      BY <2>1 DEF TypeOK, DiskInv, HeadInv
    <3>2. HeadInv'
      BY <2>1, <2>2, <2>4, <3>1 DEF DiskInv, HeadInv, Injective
    <3>3. CacheInv'
      BY ZenonT(60), <2>1, <2>2, <2>4 DEF DiskInv, CacheInv, Booting
    <3>4. CopyInv'
      BY <2>2, <2>4, <3>1 DEF CopyInv
    <3> QED BY ZenonT(60), <3>2, <3>3, <3>4 DEF DiskInv
  <2> QED BY ZenonT(60), <2>2, <2>3, <2>4
<1>4. ASSUME NEW b \in Block, NEW v \in Val, modify(o, b, v) PROVE DiskInv'
  <2>1. step = "none"
    BY ZenonT(60), <1>4, NoneBusy DEF modify, OpsInv
  <2>2. \A c \in Block : c # b => cache'[c] = cache[c]
    BY ZenonT(60), <1>0, <1>4 DEF modify
  <2>3. ~panic' => pend' = [pend EXCEPT ![o] = b] /\ pend[o] = NULL
    BY ZenonT(60), <1>4 DEF modify, OpsInv
  <2>4. ~panic' => \A c \in Block : cache'[c] = home[c] \/ Contains(lh, c)
                                        \/ \E q \in Op : pend'[q] = c
    <3> SUFFICES ASSUME ~panic', NEW c \in Block
                 PROVE  cache'[c] = home[c] \/ Contains(lh, c)
                          \/ \E q \in Op : pend'[q] = c
      BY ZenonT(60)
    <3>1. pend'[o] = b /\ pend[o] = NULL
          /\ \A q \in Op : q # o => pend'[q] = pend[q]
      BY ZenonT(60), <1>0, <2>3
    <3>2. CASE c = b
      BY ZenonT(60), <3>1, <3>2
    <3>3. CASE c # b
      <4>1. cache[c] = home[c] \/ Contains(lh, c) \/ \E q \in Op : pend[q] = c
        BY ZenonT(60), <1>4, <2>1 DEF DiskInv, CacheInv, Booting, modify, Running
      <4>2. c # NULL
        BY ZenonT(60), LogAssumption
      <4> QED BY ZenonT(60), <2>2, <3>1, <3>3, <4>1, <4>2
    <3> QED BY ZenonT(60), <3>2, <3>3
  <2>5. /\ lh' = lh /\ step' = "none" /\ UNCHANGED <<diskVars, tail>>
        /\ Injective(lh)
    BY ZenonT(60), <1>4, <2>1 DEF modify, DiskInv, HeadInv
  <2> QED BY ZenonT(60), <2>1, <2>4, <2>5, DiskIdle
<1> QED BY ZenonT(60), <1>1, <1>2, <1>3, <1>4

(* So do the steps of a commit and of a recovery, and a crash.             *)
LEMMA DiskCommit ==
  ASSUME TypeOK, OpsInv, DiskInv, LogFits, commitStep \/ Crash
  PROVE  DiskInv'
<1>0. /\ Len(lh) \in Nat /\ Len(dhead) \in Nat /\ tail \in Nat /\ LOGSIZE \in Nat
      /\ lh \in Seq(Block) /\ dhead \in Seq(Block)
      /\ home \in [Block -> Val] /\ cache \in [Block -> Val]
      /\ dlog \in [1..LOGSIZE -> Val]
  BY LogAssumption DEF TypeOK
<1>1. CASE write_log
  <2>1. tail + 1 \in 1..Len(lh) /\ tail + 1 \in 1..LOGSIZE
    BY <1>0, <1>1 DEF write_log, DiskInv, HeadInv, LogFits
  <2>2. \A i \in 1..(tail + 1) : dlog'[i] = cache[lh[i]]
    <3>1. /\ dlog' = [dlog EXCEPT ![tail + 1] = cache[lh[tail + 1]]]
          /\ \A i \in 1..tail : dlog[i] = cache[lh[i]]
      BY ZenonT(60), <1>1 DEF write_log, DiskInv, CopyInv
    <3> QED BY <1>0, <2>1, <3>1
  <2>3. /\ UNCHANGED <<home, dhead, cache, lh, pend, panic>> /\ step = "log"
        /\ \/ tail + 1 = Len(lh) /\ tail' = 0 /\ step' = "head"
           \/ tail + 1 # Len(lh) /\ tail' = tail + 1 /\ step' = "log"
    BY ZenonT(60), <1>1 DEF write_log, opVars
  <2>4. HeadInv'
    BY <1>0, <2>1, <2>3 DEF DiskInv, HeadInv, Injective
  <2>5. CacheInv'
    BY ZenonT(60), <2>3 DEF DiskInv, CacheInv, Booting
  <2>6. CopyInv'
    BY ZenonT(60), <2>2, <2>3 DEF CopyInv
  <2> QED BY ZenonT(60), <2>4, <2>5, <2>6 DEF DiskInv
<1>2. CASE write_head
  <2>1. /\ UNCHANGED <<home, dlog, cache, lh, pend, panic, tail>> /\ step = "head"
        /\ dhead' = lh /\ step' = "install" /\ tail = 0
    BY ZenonT(60), <1>2 DEF write_head, opVars, DiskInv, HeadInv
  <2>2. HeadInv'
    BY <1>0, <2>1 DEF DiskInv, HeadInv, Injective, LogFits
  <2>3. CacheInv'
    BY ZenonT(60), <2>1 DEF DiskInv, CacheInv, Booting
  <2>4. CopyInv'
    BY <2>1 DEF DiskInv, CopyInv
  <2> QED BY ZenonT(60), <2>2, <2>3, <2>4 DEF DiskInv
<1>3. CASE install_trans
  <2> DEFINE k == tail + 1
  <2>1. k \in 1..Len(lh) /\ k \in 1..LOGSIZE /\ lh[k] \in Block
    BY <1>0, <1>3 DEF install_trans, DiskInv, HeadInv, LogFits
  <2>2. /\ home' = [home EXCEPT ![lh[k]] = dlog[k]]
        /\ cache' = [cache EXCEPT ![lh[k]] = dlog[k]]
    BY ZenonT(60), <1>3 DEF install_trans
  <2>3. \A i \in 1..k : home'[lh[i]] = dlog[i]
    <3>1. /\ Injective(lh) /\ \A i \in 1..tail : home[lh[i]] = dlog[i]
      BY ZenonT(60), <1>3 DEF install_trans, DiskInv, HeadInv, CopyInv
    <3>2. \A i \in 1..tail : lh[i] # lh[k] /\ lh[i] \in Block
      BY <1>0, <2>1, <3>1 DEF Injective
    <3> QED BY <1>0, <2>1, <2>2, <3>1, <3>2
  <2>4. step = "install" => cache' = cache
    <3>1. step = "install" => dlog[k] = cache[lh[k]]
      BY ZenonT(60), <2>1 DEF DiskInv, CopyInv
    <3> QED BY ZenonT(60), <1>0, <2>1, <2>2, <3>1
  <2>5. step = "recover" => cache' = home'
    BY ZenonT(60), <2>2 DEF DiskInv, CacheInv, Booting
  <2>6. step = "install" => \A b \in Block : cache'[b] = home'[b]
                                 \/ Contains(lh, b) \/ \E o \in Op : pend[o] = b
    <3> SUFFICES ASSUME step = "install", NEW b \in Block
                 PROVE  \/ cache'[b] = home'[b] \/ Contains(lh, b)
                        \/ \E o \in Op : pend[o] = b
      BY ZenonT(60)
    <3>1. CASE b = lh[k]
      BY ZenonT(60), <2>1, <3>1 DEF Contains
    <3>2. CASE b # lh[k]
      <4>1. cache[b] = home[b] \/ Contains(lh, b) \/ \E o \in Op : pend[o] = b
        BY ZenonT(60), <1>3 DEF install_trans, DiskInv, CacheInv, Booting
      <4> QED BY ZenonT(60), <1>0, <2>2, <3>2, <4>1
    <3> QED BY ZenonT(60), <3>1, <3>2
  <2>7. UNCHANGED <<dhead, dlog, lh, pend, panic>> /\ step \in {"install", "recover"}
    BY ZenonT(60), <1>3 DEF install_trans, opVars
  <2>8. \/ k = Len(lh) /\ tail' = 0 /\ step' = IF step = "install" THEN "clear" ELSE "erase"
        \/ k # Len(lh) /\ tail' = k /\ step' = step
    BY ZenonT(60), <1>3 DEF install_trans
  <2> HIDE DEF k
  <2>9. HeadInv'
    <3>1. tail' < Len(lh) \/ step' \in {"clear", "erase"}
      BY <1>0, <2>1, <2>7, <2>8
    <3> QED BY <2>7, <2>8, <3>1 DEF DiskInv, HeadInv, Injective
  <2>10. CacheInv'
    BY ZenonT(60), <2>5, <2>6, <2>7, <2>8 DEF CacheInv, Booting
  <2>11. CopyInv'
    <3>1. step = "install" => \A i \in 1..Len(lh) : dlog[i] = cache'[lh[i]]
      BY ZenonT(60), <2>4 DEF DiskInv, CopyInv
    <3> QED BY ZenonT(60), <2>3, <2>7, <2>8, <3>1 DEF CopyInv
  <2> QED BY ZenonT(60), <2>9, <2>10, <2>11 DEF DiskInv
<1>4. CASE clear
  <2>1. step = "clear" => \A b \in Block : cache[b] = home[b]
    <3> SUFFICES ASSUME step = "clear", NEW b \in Block PROVE cache[b] = home[b]
      BY ZenonT(60)
    <3>1. \A o \in Op : pend[o] = NULL
      BY ZenonT(60), NoneBusy DEF OpsInv
    <3>2. cache[b] = home[b] \/ Contains(lh, b)
      BY ZenonT(60), <1>4, <3>1, LogAssumption DEF clear, DiskInv, CacheInv, Booting
    <3> QED BY ZenonT(60), <3>2 DEF DiskInv, CopyInv, Contains
  <2>2. /\ UNCHANGED <<home, dlog, cache, pend, panic, tail>> /\ lh' = <<>> /\ dhead' = <<>>
        /\ \/ step = "clear" /\ step' = "done"
           \/ step = "erase" /\ step' = "none"
    BY ZenonT(60), <1>4 DEF clear, opVars
  <2>3. HeadInv'
    BY <1>0, <2>2 DEF DiskInv, HeadInv, Injective
  <2>4. CacheInv'
    BY ZenonT(60), <2>1, <2>2 DEF DiskInv, CacheInv, Booting
  <2>5. CopyInv'
    BY ZenonT(60), <2>2 DEF CopyInv
  <2> QED BY ZenonT(60), <2>3, <2>4, <2>5 DEF DiskInv
<1>5. CASE commitDone
  <2>1. /\ UNCHANGED <<home, dhead, dlog, cache, lh, pend, panic, tail>>
        /\ step = "done" /\ step' = "none"
    BY ZenonT(60), <1>5 DEF commitDone, diskVars
  <2>2. HeadInv'
    BY <2>1 DEF DiskInv, HeadInv, Injective
  <2>3. CacheInv'
    BY ZenonT(60), <2>1 DEF DiskInv, CacheInv, Booting
  <2>4. CopyInv'
    BY ZenonT(60), <2>1 DEF CopyInv
  <2> QED BY ZenonT(60), <2>2, <2>3, <2>4 DEF DiskInv
<1>6. CASE read_head
  <2>1. /\ UNCHANGED <<home, dhead, dlog, cache, pend, panic, tail>> /\ lh' = dhead
        /\ step = "boot" /\ step' = IF dhead = <<>> THEN "erase" ELSE "recover"
        /\ tail = 0 /\ (dhead # <<>> => 0 < Len(dhead))
    BY <1>0, <1>6 DEF read_head, diskVars, opVars, DiskInv, HeadInv
  <2>2. HeadInv'
    BY <1>0, <2>1 DEF DiskInv, HeadInv, Injective
  <2>3. CacheInv'
    BY ZenonT(60), <2>1 DEF DiskInv, CacheInv, Booting
  <2>4. CopyInv'
    BY <2>1 DEF CopyInv
  <2> QED BY ZenonT(60), <2>2, <2>3, <2>4 DEF DiskInv
<1>7. CASE Crash
  <2>1. /\ UNCHANGED <<home, dhead, dlog>> /\ cache' = home /\ lh' = <<>>
        /\ step' = "boot" /\ tail' = 0
    BY ZenonT(60), <1>7 DEF Crash, boot, diskVars
  <2>2. HeadInv'
    BY <1>0, <2>1 DEF DiskInv, HeadInv, Injective
  <2>3. CacheInv'
    BY ZenonT(60), <2>1 DEF CacheInv, Booting
  <2>4. CopyInv'
    BY ZenonT(60), <2>1 DEF CopyInv
  <2> QED BY ZenonT(60), <2>2, <2>3, <2>4 DEF DiskInv
<1> QED BY ZenonT(60), <1>1, <1>2, <1>3, <1>4, <1>5, <1>6, <1>7 DEF commitStep
-----------------------------------------------------------------------------
(* What recovery would put into a block: its entry in the log, if it has   *)
(* one.                                                                    *)
LEMMA RecoveredListed ==
  ASSUME dhead \in Seq(Block), Injective(dhead), NEW i \in 1..Len(dhead)
  PROVE  recovered[dhead[i]] = dlog[i]
<1>1. dhead[i] \in Block /\ Contains(dhead, dhead[i])
  BY DEF Contains
<1>2. (CHOOSE j \in 1..Len(dhead) : dhead[j] = dhead[i]) = i
  BY ZenonT(60) DEF Injective
<1> QED BY ZenonT(60), <1>1, <1>2 DEF recovered

(* With an empty header recovery changes nothing.                          *)
LEMMA RecoveredEmpty ==
  ASSUME home \in [Block -> Val], dhead = <<>>
  PROVE  recovered = home
BY DEF recovered, Contains

(* recovered is determined by the header, the entries it lists and the     *)
(* home locations it does not list.                                        *)
LEMMA RecoveredSame ==
  ASSUME dhead \in Seq(Block), Injective(dhead), dhead' = dhead, dlog' = dlog,
         \A b \in Block : home'[b] = home[b] \/ Contains(dhead, b)
  PROVE  recovered' = recovered
BY ZenonT(60) DEF recovered, Contains

(* An operation's steps are steps of the atomic disk or change nothing of  *)
(* it.                                                                     *)
LEMMA OpsImplement ==
  ASSUME TypeOK, OpsInv, DiskInv, NEW o \in Op,
         \/ begin_op(o) \/ log_write(o) \/ end_op(o)
         \/ \E b \in Block, v \in Val : modify(o, b, v)
  PROVE  [AD!Next]_(AD!vars)
<1> USE LogAssumption
<1>0. UNCHANGED diskVars
  BY ZenonT(60) DEF begin_op, log_write, end_op, modify
<1>b. recovered' = recovered
  <2>1. dhead' = dhead /\ dlog' = dlog /\ home' = home
    BY ZenonT(60), <1>0 DEF diskVars
  <2> QED BY <2>1 DEF recovered
<1>1. CASE begin_op(o)
  BY ZenonT(60), <1>b, <1>1 DEF begin_op, AD!Next, AD!Begin, AD!vars
<1>2. CASE log_write(o)
  BY ZenonT(60), <1>b, <1>2 DEF log_write, AD!vars
<1>3. CASE end_op(o)
  <2>1. step = "none" /\ outstanding # 0 /\ ~committing
    BY ZenonT(60), <1>3, NoneBusy DEF end_op, OpsInv, Committing
  <2> QED
    BY <1>b, <1>3, <2>1 DEF end_op, AD!Next, AD!End, AD!vars, TypeOK
<1>4. ASSUME NEW b \in Block, NEW v \in Val, modify(o, b, v)
      PROVE  [AD!Next]_(AD!vars)
  <2>1. step = "none" /\ outstanding # 0
    BY ZenonT(60), <1>4, NoneBusy DEF modify, OpsInv
  <2>2. AD!Write(b, v)
    BY <1>b, <1>4, <2>1 DEF modify, AD!Write, TypeOK
  <2> QED BY ZenonT(60), <2>2 DEF AD!Next
<1> QED BY ZenonT(60), <1>1, <1>2, <1>3, <1>4

(* A commit is one step of the atomic disk, made by write_head; every      *)
(* other write of a commit or of a recovery is invisible to it.            *)
LEMMA CommitImplements ==
  ASSUME TypeOK, OpsInv, DiskInv, LogFits, commitStep \/ Crash
  PROVE  [AD!Next]_(AD!vars)
<1> USE LogAssumption
<1>0. /\ Injective(dhead) /\ dhead \in Seq(Block) /\ Len(lh) \in Nat
      /\ home \in [Block -> Val] /\ cache \in [Block -> Val] /\ tail \in Nat
      /\ lh \in Seq(Block)
  BY DEF DiskInv, HeadInv, TypeOK
<1>1. CASE write_log
  <2>1. dhead = <<>> /\ dhead' = <<>> /\ home' = home
    BY ZenonT(60), <1>1 DEF write_log, DiskInv, HeadInv
  <2>2. recovered' = recovered
    BY <2>1 DEF recovered, Contains
  <2> QED BY ZenonT(60), <1>1, <2>2 DEF write_log, AD!vars
<1>2. CASE write_head
  <2>1. \A o \in Op : pend[o] = NULL
    BY ZenonT(60), <1>2, NoneBusy DEF write_head, OpsInv
  <2>2. \A b \in Block : recovered'[b] = cache[b]
    <3> TAKE b \in Block
    <3>1. CASE Contains(lh, b)
      <4>1. PICK i \in 1..Len(lh) : lh[i] = b
        BY ZenonT(60), <3>1 DEF Contains
      <4>2. (CHOOSE j \in 1..Len(lh) : lh[j] = b) = i
        BY ZenonT(60), <4>1 DEF DiskInv, HeadInv, Injective
      <4>3. dlog[i] = cache[b]
        BY ZenonT(60), <1>2, <4>1 DEF write_head, DiskInv, CopyInv
      <4> QED BY ZenonT(60), <1>2, <3>1, <4>2, <4>3 DEF write_head, recovered
    <3>2. CASE ~Contains(lh, b)
      <4>1. cache[b] = home[b]
        BY ZenonT(60), <1>2, <2>1, <3>2, LogAssumption DEF write_head, DiskInv, CacheInv, Booting
      <4> QED BY ZenonT(60), <1>2, <3>2, <4>1 DEF write_head, recovered
    <3> QED BY ZenonT(60), <3>1, <3>2
  <2>3. recovered' = cache
    BY ZenonT(60), <1>0, <2>2 DEF recovered
  <2>4. outstanding = 0
    BY ZenonT(60), <1>2 DEF write_head, OpsInv
  <2>5. AD!Commit
    BY ZenonT(60), <1>2, <2>3, <2>4 DEF write_head, AD!Commit
  <2> QED BY ZenonT(60), <2>5 DEF AD!Next
<1>3. CASE install_trans
  <2>1. tail + 1 \in 1..Len(lh) /\ dhead = lh
    BY <1>0, <1>3 DEF install_trans, DiskInv, HeadInv
  <2>2. \A b \in Block : home'[b] = home[b] \/ Contains(dhead, b)
    BY ZenonT(60), <1>0, <1>3, <2>1 DEF install_trans, Contains
  <2>3. recovered' = recovered
    BY ZenonT(60), <1>0, <1>3, <2>2, RecoveredSame DEF install_trans
  <2>4. step = "install" => cache' = cache
    <3>1. step = "install" => dlog[tail + 1] = cache[lh[tail + 1]]
      BY ZenonT(60), <2>1 DEF DiskInv, CopyInv
    <3> QED BY ZenonT(60), <1>0, <1>3, <2>1, <3>1 DEF install_trans
  <2> QED BY ZenonT(60), <1>3, <2>3, <2>4 DEF install_trans, AD!vars
<1>4. CASE clear
  <2>1. \A b \in Block : recovered[b] = home[b]
    <3> TAKE b \in Block
    <3>1. CASE Contains(dhead, b)
      <4>1. PICK i \in 1..Len(dhead) : dhead[i] = b
        BY ZenonT(60), <3>1 DEF Contains
      <4> QED
        BY ZenonT(60), <1>0, <1>4, <4>1, RecoveredListed DEF clear, DiskInv, HeadInv, CopyInv
    <3>2. CASE ~Contains(dhead, b)
      BY ZenonT(60), <3>2 DEF recovered
    <3> QED BY ZenonT(60), <3>1, <3>2
  <2>2. recovered = home
    BY ZenonT(60), <1>0, <2>1 DEF recovered
  <2>3. recovered' = home
    BY <1>0, <1>4 DEF clear, recovered, Contains
  <2>4. step = "erase" => cache = home
    BY ZenonT(60) DEF DiskInv, CacheInv, Booting
  <2> QED BY ZenonT(60), <1>4, <2>2, <2>3, <2>4 DEF clear, AD!vars
<1>5. CASE commitDone
  <2>1. recovered' = recovered
    BY <1>5 DEF commitDone, diskVars, recovered
  <2> QED BY ZenonT(60), <1>5, <2>1 DEF commitDone, AD!vars
<1>6. CASE read_head
  <2>1. recovered' = recovered
    BY <1>6 DEF read_head, diskVars, recovered
  <2> QED BY ZenonT(60), <1>6, <2>1 DEF read_head, AD!vars
<1>7. CASE Crash
  <2>1. recovered' = recovered
    BY <1>7 DEF Crash, diskVars, recovered
  <2> QED BY ZenonT(60), <1>7, <2>1 DEF Crash, boot, AD!Next, AD!Crash
<1> QED BY ZenonT(60), <1>1, <1>2, <1>3, <1>4, <1>5, <1>6, <1>7 DEF commitStep

(***************************************************************************)
(* A transaction fits the log.  What begin_op reserves for an operation    *)
(* and the operation has not used yet is a set of tokens: a block that     *)
(* log_write appends uses one token of its writer, and begin_op's test     *)
(* leaves room in the list for all of them.                                *)
(***************************************************************************)
Listed == {lh[i] : i \in 1..Len(lh)}

used(o) == Cardinality(written[o] \cap Listed)

Reserved == {t \in Busy \X (1..MAXOPBLOCKS) : used(t[1]) < t[2]}

(* What is left of the log when every operation has used all it may.       *)
Bounded(list) == Len(list) + MAXOPBLOCKS <= LOGSIZE + OpBlocks

FitsInv ==
  /\ Len(lh) + Cardinality(Reserved) <= LOGSIZE
  /\ \A o \in Op : IsFiniteSet(written[o]) /\ Cardinality(written[o]) <= OpBlocks
  /\ \A o \in Op : pend[o] # NULL => pend[o] \in written[o]
  /\ Bounded(lh) /\ Bounded(dhead)

(* The bounds of param.h and mkfs.c agree with what operations write.      *)
OpsFit == OpBlocks <= MAXOPBLOCKS /\ LOGSIZE - MAXOPBLOCKS + OpBlocks <= nlog - 1

LEMMA BoundedFits ==
  ASSUME TypeOK, FitsInv, OpsFit
  PROVE  LogFits
<1>1. Len(lh) \in Nat
  BY DEF TypeOK
<1> QED BY <1>1, LogAssumption DEF FitsInv, Bounded, OpsFit, LogFits

(* The tokens are finitely many, and fewer tokens count less.              *)
LEMMA ReservedFinite ==
  /\ IsFiniteSet(Busy) /\ Cardinality(Busy) \in Nat
  /\ IsFiniteSet(Reserved) /\ Cardinality(Reserved) \in Nat
  /\ \A T \in SUBSET Reserved :
       IsFiniteSet(T) /\ Cardinality(T) \in Nat /\ Cardinality(T) <= Cardinality(Reserved)
<1>1. IsFiniteSet(Busy) /\ Cardinality(Busy) \in Nat
  BY ZenonT(60), LogAssumption, FS_Subset, FS_CardinalityType DEF Busy
<1>2. IsFiniteSet(1..MAXOPBLOCKS)
  BY LogAssumption, FS_Interval
<1>3. IsFiniteSet(Busy \X (1..MAXOPBLOCKS))
  BY ZenonT(60), <1>1, <1>2, FS_Product
<1>4. IsFiniteSet(Reserved)
  BY ZenonT(60), <1>3, FS_Subset DEF Reserved
<1> QED BY ZenonT(60), <1>1, <1>4, FS_Subset, FS_CardinalityType

(* A step that lists nothing new and only takes tokens away keeps the      *)
(* room.                                                                   *)
LEMMA FewerTokens ==
  ASSUME TypeOK, FitsInv, lh' = lh, Reserved' \subseteq Reserved
  PROVE  Len(lh') + Cardinality(Reserved') <= LOGSIZE
<1>1. /\ Cardinality(Reserved) \in Nat /\ Cardinality(Reserved') \in Nat
      /\ Cardinality(Reserved') <= Cardinality(Reserved)
  BY ZenonT(60), ReservedFinite
<1>2. Len(lh) \in Nat /\ Len(lh) + Cardinality(Reserved) <= LOGSIZE /\ LOGSIZE \in Nat
  BY LogAssumption DEF TypeOK, FitsInv
<1> QED BY <1>1, <1>2

(* Without operations there are no tokens.                                 *)
LEMMA NoTokens ==
  ASSUME Busy = {}
  PROVE  Cardinality(Reserved) = 0
<1>1. Reserved = {}
  BY ZenonT(60) DEF Reserved
<1> QED BY ZenonT(60), <1>1, FS_EmptySet

(* begin_op's test leaves room for a full reservation of everyone.         *)
LEMMA BeginFits ==
  ASSUME TypeOK, OpsInv, FitsInv, NEW o \in Op, begin_op(o), ~mustWait
  PROVE  Len(lh') + Cardinality(Reserved') <= LOGSIZE
<1> DEFINE B == Busy \cup {o}
           M == 1..MAXOPBLOCKS
<1>1. Busy' = B /\ o \notin Busy
  BY ZenonT(60) DEF TypeOK, begin_op, Busy
<1>2. IsFiniteSet(B) /\ Cardinality(B) = outstanding + 1
  BY ZenonT(60), <1>1, ReservedFinite, FS_AddElement DEF OpsInv
<1>3. IsFiniteSet(M) /\ Cardinality(M) = MAXOPBLOCKS
  BY LogAssumption, FS_Interval
<1>4. IsFiniteSet(B \X M) /\ Cardinality(B \X M) = (outstanding + 1) * MAXOPBLOCKS
  <2> HIDE DEF B, M
  <2>1. IsFiniteSet(B \X M) /\ Cardinality(B \X M) = Cardinality(B) * Cardinality(M)
    BY ZenonT(60), <1>2, <1>3, FS_Product
  <2> QED BY ZenonT(60), <1>2, <1>3, <2>1
<1>5. Reserved' \subseteq B \X M
  BY ZenonT(60), <1>1 DEF Reserved
<1>6. Cardinality(Reserved') \in Nat /\ Cardinality(Reserved') <= (outstanding + 1) * MAXOPBLOCKS
  <2> HIDE DEF B, M
  <2> QED BY <1>4, <1>5, FS_Subset, FS_CardinalityType
<1>7. /\ Len(lh) + (outstanding + 1) * MAXOPBLOCKS <= LOGSIZE /\ lh' = lh
  BY ZenonT(60) DEF begin_op, mustWait, hasRoom
<1>8. Len(lh) \in Nat /\ (outstanding + 1) * MAXOPBLOCKS \in Nat /\ LOGSIZE \in Nat
  BY LogAssumption DEF TypeOK
<1> QED BY <1>6, <1>7, <1>8

(* What absorb lists.                                                      *)
LEMMA AbsorbLists ==
  ASSUME lh \in Seq(Block), NEW b \in Block, lh' = absorb(b)
  PROVE  \/ b \in Listed /\ lh' = lh
         \/ b \notin Listed /\ Len(lh') = Len(lh) + 1 /\ Listed' = Listed \cup {b}
<1>1. CASE Contains(lh, b)
  BY ZenonT(60), <1>1 DEF absorb, Contains, Listed
<1>2. CASE ~Contains(lh, b)
  <2>1. b \notin Listed
    BY ZenonT(60), <1>2 DEF Contains, Listed
  <2>2. /\ Len(lh') = Len(lh) + 1 /\ lh'[Len(lh) + 1] = b
        /\ \A i \in 1..Len(lh) : lh'[i] = lh[i]
    BY <1>2 DEF absorb
  <2>3. Len(lh) \in Nat
    OBVIOUS
  <2> QED BY <2>1, <2>2, <2>3 DEF Listed
<1> QED BY ZenonT(60), <1>1, <1>2

(* log_write uses a token for the block it appends, and one is left while  *)
(* the operation may write more blocks.                                    *)
LEMMA WriteFits ==
  ASSUME TypeOK, OpsInv, FitsInv, OpBlocks <= MAXOPBLOCKS, NEW o \in Op, log_write(o)
  PROVE  Len(lh') + Cardinality(Reserved') <= LOGSIZE /\ Bounded(lh')
<1> DEFINE b == pend[o]
           k == used(o)
<1>1. /\ b \in Block /\ b \in written[o] /\ lh' = absorb(b) /\ lh \in Seq(Block)
      /\ written' = written /\ Len(lh) \in Nat
  BY DEF TypeOK, OpsInv, FitsInv, log_write
<1>2. Busy' = Busy /\ o \in Busy
  BY ZenonT(60) DEF TypeOK, log_write, Busy
<1>3. CASE lh' = lh
  <2>1. Listed' = Listed
    BY ZenonT(60), <1>3 DEF Listed
  <2>2. Reserved' \subseteq Reserved
    BY ZenonT(60), <1>1, <1>2, <2>1 DEF Reserved, used
  <2>3. Bounded(lh')
    BY ZenonT(60), <1>3 DEF FitsInv, Bounded
  <2> QED BY ZenonT(60), <1>3, <2>2, <2>3, FewerTokens
<1>4. CASE b \notin Listed /\ Len(lh') = Len(lh) + 1 /\ Listed' = Listed \cup {b}
  <2>1. \A q \in Op : /\ IsFiniteSet(written[q]) /\ Cardinality(written[q]) \in Nat
                      /\ Cardinality(written[q]) <= OpBlocks
    BY ZenonT(60), FS_CardinalityType DEF FitsInv
  <2>2. \A q \in Op : used(q) \in Nat /\ used(q)' \in Nat /\ used(q) <= used(q)'
    <3> TAKE q \in Op
    <3>1. /\ IsFiniteSet(written[q] \cap Listed) /\ IsFiniteSet(written[q] \cap Listed')
      BY ZenonT(60), <2>1, FS_Subset
    <3>2. written[q] \cap Listed \subseteq written[q] \cap Listed'
      BY ZenonT(60), <1>4
    <3> QED BY ZenonT(60), <1>1, <3>1, <3>2, FS_Subset, FS_CardinalityType DEF used
  <2>3. k \in Nat /\ used(o)' = k + 1 /\ k + 1 <= OpBlocks
    <3>1. IsFiniteSet(written[o] \cap Listed) /\ b \notin written[o] \cap Listed
      BY ZenonT(60), <1>4, <2>1, FS_Subset
    <3>2. written[o] \cap Listed' = (written[o] \cap Listed) \cup {b}
      BY ZenonT(60), <1>1, <1>4
    <3>3. Cardinality(written[o] \cap Listed') = Cardinality(written[o] \cap Listed) + 1
      BY ZenonT(60), <3>1, <3>2, FS_AddElement
    <3>4. Cardinality(written[o] \cap Listed') <= Cardinality(written[o])
      BY ZenonT(60), <2>1, FS_Subset
    <3>5. used(o)' = Cardinality(written[o] \cap Listed') /\ k \in Nat
      BY ZenonT(60), <1>1, <2>2 DEF used
    <3> QED BY <2>1, <3>3, <3>4, <3>5, LogAssumption DEF used
  <2> HIDE DEF b, k
  <2>4. <<o, k + 1>> \in Reserved
    BY <1>2, <2>3, LogAssumption DEF Reserved, k
  <2>5. Reserved' \subseteq Reserved \ {<<o, k + 1>>}
    <3> SUFFICES ASSUME NEW q \in Busy, NEW i \in 1..MAXOPBLOCKS, used(q)' < i
                 PROVE  used(q) < i /\ <<q, i>> # <<o, k + 1>>
      BY <1>2 DEF Reserved
    <3>1. q \in Op
      BY ZenonT(60) DEF Busy
    <3> QED BY <2>2, <2>3, <3>1
  <2>6. /\ Cardinality(Reserved) \in Nat /\ Cardinality(Reserved') \in Nat
        /\ Cardinality(Reserved') <= Cardinality(Reserved) - 1
    <3>1. /\ IsFiniteSet(Reserved \ {<<o, k + 1>>})
          /\ Cardinality(Reserved \ {<<o, k + 1>>}) = Cardinality(Reserved) - 1
      BY <2>4, ReservedFinite, FS_RemoveElement
    <3> QED BY <2>5, <3>1, ReservedFinite, FS_Subset
  <2>7. Len(lh') + Cardinality(Reserved') <= LOGSIZE
    BY <1>1, <1>4, <2>6, LogAssumption DEF FitsInv
  <2>8. MAXOPBLOCKS - OpBlocks <= Cardinality(Reserved')
    <3> DEFINE I == (OpBlocks + 1)..MAXOPBLOCKS
               rest == {o} \X I
    <3>1. rest \subseteq Reserved'
      <4> SUFFICES ASSUME NEW i \in (OpBlocks + 1)..MAXOPBLOCKS
                   PROVE  i \in 1..MAXOPBLOCKS /\ used(o)' < i
        BY ZenonT(60), <1>2 DEF Reserved
      <4> QED BY <2>3, LogAssumption
    <3>2. IsFiniteSet(I) /\ Cardinality(I) = MAXOPBLOCKS - OpBlocks
      BY LogAssumption, FS_Interval
    <3>3. IsFiniteSet({o}) /\ Cardinality({o}) = 1
      BY ZenonT(60), FS_Singleton
    <3>4. Cardinality(rest) = 1 * (MAXOPBLOCKS - OpBlocks)
      <4> HIDE DEF I
      <4>1. Cardinality(rest) = Cardinality({o}) * Cardinality(I)
        BY ZenonT(60), <3>2, <3>3, FS_Product
      <4> QED BY ZenonT(60), <3>2, <3>3, <4>1
    <3>5. IsFiniteSet(Reserved')
      BY ZenonT(60), <2>5, ReservedFinite, FS_Subset
    <3>6. Cardinality(rest) <= Cardinality(Reserved')
      <4> HIDE DEF rest
      <4> QED BY ZenonT(60), <3>1, <3>5, FS_Subset
    <3> QED BY <3>4, <3>6, LogAssumption
  <2> QED BY <1>1, <1>4, <2>6, <2>7, <2>8, LogAssumption DEF Bounded
<1> QED BY ZenonT(60), <1>1, <1>3, <1>4, AbsorbLists

(* The other steps of operations take tokens away.                         *)
LEMMA EndFits ==
  ASSUME TypeOK, OpsInv, FitsInv, NEW o \in Op,
         end_op(o) \/ \E b \in Block, v \in Val : modify(o, b, v)
  PROVE  /\ Len(lh') + Cardinality(Reserved') <= LOGSIZE
         /\ \A q \in Op : IsFiniteSet(written'[q]) /\ Cardinality(written'[q]) <= OpBlocks
         /\ \A q \in Op : pend'[q] # NULL => pend'[q] \in written'[q]
<1>0. /\ \A q \in Op : IsFiniteSet(written[q]) /\ Cardinality(written[q]) <= OpBlocks
      /\ \A q \in Op : pend[q] # NULL => pend[q] \in written[q]
      /\ written \in [Op -> SUBSET Block] /\ pend \in [Op -> Block \cup {NULL}]
      /\ OpBlocks \in Nat
  BY ZenonT(60), LogAssumption DEF FitsInv, TypeOK
<1>1. CASE end_op(o)
  <2>1. /\ lh' = lh /\ pend' = pend /\ written' = [written EXCEPT ![o] = {}]
        /\ pend[o] = NULL
    BY ZenonT(60), <1>1 DEF end_op, OpsInv
  <2>2. Busy' = Busy \ {o}
    <3>1. ~committing
      BY ZenonT(60), <1>1, NoneBusy DEF end_op, OpsInv, Committing
    <3> QED BY ZenonT(60), <1>1, <3>1 DEF TypeOK, end_op, Busy, awake, leave
  <2>3. /\ written'[o] = {} /\ \A q \in Op : q # o => written'[q] = written[q]
    BY ZenonT(60), <1>0, <2>1
  <2>4. Reserved' \subseteq Reserved
    <3>1. Listed' = Listed /\ Busy \subseteq Op
      BY ZenonT(60), <2>1 DEF Listed, Busy
    <3> QED BY ZenonT(60), <2>2, <2>3, <3>1 DEF Reserved, used
  <2> QED BY <1>0, <2>1, <2>3, <2>4, FewerTokens, FS_EmptySet
<1>2. ASSUME NEW b \in Block, NEW v \in Val, modify(o, b, v)
      PROVE  /\ Len(lh') + Cardinality(Reserved') <= LOGSIZE
             /\ \A q \in Op : IsFiniteSet(written'[q]) /\ Cardinality(written'[q]) <= OpBlocks
             /\ \A q \in Op : pend'[q] # NULL => pend'[q] \in written'[q]
  <2>1. lh' = lh /\ (b \in written[o] \/ Cardinality(written[o]) < OpBlocks)
    BY ZenonT(60), <1>2 DEF modify
  <2>2. Busy' = Busy
    BY <1>2 DEF TypeOK, modify, Busy, opVars
  <2>3. \/ UNCHANGED <<written, pend>>
        \/ /\ written' = [written EXCEPT ![o] = written[o] \cup {b}]
           /\ pend' = [pend EXCEPT ![o] = b]
    BY ZenonT(60), <1>2 DEF modify, opVars
  <2>4. /\ IsFiniteSet(written[o] \cup {b}) /\ Cardinality(written[o] \cup {b}) <= OpBlocks
    <3>1. Cardinality(written[o]) \in Nat
      BY ZenonT(60), <1>0, FS_CardinalityType
    <3>2. /\ IsFiniteSet(written[o] \cup {b})
          /\ Cardinality(written[o] \cup {b}) =
               IF b \in written[o] THEN Cardinality(written[o]) ELSE Cardinality(written[o]) + 1
      BY ZenonT(60), <1>0, FS_AddElement
    <3> QED BY <1>0, <2>1, <3>1, <3>2
  <2>5. /\ \A q \in Op : IsFiniteSet(written'[q]) /\ Cardinality(written'[q]) <= OpBlocks
        /\ \A q \in Op : written[q] \subseteq written'[q]
        /\ \A q \in Op : pend'[q] # NULL => pend'[q] \in written'[q]
    BY ZenonT(60), <1>0, <2>3, <2>4
  <2>6. Listed' = Listed
    BY ZenonT(60), <2>1 DEF Listed
  <2>7. \A q \in Op : used(q) \in Nat /\ used(q)' \in Nat /\ used(q) <= used(q)'
    <3> TAKE q \in Op
    <3>1. IsFiniteSet(written'[q] \cap Listed)
      BY ZenonT(60), <2>5, FS_Subset
    <3>2. written[q] \cap Listed \subseteq written'[q] \cap Listed
      BY ZenonT(60), <2>5
    <3> QED BY ZenonT(60), <2>6, <3>1, <3>2, FS_Subset, FS_CardinalityType DEF used
  <2>8. Reserved' \subseteq Reserved
    <3> SUFFICES ASSUME NEW q \in Busy, NEW i \in 1..MAXOPBLOCKS, used(q)' < i
                 PROVE  used(q) < i
      BY ZenonT(60), <2>2 DEF Reserved
    <3>1. q \in Op
      BY ZenonT(60) DEF Busy
    <3> QED BY <2>7, <3>1
  <2> QED BY ZenonT(60), <2>1, <2>5, <2>8, FewerTokens
<1> QED BY ZenonT(60), <1>1, <1>2

(* A transaction fits after every step.                                    *)
LEMMA FitsStep ==
  ASSUME TypeOK, OpsInv, DiskInv, FitsInv, OpBlocks <= MAXOPBLOCKS, [Next]_vars
  PROVE  FitsInv'
<1>0. /\ \A q \in Op : IsFiniteSet(written[q]) /\ Cardinality(written[q]) <= OpBlocks
      /\ \A q \in Op : pend[q] # NULL => pend[q] \in written[q]
      /\ Bounded(lh) /\ Bounded(dhead)
      /\ Len(lh) + Cardinality(Reserved) <= LOGSIZE
  BY ZenonT(60) DEF FitsInv
<1>1. ASSUME UNCHANGED <<lh, dhead, pend, written>>, Reserved' \subseteq Reserved
      PROVE  FitsInv'
  BY ZenonT(60), <1>0, <1>1, FewerTokens DEF FitsInv
<1>2. ASSUME UNCHANGED <<lh, dhead, opVars>> PROVE FitsInv'
  <2>1. UNCHANGED <<pend, written>> /\ Busy' = Busy /\ Listed' = Listed
    BY ZenonT(60), <1>2 DEF opVars, Busy, Listed
  <2>2. Reserved' \subseteq Reserved
    BY ZenonT(60), <2>1 DEF Reserved, used
  <2> QED BY ZenonT(60), <1>1, <1>2, <2>1, <2>2
<1>3. ASSUME NEW o \in Op, begin_op(o) PROVE FitsInv'
  <2>1. CASE mustWait
    <3>1. Busy' = Busy /\ Listed' = Listed
      BY ZenonT(60), <1>3, <2>1 DEF TypeOK, begin_op, Busy, Listed
    <3>2. Reserved' \subseteq Reserved
      BY ZenonT(60), <1>3, <3>1 DEF Reserved, used, begin_op
    <3> QED BY ZenonT(60), <1>1, <1>3, <3>2 DEF begin_op, diskVars
  <2>2. CASE ~mustWait
    BY ZenonT(60), <1>0, <1>3, <2>2, BeginFits DEF FitsInv, begin_op, diskVars
  <2> QED BY ZenonT(60), <2>1, <2>2
<1>4. ASSUME NEW o \in Op, log_write(o) PROVE FitsInv'
  <2>1. /\ pend' = [pend EXCEPT ![o] = NULL] /\ written' = written /\ dhead' = dhead
        /\ pend \in [Op -> Block \cup {NULL}]
    BY ZenonT(60), <1>4 DEF log_write, diskVars, TypeOK
  <2> QED BY ZenonT(60), <1>0, <1>4, <2>1, WriteFits DEF FitsInv
<1>5. ASSUME NEW o \in Op, end_op(o) \/ \E b \in Block, v \in Val : modify(o, b, v)
      PROVE  FitsInv'
  <2>1. lh' = lh /\ dhead' = dhead
    BY ZenonT(60), <1>5 DEF end_op, modify, diskVars
  <2> QED BY ZenonT(60), <1>0, <1>5, <2>1, EndFits DEF FitsInv
<1>6. CASE write_log \/ install_trans
  BY ZenonT(60), <1>2, <1>6 DEF write_log, install_trans
<1>7. ASSUME step # "none", lh' \in {lh, dhead, <<>>}, Bounded(lh'), Bounded(dhead'),
             UNCHANGED opVars
      PROVE  FitsInv'
  <2>1. Busy' = {}
    <3>1. \A o \in Op : pc[o] \notin {"op", "write"}
      BY ZenonT(60), <1>7, NoneBusy DEF OpsInv
    <3> QED BY ZenonT(60), <1>7, <3>1 DEF Busy, opVars
  <2>2. Cardinality(Reserved') = 0
    <3>1. Reserved' = {}
      BY ZenonT(60), <2>1 DEF Reserved
    <3> QED BY ZenonT(60), <3>1, FS_EmptySet
  <2>3. Len(lh') <= LOGSIZE
    <3>1. Len(lh') \in Nat
      BY <1>7 DEF TypeOK
    <3> QED BY <1>7, <3>1, LogAssumption DEF Bounded
  <2> QED BY <1>0, <1>7, <2>2, <2>3, LogAssumption DEF FitsInv, opVars
<1>8. CASE write_head
  BY ZenonT(60), <1>0, <1>7, <1>8 DEF write_head
<1>9. Bounded(<<>>)
  BY LogAssumption DEF Bounded
<1>10. CASE clear
  BY ZenonT(60), <1>7, <1>9, <1>10 DEF clear
<1>11. CASE read_head
  BY ZenonT(60), <1>0, <1>7, <1>11 DEF read_head, diskVars
<1>12. CASE commitDone
  <2>1. Busy' = Busy /\ Listed' = Listed
    BY ZenonT(60), <1>12 DEF TypeOK, commitDone, awake, Busy, Listed
  <2>2. Reserved' \subseteq Reserved
    BY ZenonT(60), <1>12, <2>1 DEF Reserved, used, commitDone
  <2> QED BY ZenonT(60), <1>1, <1>12, <2>2 DEF commitDone, diskVars
<1>13. CASE Crash
  <2>1. /\ dhead' = dhead /\ lh' = <<>> /\ pc' = [o \in Op |-> "idle"]
        /\ pend' = [o \in Op |-> NULL] /\ written' = [o \in Op |-> {}]
    BY ZenonT(60), <1>13 DEF Crash, boot, diskVars
  <2>2. Reserved' = {}
    BY ZenonT(60), <2>1 DEF Reserved, Busy
  <2> QED BY <1>0, <1>9, <2>1, <2>2, FS_EmptySet, LogAssumption DEF FitsInv
<1>14. CASE UNCHANGED vars
  BY ZenonT(60), <1>2, <1>14 DEF vars, diskVars
<1> QED
  BY ZenonT(60), <1>3, <1>4, <1>5, <1>6, <1>8, <1>10, <1>11, <1>12, <1>13, <1>14
  DEF Next, commitStep

(* Only an operation panics, and the list is empty between transactions.   *)
QuietInv ==
  /\ panic => step = "none" /\ outstanding # 0
  /\ step = "none" /\ outstanding = 0 => lh = <<>>

LEMMA QuietStep ==
  ASSUME TypeOK, OpsInv, DiskInv, QuietInv, [Next]_vars
  PROVE  QuietInv'
<1>0. outstanding \in Nat
  BY ZenonT(60) DEF TypeOK
<1>1. ASSUME NEW o \in Op, begin_op(o) PROVE QuietInv'
  BY <1>0, <1>1 DEF QuietInv, begin_op, Running
<1>2. ASSUME NEW o \in Op, log_write(o) PROVE QuietInv'
  <2>1. outstanding # 0
    BY ZenonT(60), <1>2, NoneBusy DEF log_write
  <2> QED BY ZenonT(60), <1>2, <2>1 DEF QuietInv, log_write
<1>3. ASSUME NEW o \in Op, end_op(o) PROVE QuietInv'
  <2>1. step = "none" /\ ~committing
    BY ZenonT(60), <1>3, NoneBusy DEF end_op, OpsInv, Committing
  <2> QED BY ZenonT(60), <1>3, <2>1 DEF QuietInv, end_op, Running
<1>4. ASSUME NEW o \in Op, NEW b \in Block, NEW v \in Val, modify(o, b, v)
      PROVE  QuietInv'
  <2>1. step = "none" /\ outstanding # 0
    BY ZenonT(60), <1>4, NoneBusy DEF modify, OpsInv
  <2> QED BY ZenonT(60), <1>4, <2>1 DEF QuietInv, modify
<1>5. CASE write_log \/ write_head \/ install_trans \/ read_head
  BY <1>5 DEF QuietInv, write_log, write_head, install_trans, read_head
<1>6. CASE clear
  BY ZenonT(60), <1>6 DEF QuietInv, clear
<1>7. CASE commitDone
  BY ZenonT(60), <1>7 DEF QuietInv, commitDone, DiskInv, HeadInv
<1>8. CASE Crash
  BY ZenonT(60), <1>8 DEF QuietInv, Crash, boot
<1>9. CASE UNCHANGED vars
  BY ZenonT(60), <1>9 DEF QuietInv, vars
<1> QED
  BY ZenonT(60), <1>1, <1>2, <1>3, <1>4, <1>5, <1>6, <1>7, <1>8, <1>9 DEF Next, commitStep

(* One more operation, or one more block, leaves less room.                *)
LEMMA RoomShrinks ==
  ASSUME NEW m \in Nat, NEW n \in Nat, NEW i \in Nat, NEW j \in Nat, m <= n, i <= j,
         n + (j + 1) * MAXOPBLOCKS <= LOGSIZE
  PROVE  m + (i + 1) * MAXOPBLOCKS <= LOGSIZE
<1>1. MAXOPBLOCKS \in Nat /\ LOGSIZE \in Nat
  BY ZenonT(60), LogAssumption
<1>2. PICK d \in Nat : j = i + d
  <2>1. j - i \in Nat /\ j = i + (j - i)
    OBVIOUS
  <2> QED BY ZenonT(60), <2>1
<1>3. (j + 1) * MAXOPBLOCKS = (i + 1) * MAXOPBLOCKS + d * MAXOPBLOCKS
  BY <1>1, <1>2
<1>4. (i + 1) * MAXOPBLOCKS \in Nat /\ d * MAXOPBLOCKS \in Nat
  BY <1>1
<1> QED BY <1>1, <1>3, <1>4

(* No operation runs, and none sleeps, before the log is recovered.        *)
BootIdle == step \in Booting => \A o \in Op : pc[o] = "idle"

LEMMA BootStep ==
  ASSUME TypeOK, OpsInv, BootIdle, [Next]_vars
  PROVE  BootIdle'
<1>1. ASSUME NEW o \in Op, begin_op(o) \/ log_write(o) PROVE BootIdle'
  BY ZenonT(60), <1>1 DEF begin_op, log_write, Running, BootIdle, Booting
<1>2. ASSUME NEW o \in Op, end_op(o) PROVE BootIdle'
  BY ZenonT(60), <1>2 DEF end_op, Running, BootIdle, Booting
<1>3. ASSUME NEW o \in Op, NEW b \in Block, NEW v \in Val, modify(o, b, v)
      PROVE  BootIdle'
  BY ZenonT(60), <1>3 DEF modify, Running, BootIdle, Booting
<1>4. CASE commitStep
  BY ZenonT(60), <1>4 DEF commitStep, write_log, write_head, install_trans, clear, commitDone,
              read_head, opVars, BootIdle, Booting
<1>5. CASE Crash
  BY ZenonT(60), <1>5 DEF Crash, boot, BootIdle
<1>6. CASE UNCHANGED vars
  BY ZenonT(60), <1>6 DEF vars, opVars, BootIdle
<1> QED BY ZenonT(60), <1>1, <1>2, <1>3, <1>4, <1>5, <1>6 DEF Next

(* Whoever sleeps still has to: only end_op and the end of a commit take   *)
(* the reason away, and both wake everyone.                                *)
LEMMA SleepStep ==
  ASSUME TypeOK, OpsInv, BootIdle, SleepJustified, [Next]_vars
  PROVE  SleepJustified'
<1>0. /\ pc \in [Op -> {"idle", "begin", "asleep", "op", "write", "commit"}]
      /\ outstanding \in Nat /\ Len(lh) \in Nat /\ lh \in Seq(Block)
  BY DEF TypeOK
<1>1. ASSUME committing' PROVE SleepJustified'
  BY ZenonT(60), <1>1 DEF SleepJustified, mustWait
<1>2. ASSUME committing' = committing, Len(lh') \in Nat, outstanding' \in Nat,
             Len(lh) <= Len(lh'), outstanding <= outstanding',
             \A o \in Op : pc'[o] = "asleep" => pc[o] = "asleep" \/ mustWait
      PROVE  SleepJustified'
  <2>1. mustWait => mustWait'
    BY ZenonT(60), <1>0, <1>2, RoomShrinks DEF mustWait, hasRoom
  <2> QED BY ZenonT(60), <1>2, <2>1 DEF SleepJustified
<1>3. ASSUME NEW o \in Op, begin_op(o) PROVE SleepJustified'
  <2>1. /\ committing' = committing /\ lh' = lh /\ outstanding' \in {outstanding, outstanding + 1}
        /\ \A q \in Op : pc'[q] = "asleep" => pc[q] = "asleep" \/ mustWait
    BY ZenonT(60), <1>0, <1>3 DEF begin_op
  <2> QED BY <1>0, <1>2, <2>1
<1>4. ASSUME NEW o \in Op, log_write(o) PROVE SleepJustified'
  <2>1. pend[o] \in Block
    BY ZenonT(60), <1>4 DEF TypeOK, OpsInv, log_write
  <2>2. Len(lh') \in Nat /\ Len(lh) <= Len(lh')
    BY <1>0, <1>4, <2>1 DEF log_write, absorb
  <2>3. /\ UNCHANGED <<committing, outstanding>>
        /\ \A q \in Op : pc'[q] = "asleep" => pc[q] = "asleep"
    BY ZenonT(60), <1>0, <1>4 DEF log_write
  <2> QED BY <1>0, <1>2, <2>2, <2>3
<1>5. ASSUME NEW o \in Op, end_op(o) PROVE SleepJustified'
  <2>1. ~committing
    BY ZenonT(60), <1>5, NoneBusy DEF end_op, OpsInv, Committing
  <2>2. CASE committing'
    BY ZenonT(60), <1>1, <2>2
  <2>3. CASE ~committing'
    BY ZenonT(60), <1>0, <1>5, <2>1, <2>3 DEF end_op, awake, leave, SleepJustified
  <2> QED BY ZenonT(60), <2>2, <2>3
<1>6. ASSUME NEW o \in Op, NEW b \in Block, NEW v \in Val, modify(o, b, v)
      PROVE  SleepJustified'
  <2>1. /\ UNCHANGED <<committing, outstanding, lh>>
        /\ \A q \in Op : pc'[q] = "asleep" => pc[q] = "asleep"
    BY ZenonT(60), <1>0, <1>6 DEF modify, opVars
  <2> QED BY <1>0, <1>2, <2>1
<1>7. CASE write_log \/ write_head \/ install_trans \/ UNCHANGED vars
  <2>1. UNCHANGED <<committing, outstanding, lh, pc>>
    BY ZenonT(60), <1>7 DEF write_log, write_head, install_trans, vars, opVars
  <2> QED BY <1>0, <1>2, <2>1
<1>8. CASE clear \/ read_head
  <2>1. CASE committing
    BY ZenonT(60), <1>1, <1>8, <2>1 DEF clear, read_head
  <2>2. CASE ~committing
    <3>1. step \in Booting
      BY ZenonT(60), <1>8, <2>2 DEF clear, read_head, OpsInv, Committing, Booting
    <3>2. pc' = pc
      BY ZenonT(60), <1>8 DEF clear, read_head, opVars
    <3> QED BY ZenonT(60), <3>1, <3>2 DEF BootIdle, SleepJustified
  <2> QED BY ZenonT(60), <2>1, <2>2
<1>9. CASE commitDone
  BY ZenonT(60), <1>0, <1>9 DEF commitDone, awake, SleepJustified
<1>10. CASE Crash
  BY ZenonT(60), <1>10 DEF Crash, boot, SleepJustified
<1> QED
  BY ZenonT(60), <1>3, <1>4, <1>5, <1>6, <1>7, <1>8, <1>9, <1>10 DEF Next, commitStep

(* A commit has a committer, who calls wakeup when it is done.             *)
Committer == committing => \E q \in Op : pc[q] = "commit"

LEMMA CommitterStep ==
  ASSUME TypeOK, OpsInv, Committer, [Next]_vars
  PROVE  Committer'
<1>0. pc \in [Op -> {"idle", "begin", "asleep", "op", "write", "commit"}]
  BY ZenonT(60) DEF TypeOK
<1>1. ASSUME committing' => committing, NEW o \in Op, pc[o] # "commit",
             \A q \in Op \ {o} : pc'[q] = pc[q]
      PROVE  Committer'
  BY ZenonT(60), <1>1 DEF Committer
<1>2. ASSUME NEW o \in Op, begin_op(o) \/ log_write(o) PROVE Committer'
  <2>1. /\ committing' = committing /\ pc[o] # "commit"
        /\ \A q \in Op \ {o} : pc'[q] = pc[q]
    BY ZenonT(60), <1>0, <1>2 DEF begin_op, log_write
  <2> QED BY ZenonT(60), <1>1, <2>1
<1>3. ASSUME NEW o \in Op, end_op(o) PROVE Committer'
  <2>1. ~committing
    BY ZenonT(60), <1>3, NoneBusy DEF end_op, OpsInv, Committing
  <2>2. committing' => pc'[o] = "commit"
    BY ZenonT(60), <1>0, <1>3, <2>1 DEF end_op
  <2> QED BY ZenonT(60), <2>2 DEF Committer
<1>4. ASSUME NEW o \in Op, NEW b \in Block, NEW v \in Val, modify(o, b, v)
      PROVE  Committer'
  <2>1. /\ committing' = committing /\ pc[o] # "commit"
        /\ \A q \in Op \ {o} : pc'[q] = pc[q]
    BY ZenonT(60), <1>0, <1>4 DEF modify, opVars
  <2> QED BY ZenonT(60), <1>1, <2>1
<1>5. CASE \/ write_log \/ write_head \/ install_trans \/ clear \/ read_head
           \/ UNCHANGED vars
  <2>1. UNCHANGED <<committing, pc>>
    BY ZenonT(60), <1>5 DEF write_log, write_head, install_trans, clear, read_head, vars, opVars
  <2> QED BY ZenonT(60), <2>1 DEF Committer
<1>6. CASE commitDone \/ Crash
  BY ZenonT(60), <1>6 DEF commitDone, Crash, boot, Committer
<1> QED
  BY ZenonT(60), <1>2, <1>3, <1>4, <1>5, <1>6 DEF Next, commitStep

(* What the waiting in begin_op rests on.                                  *)
WaitInv == QuietInv /\ BootIdle /\ SleepJustified /\ Committer

(* Init establishes the invariants.                                        *)
LEMMA LogInit == Init => LogInv /\ FitsInv /\ WaitInv
<1> SUFFICES ASSUME Init PROVE LogInv /\ FitsInv /\ WaitInv
  BY ZenonT(60)
<1> USE LogAssumption
<1>1. TypeOK
  <2>1. /\ pc \in [Op -> {"idle", "begin", "asleep", "op", "write", "commit"}]
        /\ pend \in [Op -> Block \cup {NULL}]
        /\ written \in [Op -> SUBSET Block]
    BY ZenonT(60) DEF Init
  <2>2. dhead \in Seq(Block) /\ lh \in Seq(Block)
    BY DEF Init
  <2>3. dlog \in [1..LOGSIZE -> Val]
    BY ZenonT(60) DEF Init
  <2> QED BY ZenonT(60), <2>1, <2>2, <2>3 DEF Init, TypeOK
<1>2. Busy = {}
  BY ZenonT(60) DEF Init, Busy
<1>3. OpsInv
  BY ZenonT(60), <1>2, FS_EmptySet DEF Init, OpsInv, Committing
<1>4. DiskInv
  BY DEF Init, DiskInv, HeadInv, CacheInv, CopyInv, Booting, Injective
<1>5. FitsInv
  BY <1>2, NoTokens, FS_EmptySet DEF Init, FitsInv, Bounded
<1>6. WaitInv
  BY ZenonT(60) DEF Init, WaitInv, QuietInv, BootIdle, SleepJustified, Committer
<1> QED BY ZenonT(60), <1>1, <1>3, <1>4, <1>5, <1>6 DEF LogInv

(* A step keeps the invariant of the disk, while the transaction fits.     *)
LEMMA LogStep == LogInv /\ LogFits /\ [Next]_vars => LogInv'
<1> SUFFICES ASSUME TypeOK, OpsInv, DiskInv, LogFits, [Next]_vars
             PROVE  LogInv'
  BY ZenonT(60) DEF LogInv
<1>1. ASSUME UNCHANGED vars PROVE DiskInv'
  BY ZenonT(60), <1>1, DiskFrame DEF vars, diskVars, opVars
<1>2. DiskInv'
  BY ZenonT(60), <1>1, DiskOps, DiskCommit DEF Next
<1> QED BY ZenonT(60), <1>2, TypeStep, OpsStep DEF LogInv

FullInv == LogInv /\ FitsInv /\ WaitInv

(* All invariants hold in every state when operations keep to the blocks   *)
(* begin_op reserves for them.                                             *)
LEMMA LogInvariant == OpsFit => (Spec => []FullInv)
<1> SUFFICES ASSUME OpsFit PROVE Spec => []FullInv
  BY ZenonT(60)
<1>1. Init => FullInv
  BY ZenonT(60), LogInit DEF FullInv
<1>2. FullInv /\ [Next]_vars => FullInv'
  <2> SUFFICES ASSUME FullInv, [Next]_vars PROVE FullInv'
    BY ZenonT(60)
  <2>1. /\ TypeOK /\ OpsInv /\ DiskInv /\ LogInv /\ FitsInv /\ QuietInv /\ BootIdle
        /\ SleepJustified /\ Committer /\ OpBlocks <= MAXOPBLOCKS
    BY ZenonT(60) DEF FullInv, WaitInv, LogInv, OpsFit
  <2> QED
    BY ZenonT(60), <2>1, BoundedFits, LogStep, FitsStep, QuietStep, BootStep, SleepStep,
       CommitterStep
       DEF FullInv, WaitInv
<1> QED BY <1>1, <1>2, PTL DEF Spec

(* The header and the data blocks of every transaction fit between the     *)
(* superblock and the inodes, although log_write tests the size without    *)
(* log.lock and before it absorbs: begin_op's reservation suffices, for    *)
(* any number of operations, when none writes more than its share.         *)
THEOREM TransactionsFit == OpsFit => (Spec => []LogFits)
<1> SUFFICES ASSUME OpsFit PROVE Spec => []LogFits
  BY ZenonT(60)
<1>1. FullInv => LogFits
  BY ZenonT(60), BoundedFits DEF FullInv, LogInv
<1> QED BY <1>1, LogInvariant, PTL

(* When the last end_op has returned, the home locations hold what the     *)
(* operations wrote and the log is empty: a crash then loses nothing.      *)
THEOREM CommitsDurable == OpsFit => (Spec => []Durable)
<1> SUFFICES ASSUME OpsFit PROVE Spec => []Durable
  BY ZenonT(60)
<1>1. FullInv => Durable
  <2> SUFFICES ASSUME FullInv, step = "none", outstanding = 0
               PROVE  home = cache /\ dhead = <<>> /\ lh = <<>>
    BY ZenonT(60) DEF Durable
  <2>1. TypeOK /\ OpsInv /\ HeadInv /\ CacheInv /\ QuietInv
    BY ZenonT(60) DEF FullInv, WaitInv, LogInv, DiskInv
  <2>2. dhead = <<>> /\ lh = <<>> /\ ~panic
    BY ZenonT(60), <2>1 DEF HeadInv, QuietInv
  <2>3. \A o \in Op : pend[o] = NULL
    BY ZenonT(60), <2>1, NoneBusy
  <2>4. \A b \in Block : cache[b] = home[b]
    BY <2>1, <2>2, <2>3, LogAssumption DEF CacheInv, Booting, Contains
  <2>5. home \in [Block -> Val] /\ cache \in [Block -> Val]
    BY ZenonT(60), <2>1 DEF TypeOK
  <2> QED BY <2>2, <2>4, <2>5
<1> QED BY <1>1, LogInvariant, PTL

(* No wakeup of begin_op's sleepers is lost: who sleeps is waiting for a   *)
(* commit or for room that is still missing.                               *)
THEOREM BeginOpNeverMissed == OpsFit => (Spec => []SleepJustified)
<1> SUFFICES ASSUME OpsFit PROVE Spec => []SleepJustified
  BY ZenonT(60)
<1>1. FullInv => SleepJustified
  BY ZenonT(60) DEF FullInv, WaitInv
<1> QED BY <1>1, LogInvariant, PTL

(* The operations never wait for each other in a circle: while one sleeps  *)
(* in begin_op another one is in its transaction or commits.  If none was, *)
(* the list would be empty and the reservation of the sleeper would fit.   *)
THEOREM SomeoneWakes == OpsFit => (Spec => []WakerExists)
<1> SUFFICES ASSUME OpsFit PROVE Spec => []WakerExists
  BY ZenonT(60)
<1>1. FullInv => WakerExists
  <2> SUFFICES ASSUME FullInv, NEW o \in Op, pc[o] = "asleep"
               PROVE  \E q \in Op : pc[q] \in {"op", "write", "commit"}
    BY ZenonT(60) DEF WakerExists
  <2>1. TypeOK /\ OpsInv /\ QuietInv /\ BootIdle /\ Committer /\ mustWait
    BY ZenonT(60) DEF FullInv, WaitInv, LogInv, SleepJustified
  <2>2. CASE committing
    BY ZenonT(60), <2>1, <2>2 DEF Committer
  <2>3. CASE ~committing
    <3>1. step \notin Booting
      BY ZenonT(60), <2>1 DEF BootIdle
    <3>2. step = "none"
      BY ZenonT(60), <2>1, <2>3, <3>1 DEF TypeOK, OpsInv, Committing, Booting
    <3>3. outstanding # 0
      <4> SUFFICES ASSUME outstanding = 0 PROVE FALSE
        BY ZenonT(60)
      <4>1. lh = <<>> /\ ~hasRoom
        BY ZenonT(60), <2>1, <2>3, <3>2 DEF QuietInv, mustWait
      <4>2. MAXOPBLOCKS \in Nat /\ LOGSIZE \in Nat /\ MAXOPBLOCKS <= LOGSIZE
        BY LogAssumption
      <4> QED BY <4>1, <4>2 DEF hasRoom
    <3>4. Busy # {}
      BY <2>1, <3>3, FS_EmptySet DEF OpsInv
    <3> QED BY ZenonT(60), <3>4 DEF Busy
  <2> QED BY ZenonT(60), <2>2, <2>3
<1> QED BY <1>1, LogInvariant, PTL

(* One block less than what OpsFit allows.                                 *)
OpsRoom == OpBlocks < MAXOPBLOCKS /\ LOGSIZE - MAXOPBLOCKS + OpBlocks < nlog - 1

(* With a block to spare none of the panics of log.c is reached: log_write *)
(* finds the log full, or no transaction open, for no operation that keeps *)
(* to its share.  Without it the panic is reachable, since log_write tests *)
(* before it absorbs.                                                      *)
THEOREM LogNeverPanics == OpsRoom => (Spec => []NoPanic)
<1> SUFFICES ASSUME OpsRoom PROVE Spec => []NoPanic
  BY ZenonT(60)
<1>1. OpsFit
  BY LogAssumption DEF OpsRoom, OpsFit
<1>2. Init => NoPanic
  BY ZenonT(60) DEF Init, NoPanic
<1>3. FullInv /\ NoPanic /\ [Next]_vars => NoPanic'
  <2> SUFFICES ASSUME FullInv, NoPanic, [Next]_vars PROVE NoPanic'
    BY ZenonT(60)
  <2>1. TypeOK /\ OpsInv /\ Bounded(lh)
    BY ZenonT(60) DEF FullInv, LogInv, FitsInv
  <2>2. ASSUME NEW o \in Op, NEW b \in Block, NEW v \in Val, modify(o, b, v) PROVE NoPanic'
    <3>1. outstanding # 0 /\ outstanding \in Nat
      BY ZenonT(60), <2>1, <2>2, NoneBusy DEF modify, TypeOK
    <3>2. ~tooBig
      <4>1. Len(lh) \in Nat
        BY <2>1 DEF TypeOK
      <4> QED BY <2>1, <4>1, LogAssumption DEF Bounded, OpsRoom, tooBig
    <3> QED BY <2>2, <3>1, <3>2 DEF modify, NoPanic
  <2>3. ASSUME NEW o \in Op, end_op(o) PROVE NoPanic'
    <3>1. ~committing
      BY ZenonT(60), <2>1, <2>3, NoneBusy DEF end_op, OpsInv, Committing
    <3> QED BY ZenonT(60), <2>3, <3>1 DEF end_op, NoPanic
  <2>4. ASSUME NEW o \in Op, begin_op(o) \/ log_write(o) PROVE NoPanic'
    BY ZenonT(60), <2>4 DEF begin_op, log_write, NoPanic
  <2>5. CASE commitStep
    BY ZenonT(60), <2>5 DEF commitStep, write_log, write_head, install_trans, clear, commitDone,
                read_head, NoPanic
  <2>6. CASE Crash \/ UNCHANGED vars
    BY ZenonT(60), <2>6 DEF Crash, vars, NoPanic
  <2> QED BY ZenonT(60), <2>2, <2>3, <2>4, <2>5, <2>6 DEF Next
<1> QED BY <1>1, <1>2, <1>3, LogInvariant, PTL DEF Spec

(* The steps of the log are steps of an atomic disk, while it fits.        *)
LEMMA LogImplements == LogInv /\ LogFits /\ [Next]_vars => [AD!Next]_(AD!vars)
<1> SUFFICES ASSUME TypeOK, OpsInv, DiskInv, LogFits, [Next]_vars
             PROVE  [AD!Next]_(AD!vars)
  BY ZenonT(60) DEF LogInv
<1>1. CASE UNCHANGED vars
  <2>1. UNCHANGED <<dhead, dlog, home, cache, step, outstanding>>
    BY ZenonT(60), <1>1 DEF vars, diskVars
  <2>2. recovered' = recovered
    BY <2>1 DEF recovered
  <2> QED BY ZenonT(60), <2>1, <2>2 DEF AD!vars
<1> QED BY ZenonT(60), <1>1, OpsImplement, CommitImplements DEF Next

(* The log of log.c is an atomic disk: whatever moment a crash chooses, in *)
(* a commit, in install_trans or in recovery, the next boot finds all the  *)
(* writes of a group of operations or none.                                *)
THEOREM LogAtomic == OpsFit => (Spec => CrashAtomic)
<1> SUFFICES ASSUME OpsFit PROVE Spec => CrashAtomic
  BY ZenonT(60)
<1>1. Init => AD!Init
  BY ZenonT(60), RecoveredEmpty DEF Init, AD!Init
<1>2. FullInv => LogInv /\ LogFits
  BY ZenonT(60), BoundedFits DEF FullInv, LogInv
<1> QED
  BY <1>1, <1>2, LogInvariant, LogImplements, PTL DEF Spec, CrashAtomic, AD!Spec
=============================================================================
