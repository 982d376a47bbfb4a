-------------------------------- MODULE Log --------------------------------
(***************************************************************************)
(* The write-ahead log of log.c: file system operations that share one     *)
(* transaction, its commit block by block, a power failure at any moment   *)
(* and the recovery of the next boot.  A block write of the disk is one    *)
(* step and atomic.  log.lock is held from acquire to release inside one   *)
(* step; log_write looks at the size of the log before it takes the lock.  *)
(***************************************************************************)
EXTENDS Integers, Sequences, FiniteSets

CONSTANTS
  Op,            \* processes that run file system operations
  Block,         \* the blocks outside the log
  Val,           \* contents of a block
  MAXOPBLOCKS,   \* the blocks begin_op reserves for an operation
  LOGSIZE,       \* the size of the in-memory list
  nlog,          \* log.size, the blocks of the log on disk with its header
  OpBlocks,      \* the blocks an operation really writes
  NULL

ASSUME LogAssumption ==
  /\ IsFiniteSet(Op)
  /\ MAXOPBLOCKS \in Nat \ {0}
  /\ LOGSIZE \in Nat /\ nlog \in Nat /\ OpBlocks \in Nat
  /\ MAXOPBLOCKS <= LOGSIZE
  /\ NULL \notin Block

VARIABLES
  home,         \* disk: the blocks at their home locations
  dhead,        \* disk: the block numbers of the log's header
  dlog,         \* disk: the data blocks of the log
  cache,        \* memory: the contents an operation reads through bread
  lh,           \* log.lh, a sequence of block numbers
  outstanding,  \* log.outstanding
  committing,   \* log.committing
  step,         \* what commit or recover_from_log does next
  tail,         \* entries write_log or install_trans has handled
  pc,           \* where an operation is
  pend,         \* the block log_write has been called for
  written,      \* the blocks an operation has logged
  panic

diskVars == <<home, dhead, dlog>>
opVars == <<pc, pend, written>>
vars == <<diskVars, cache, lh, outstanding, committing, step, tail, opVars,
          panic>>

(* What a reset leaves of memory: nothing.  initlog then only notes where  *)
(* the log is (its test that a header fits a block compares constants) and *)
(* recovers.                                                               *)
boot ==
  /\ cache' = home
  /\ lh' = <<>>
  /\ outstanding' = 0
  /\ committing' = FALSE
  /\ step' = "boot"
  /\ tail' = 0
  /\ pc' = [o \in Op |-> "idle"]
  /\ pend' = [o \in Op |-> NULL]
  /\ written' = [o \in Op |-> {}]

(* A disk as mkfs makes it, with an empty log.                             *)
Init ==
  /\ home \in [Block -> Val]
  /\ dhead = <<>>
  /\ \E zero \in Val : dlog = [i \in 1..LOGSIZE |-> zero]
  /\ cache = home
  /\ lh = <<>>
  /\ outstanding = 0
  /\ committing = FALSE
  /\ step = "boot"
  /\ tail = 0
  /\ pc = [o \in Op |-> "idle"]
  /\ pend = [o \in Op |-> NULL]
  /\ written = [o \in Op |-> {}]
  /\ panic = FALSE

(* Power fails, or the machine is reset after a panic: the disk is left.   *)
Crash ==
  /\ boot
  /\ panic' = FALSE
  /\ UNCHANGED diskVars
-----------------------------------------------------------------------------
Running == ~panic /\ step \notin {"boot", "recover", "erase"}

(* Mutants: the reservation of the newcomer, or the blocks listed by       *)
(* operations that have ended, are not counted.                            *)
hasRoomForOthers == Len(lh) + outstanding * MAXOPBLOCKS <= LOGSIZE
hasRoomUnlisted == (outstanding + 1) * MAXOPBLOCKS <= LOGSIZE

(* The condition on which begin_op admits another operation.               *)
hasRoom == Len(lh) + (outstanding + 1) * MAXOPBLOCKS <= LOGSIZE

(* begin_op sleeps.                                                        *)
mustWait == committing \/ ~hasRoom

(* Mutant: only one sleeper is woken.                                      *)
awakeOne ==
  [o \in Op |-> IF pc[o] = "asleep" /\ o = CHOOSE q \in Op : pc[q] = "asleep"
                THEN "begin" ELSE pc[o]]

(* wakeup(&log).                                                           *)
awake == [o \in Op |-> IF pc[o] = "asleep" THEN "begin" ELSE pc[o]]

(* One turn of begin_op's loop.                                            *)
begin_op(o) ==
  /\ Running /\ pc[o] \in {"idle", "begin"}
  /\ IF mustWait
     THEN pc' = [pc EXCEPT ![o] = "asleep"] /\ UNCHANGED outstanding
     ELSE pc' = [pc EXCEPT ![o] = "op"] /\ outstanding' = outstanding + 1
  /\ UNCHANGED <<diskVars, cache, lh, committing, step, tail, pend, written,
                 panic>>

(* log_write's test, which it makes without log.lock.                      *)
tooBig == Len(lh) >= LOGSIZE \/ Len(lh) >= nlog - 1

(* An operation changes a buffer it has locked and calls log_write, which  *)
(* makes its test.                                                         *)
modify(o, b, v) ==
  /\ Running /\ pc[o] = "op"
  /\ b \in written[o] \/ Cardinality(written[o]) < OpBlocks
  /\ \A q \in Op : pend[q] # b
  /\ cache' = [cache EXCEPT ![b] = v]
  /\ IF tooBig \/ outstanding < 1
     THEN panic' = TRUE /\ UNCHANGED opVars
     ELSE /\ pc' = [pc EXCEPT ![o] = "write"]
          /\ pend' = [pend EXCEPT ![o] = b]
          /\ written' = [written EXCEPT ![o] = @ \cup {b}]
          /\ UNCHANGED panic
  /\ UNCHANGED <<diskVars, lh, outstanding, committing, step, tail>>

(* As in SequencesExt, which as a whole makes the provers slow.            *)
Contains(s, e) == \E i \in 1 .. Len(s) : s[i] = e

(* The block is listed once, however often it is written.                  *)
absorb(b) == IF Contains(lh, b) THEN lh ELSE Append(lh, b)

log_write(o) ==
  /\ Running /\ pc[o] = "write"
  /\ lh' = absorb(pend[o])
  /\ pc' = [pc EXCEPT ![o] = "op"]
  /\ pend' = [pend EXCEPT ![o] = NULL]
  /\ UNCHANGED <<diskVars, cache, outstanding, committing, step, tail,
                 written, panic>>

(* Mutant: end_op leaves the waking to the commit.                         *)
leaveSilently(o) == [pc EXCEPT ![o] = "idle"]

(* An operation that is not the last wakes those who wait for room.        *)
leave(o) == [awake EXCEPT ![o] = "idle"]

(* end_op: the last operation commits, the others leave.                   *)
end_op(o) ==
  /\ Running /\ pc[o] = "op"
  /\ outstanding' = outstanding - 1
  /\ written' = [written EXCEPT ![o] = {}]
  /\ IF committing THEN panic' = TRUE /\ UNCHANGED <<committing, step, pc>>
     ELSE /\ UNCHANGED panic
          /\ IF outstanding' = 0
             THEN /\ committing' = TRUE
                  /\ step' = IF lh = <<>> THEN "done" ELSE "log"
                  /\ pc' = [pc EXCEPT ![o] = "commit"]
             ELSE /\ pc' = leave(o)
                  /\ UNCHANGED <<committing, step>>
  /\ UNCHANGED <<diskVars, cache, lh, tail, pend>>
-----------------------------------------------------------------------------
(* Mutant: the blocks are installed before the header says so.             *)
write_logNoCommit ==
  /\ ~panic /\ step = "log"
  /\ dlog' = [dlog EXCEPT ![tail + 1] = cache[lh[tail + 1]]]
  /\ IF tail + 1 = Len(lh) THEN tail' = 0 /\ step' = "install"
                           ELSE tail' = tail + 1 /\ UNCHANGED step
  /\ UNCHANGED <<home, dhead, cache, lh, outstanding, committing, opVars,
                 panic>>

(* One turn of write_log's loop.                                           *)
write_log ==
  /\ ~panic /\ step = "log"
  /\ dlog' = [dlog EXCEPT ![tail + 1] = cache[lh[tail + 1]]]
  /\ IF tail + 1 = Len(lh) THEN tail' = 0 /\ step' = "head"
                           ELSE tail' = tail + 1 /\ UNCHANGED step
  /\ UNCHANGED <<home, dhead, cache, lh, outstanding, committing, opVars,
                 panic>>

(* Mutant: the transaction is erased before it is installed.               *)
write_headErases ==
  /\ ~panic /\ step = "head"
  /\ dhead' = lh
  /\ step' = "clear"
  /\ UNCHANGED <<home, dlog, cache, lh, outstanding, committing, tail, opVars,
                 panic>>

(* write_head, the commit point.                                           *)
write_head ==
  /\ ~panic /\ step = "head"
  /\ dhead' = lh
  /\ step' = "install"
  /\ UNCHANGED <<home, dlog, cache, lh, outstanding, committing, tail, opVars,
                 panic>>

(* One turn of install_trans's loop, in commit or in recovery.             *)
install_trans ==
  /\ ~panic /\ step \in {"install", "recover"}
  /\ home' = [home EXCEPT ![lh[tail + 1]] = dlog[tail + 1]]
  /\ cache' = [cache EXCEPT ![lh[tail + 1]] = dlog[tail + 1]]
  /\ IF tail + 1 = Len(lh)
     THEN tail' = 0 /\ step' = IF step = "install" THEN "clear" ELSE "erase"
     ELSE tail' = tail + 1 /\ UNCHANGED step
  /\ UNCHANGED <<dhead, dlog, lh, outstanding, committing, opVars, panic>>

(* log.lh.n = 0 and the write_head that erases the transaction.            *)
clear ==
  /\ ~panic /\ step \in {"clear", "erase"}
  /\ lh' = <<>>
  /\ dhead' = <<>>
  /\ step' = IF step = "clear" THEN "done" ELSE "none"
  /\ UNCHANGED <<home, dlog, cache, outstanding, committing, tail, opVars,
                 panic>>

(* Mutant: the operation that commits is taken off the count once more.    *)
commitDoneTwice ==
  /\ ~panic /\ step = "done"
  /\ committing' = FALSE
  /\ outstanding' = outstanding - 1
  /\ step' = "none"
  /\ pc' = [o \in Op |-> IF pc[o] = "commit" THEN "idle" ELSE awake[o]]
  /\ UNCHANGED <<diskVars, cache, lh, tail, pend, written, panic>>

(* end_op after commit.                                                    *)
commitDone ==
  /\ ~panic /\ step = "done"
  /\ committing' = FALSE
  /\ step' = "none"
  /\ pc' = [o \in Op |-> IF pc[o] = "commit" THEN "idle" ELSE awake[o]]
  /\ UNCHANGED <<diskVars, cache, lh, outstanding, tail, pend, written, panic>>

read_head ==
  /\ ~panic /\ step = "boot"
  /\ lh' = dhead
  /\ step' = IF dhead = <<>> THEN "erase" ELSE "recover"
  /\ UNCHANGED <<diskVars, cache, outstanding, committing, tail, opVars,
                 panic>>
-----------------------------------------------------------------------------
commitStep ==
  write_log \/ write_head \/ install_trans \/ clear \/ commitDone \/ read_head

Next ==
  \/ \E o \in Op : begin_op(o) \/ log_write(o) \/ end_op(o)
  \/ \E o \in Op, b \in Block, v \in Val : modify(o, b, v)
  \/ commitStep
  \/ Crash

Spec == Init /\ [][Next]_vars
-----------------------------------------------------------------------------
TypeOK ==
  /\ home \in [Block -> Val] /\ cache \in [Block -> Val]
  /\ dhead \in Seq(Block) /\ lh \in Seq(Block)
  /\ dlog \in [1..LOGSIZE -> Val]
  /\ outstanding \in Nat /\ tail \in Nat
  /\ committing \in BOOLEAN /\ panic \in BOOLEAN
  /\ step \in {"none", "log", "head", "install", "clear", "done", "boot",
               "recover", "erase"}
  /\ pc \in [Op -> {"idle", "begin", "asleep", "op", "write", "commit"}]
  /\ pend \in [Op -> Block \cup {NULL}]
  /\ written \in [Op -> SUBSET Block]

(* What recovery makes of the disk: the logged blocks over the others.     *)
recovered ==
  [b \in Block |-> IF Contains(dhead, b)
                   THEN dlog[CHOOSE i \in 1..Len(dhead) : dhead[i] = b]
                   ELSE home[b]]

AD == INSTANCE AtomicDisk WITH
        stable <- recovered,
        current <- IF step \in {"boot", "recover", "erase"} THEN recovered
                                                            ELSE cache,
        active <- outstanding

(* A crash at any step of a commit or of a recovery leaves either all the  *)
(* blocks of the group of operations or none, and never a block of an      *)
(* operation that had not called end_op.                                   *)
CrashAtomic == AD!Spec

(* Once the last end_op has returned nothing is left to lose: the home     *)
(* locations hold what the operations wrote and the log is empty.          *)
Durable ==
  step = "none" /\ outstanding = 0 => home = cache /\ dhead = <<>> /\ lh = <<>>

(* The data blocks of a transaction fit between the log's header and the   *)
(* first inode block, although log_write tests the size without log.lock.  *)
LogFits == Len(lh) <= nlog - 1 /\ Len(lh) <= LOGSIZE

(* No panic of log.c is reached ("too big a transaction", "log_write       *)
(* outside of trans", "log.committing").                                   *)
NoPanic == ~panic

(* An operation sleeps in begin_op only while the reason lasts: no wakeup  *)
(* of end_op is lost.                                                      *)
SleepJustified ==
  \A o \in Op : pc[o] = "asleep" => mustWait

(* Not everyone waits for everyone: while an operation sleeps in begin_op, *)
(* another one is inside its transaction or commits, and its end_op still  *)
(* has a wakeup to call.                                                   *)
WakerExists ==
  \A o \in Op : pc[o] = "asleep" =>
    \E q \in Op : pc[q] \in {"op", "write", "commit"}
=============================================================================
