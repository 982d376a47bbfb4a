------------------------------ MODULE RunQueue ------------------------------
(***************************************************************************)
(* What the run queue of proc.c promises to its callers: a list of         *)
(* processes ordered by virtual deadline, a newly inserted process going   *)
(* in front of those whose deadline equals its own (the descent of insert  *)
(* passes only strictly smaller deadlines), and deletion removing exactly  *)
(* the named process.  SkipList implements this with linked towers.        *)
(***************************************************************************)
EXTENDS Integers, Sequences, SequencesExt

CONSTANT Proc     \* the slots of ptable.proc

VARIABLES
  queue,          \* the processes of level 0, in list order
  virt_deadline   \* proc->virt_deadline

vars == <<queue, virt_deadline>>

Queued == {queue[i] : i \in 1..Len(queue)}

(* The place where the descent of insert stops for deadline d: everything  *)
(* before it has a smaller deadline, the process at it (if any) does not.  *)
StopsAt(k, d) ==
  /\ \A i \in 1..(k - 1) : virt_deadline[queue[i]] < d
  /\ k <= Len(queue) => virt_deadline[queue[k]] >= d

(* Callers set the deadline of a process only while it is not queued.      *)
QueuedDeadlinesKept ==
  /\ virt_deadline' \in [Proc -> Int]
  /\ \A q \in Queued : virt_deadline'[q] = virt_deadline[q]

Init ==
  /\ queue = <<>>
  /\ virt_deadline \in [Proc -> Int]

Insert(p) ==
  /\ p \notin Queued
  /\ QueuedDeadlinesKept
  /\ \E k \in 1..(Len(queue) + 1) :
       /\ StopsAt(k, virt_deadline'[p])
       /\ queue' = InsertAt(queue, k, p)

Delete(p) ==
  /\ \E k \in 1..Len(queue) :
       /\ queue[k] = p
       /\ queue' = RemoveAt(queue, k)
  /\ QueuedDeadlinesKept

Next == \E p \in Proc : Insert(p) \/ Delete(p)

Spec == Init /\ [][Next]_vars
-----------------------------------------------------------------------------
TypeOK ==
  /\ queue \in Seq(Proc)
  /\ virt_deadline \in [Proc -> Int]

(* No process occurs twice in the run queue, however inserts and deletes   *)
(* are mixed: insert (proc.c) never looks whether the process is there.    *)
NoDuplicates ==
  \A i, j \in 1..Len(queue) : queue[i] = queue[j] => i = j

(* The run queue is ordered by virtual deadline, which is what lets        *)
(* scheduler() take the first node of level 0 without looking further.     *)
Sorted ==
  \A i, j \in 1..Len(queue) :
    i <= j => virt_deadline[queue[i]] <= virt_deadline[queue[j]]

(* The first process of a non-empty run queue is one that no other queued  *)
(* process precedes by deadline.                                           *)
HeadIsEarliest ==
  queue # <<>> =>
    \A q \in Queued : virt_deadline[queue[1]] <= virt_deadline[q]
=============================================================================
