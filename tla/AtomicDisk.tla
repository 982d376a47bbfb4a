----------------------------- MODULE AtomicDisk -----------------------------
(***************************************************************************)
(* What the log of log.c promises to the file system: operations that      *)
(* overlap form a group, a group reaches the disk as a whole or not at     *)
(* all, and never while one of its operations is still running.            *)
(***************************************************************************)
EXTENDS Integers

CONSTANTS Block, Val

VARIABLES
  stable,    \* the blocks as a restart would find them
  current,   \* the blocks as running operations see them
  active     \* operations between begin_op and end_op

vars == <<stable, current, active>>

Init ==
  /\ stable \in [Block -> Val]
  /\ current = stable
  /\ active = 0

Begin == active' = active + 1 /\ UNCHANGED <<stable, current>>

Write(b, v) ==
  /\ active > 0
  /\ current' = [current EXCEPT ![b] = v]
  /\ UNCHANGED <<stable, active>>

End == active > 0 /\ active' = active - 1 /\ UNCHANGED <<stable, current>>

Commit == active = 0 /\ stable' = current /\ UNCHANGED <<current, active>>

Crash == current' = stable /\ active' = 0 /\ UNCHANGED stable

Next ==
  \/ Begin \/ End \/ Commit \/ Crash
  \/ \E b \in Block, v \in Val : Write(b, v)

Spec == Init /\ [][Next]_vars
=============================================================================
