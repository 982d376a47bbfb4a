-------------------------------- MODULE Bfs --------------------------------
(***************************************************************************)
(* The constants of the BFS policy (bfs.h) and the two pure operators the  *)
(* scheduler and its run queue share: the virtual deadline given to a      *)
(* process, and the processes a run queue may hand to the CPU.             *)
(***************************************************************************)
EXTENDS Integers

CONSTANTS
  NICE_FIRST_LEVEL,     \* lowest nice value (most urgent)
  NICE_LAST_LEVEL,      \* highest nice value
  BFS_DEFAULT_QUANTUM   \* ticks a process runs before it must yield

ASSUME BfsAssumption ==
  /\ NICE_FIRST_LEVEL \in Int
  /\ NICE_LAST_LEVEL \in Int
  /\ NICE_FIRST_LEVEL <= 0
  /\ 0 <= NICE_LAST_LEVEL
  /\ BFS_DEFAULT_QUANTUM \in Nat \ {0}

Nice == NICE_FIRST_LEVEL .. NICE_LAST_LEVEL

computevd(nice_value, curr_ticks) ==
  curr_ticks + (nice_value - NICE_FIRST_LEVEL + 1) * BFS_DEFAULT_QUANTUM

(* The members of a run queue that no other member precedes by deadline.   *)
Earliest(procs, deadline) ==
  {p \in procs : \A q \in procs : deadline[p] <= deadline[q]}
=============================================================================
