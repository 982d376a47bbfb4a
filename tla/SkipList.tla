------------------------------ MODULE SkipList ------------------------------
(***************************************************************************)
(* The run queue of proc.c at the level of its memory: LEVELS arrays of    *)
(* NPROC + 1 nodes inside ptable, node 0 of each level being its head, the *)
(* others handed out to processes, linked by prev, next and lower.  insert *)
(* and delete run under ptable.lock with interrupts off, so each is one    *)
(* step; the dice that decide the height of a tower are the choice of h.   *)
(***************************************************************************)
EXTENDS Integers, Sequences, SequencesExt, FiniteSets

CONSTANTS
  Proc,       \* the slots of ptable.proc
  LEVELS,     \* number of levels
  Deadline,   \* the virtual deadlines callers set
  Stray,      \* how a read at address 0 may go wrong: "match", "fault"
  NULL        \* the null pointer

ASSUME StrayAssumption == Stray \subseteq {"match", "fault"}

NPROC == Cardinality(Proc)

VARIABLES
  level,                \* ptable.level
  virt_deadline,        \* proc->virt_deadline
  max_skiplist_level,   \* proc->max_skiplist_level
  panicked              \* a panic() of insert or delete was reached

vars == <<level, virt_deadline, max_skiplist_level, panicked>>

Addr == (0..(LEVELS - 1)) \X (0..NPROC)

head(l) == <<l, 0>>

FreeNode == [proc |-> NULL, prev |-> NULL, next |-> NULL, lower |-> NULL]

pinit == [a \in Addr |-> FreeNode]

(***************************************************************************)
(* The descent that insert and delete share: the last node of each level   *)
(* from l down whose deadline is smaller than d, as a function on 0..l, or *)
(* NULL when a node above level 0 has no lower (both functions panic).     *)
(***************************************************************************)
RECURSIVE placement(_, _, _)
placement(curr, l, d) ==
  LET next == level[curr].next
      below == IF level[curr].proc = NULL THEN head(l - 1)
                                          ELSE level[curr].lower
  IN  IF next # NULL /\ virt_deadline[level[next].proc] < d
      THEN placement(next, l, d)
      ELSE IF l = 0 THEN [i \in {0} |-> curr]
      ELSE IF below = NULL THEN NULL
      ELSE LET rest == placement(below, l - 1, d)
           IN  IF rest = NULL THEN NULL
               ELSE [i \in 0..l |-> IF i = l THEN curr ELSE rest[i]]

(* Mutants: a new process goes behind the others with its deadline, or one *)
(* tick before its place.                                                  *)
placementsAfterEqual(d) == placement(head(LEVELS - 1), LEVELS - 1, d + 1)
placementsEarly(d) == placement(head(LEVELS - 1), LEVELS - 1, d - 1)

placements(d) == placement(head(LEVELS - 1), LEVELS - 1, d)

(* Mutant: the search for an unallocated node starts at index 2.           *)
unallocatedFromTwo(nodes, l) == {i \in 2..NPROC : nodes[<<l, i>>].proc = NULL}

(* The unallocated nodes of level l, which insert searches from index 1.   *)
unallocated(nodes, l) == {i \in 1..NPROC : nodes[<<l, i>>].proc = NULL}

(* Mutant: the node that follows keeps its old prev.                       *)
linkForward(nodes, at, node, p, lower) ==
  [nodes EXCEPT ![node] = [proc |-> p, prev |-> at, next |-> nodes[at].next,
                           lower |-> lower],
                ![at].next = node]

(* Link a node for p after node at of level l, over the node lower.        *)
link(nodes, at, node, p, lower) ==
  LET next == nodes[at].next
      new  == [proc |-> p, prev |-> at, next |-> next, lower |-> lower]
      linked == [nodes EXCEPT ![node] = new, ![at].next = node]
  IN  IF next = NULL THEN linked ELSE [linked EXCEPT ![next].prev = node]

(* The tower of p from level l up to level h - 1; NULL is insert's panic.  *)
RECURSIVE tower(_, _, _, _, _, _)
tower(nodes, place, p, l, h, lower) ==
  IF l = h THEN nodes
  ELSE LET free == unallocated(nodes, l)
           node == <<l, CHOOSE i \in free : \A j \in free : i <= j>>
       IN  IF free = {} THEN NULL
           ELSE tower(link(nodes, place[l], node, p, lower),
                      place, p, l + 1, h, node)

(* Mutant: the coin that ends a tower is counted as one more level.        *)
insertOvercounts(p, d, h) ==
  LET place == placements(d)
  IN  /\ virt_deadline' = [virt_deadline EXCEPT ![p] = d]
      /\ level' = tower(level, place, p, 0, h, NULL)
      /\ max_skiplist_level' = [max_skiplist_level EXCEPT ![p] = h + 1]
      /\ UNCHANGED panicked

(* insert(ptable, p) for a process whose caller set the deadline to d.     *)
insert(p, d, h) ==
  LET place == placements(d)
      nodes == tower(level, place, p, 0, h, NULL)
  IN  /\ virt_deadline' = [virt_deadline EXCEPT ![p] = d]
      /\ IF place = NULL \/ nodes = NULL
         THEN panicked' = TRUE /\ UNCHANGED <<level, max_skiplist_level>>
         ELSE /\ level' = nodes
              /\ max_skiplist_level' = [max_skiplist_level EXCEPT ![p] = h]
              /\ UNCHANGED panicked
-----------------------------------------------------------------------------
(* From node curr, go right over equal deadlines until p is met.           *)
RECURSIVE along(_, _)
along(curr, p) ==
  LET next == level[curr].next
  IN  IF /\ next # NULL
         /\ virt_deadline[level[next].proc] = virt_deadline[p]
         /\ level[curr].proc # p
      THEN along(next, p)
      ELSE curr

(* Mutant: delete only looks at the lowest level.                          *)
foundOnLowest(place, p) == {l \in {0} : level[along(place[l], p)].proc = p}

(* The levels on which the walk from the placement ends at p.              *)
foundOn(place, p) ==
  {l \in 0..(LEVELS - 1) : level[along(place[l], p)].proc = p}

(* Mutant: delete does not mark the node unallocated.                      *)
freedKeepsProc(nodes, curr) ==
  [nodes EXCEPT ![curr] = [FreeNode EXCEPT !.proc = nodes[curr].proc]]

(* A node delete has unlinked is unallocated again.                        *)
freed(nodes, curr) == [nodes EXCEPT ![curr] = FreeNode]

(* Unlink curr and every node below it; NULL is delete's panic.            *)
RECURSIVE unlink(_, _)
unlink(nodes, curr) ==
  IF curr = NULL THEN nodes
  ELSE LET n == nodes[curr]
           cut == [nodes EXCEPT ![n.prev].next = n.next]
           mended == IF n.next = NULL THEN cut
                     ELSE [cut EXCEPT ![n.next].prev = n.prev]
       IN  IF n.prev = NULL THEN NULL
           ELSE unlink(freed(mended, curr), n.lower)

(***************************************************************************)
(* Where the descent leaves curr.  delete's search tests curr->proc before *)
(* it has loaded the first placement, so it looks at this pointer: NULL,   *)
(* the lower of a node of level 0, or the head of a level -1, outside the  *)
(* array, when no listed process has an earlier deadline.                  *)
(***************************************************************************)
leftover(place) ==
  IF level[place[0]].proc = NULL THEN head(-1) ELSE level[place[0]].lower

(* How that test may turn out.  Address 0 is the first word of the running *)
(* program, which may have any value, also that of the pointer delete      *)
(* compares it with, and which is not mapped once sbrk has given all       *)
(* memory back.  The other word lies in cpus, which the linker puts before *)
(* ptable, in a task state that nobody writes.                             *)
strayTest(place) ==
  {"differ"} \cup IF place # NULL /\ leftover(place) = NULL THEN Stray ELSE {}

(* The read faults in the kernel, or it matches and what delete unlinks is *)
(* no node: its prev may be 0, a panic, or the stores go elsewhere, and p  *)
(* is said to be absent while it is still listed.                          *)
unlinkStray(p, test) ==
  /\ panicked' \in {TRUE, test = "fault"}
  /\ max_skiplist_level' = IF panicked' THEN max_skiplist_level
                           ELSE [max_skiplist_level EXCEPT ![p] = -1]
  /\ UNCHANGED level

(* delete found p on a level, or on none of them.                          *)
unlinkFound(p, place) ==
  LET found == foundOn(place, p)
      top   == CHOOSE l \in found : \A m \in found : m <= l
      nodes == unlink(level, along(place[top], p))
  IN  IF place = NULL \/ found = {} \/ nodes = NULL
      THEN panicked' = TRUE /\ UNCHANGED <<level, max_skiplist_level>>
      ELSE /\ level' = nodes
           /\ max_skiplist_level' = [max_skiplist_level EXCEPT ![p] = -1]
           /\ UNCHANGED panicked

(* delete(ptable, p): after its test of the leftover pointer, the search   *)
(* goes through the placements from the top level down and takes the first *)
(* level that reaches p.                                                   *)
delete(p) ==
  LET place == placements(virt_deadline[p])
  IN  /\ \E test \in strayTest(place) :
           IF test = "differ" THEN unlinkFound(p, place)
                              ELSE unlinkStray(p, test)
      /\ UNCHANGED virt_deadline
-----------------------------------------------------------------------------
(* The processes linked on level l, from the head on.                      *)
RECURSIVE walk(_)
walk(a) == IF a = NULL THEN <<>> ELSE <<level[a].proc>> \o walk(level[a].next)

listed(l) == walk(level[head(l)].next)

queue == listed(0)

(* ptable is zero-filled memory until pinit runs.                          *)
Init ==
  /\ level = pinit
  /\ virt_deadline = [p \in Proc |-> 0]
  /\ max_skiplist_level = [p \in Proc |-> 0]
  /\ panicked = FALSE

(* Callers insert a process that is not listed, with any deadline.         *)
Insert == \E p \in Proc, d \in Deadline, h \in 1..LEVELS :
            ~panicked /\ ~Contains(queue, p) /\ insert(p, d, h)

(* Callers delete a process that is listed.                                *)
Delete == \E p \in Proc : ~panicked /\ Contains(queue, p) /\ delete(p)

Next == Insert \/ Delete

Spec == Init /\ [][Next]_vars
-----------------------------------------------------------------------------
TypeOK ==
  /\ level \in [Addr -> [proc : Proc \cup {NULL}, prev : Addr \cup {NULL},
                         next : Addr \cup {NULL}, lower : Addr \cup {NULL}]]
  /\ virt_deadline \in [Proc -> Deadline \cup {0}]
  /\ max_skiplist_level \in [Proc -> -1..LEVELS]
  /\ panicked \in BOOLEAN

(* After any mix of inserts and deletes, every allocated node is reachable *)
(* both ways from its neighbours and stands on a node of the same process  *)
(* one level down; delete walks prev, next and lower without looking.      *)
LinksConsistent ==
  \A a \in {b \in Addr : level[b].proc # NULL} :
    LET n == level[a]
    IN  /\ n.prev # NULL /\ level[n.prev].next = a
        /\ n.next # NULL => level[n.next].prev = a
        /\ IF a[1] = 0 THEN n.lower = NULL
           ELSE /\ n.lower # NULL /\ n.lower[1] = a[1] - 1
                /\ level[n.lower].proc = n.proc

(* Each level lists, in run queue order, exactly the processes whose tower *)
(* reaches it.  This is what makes the descent from the top level end at   *)
(* the right place on level 0, also among equal deadlines.                 *)
LevelsNested ==
  \A l \in 0..(LEVELS - 1) :
    listed(l) = SelectSeq(queue, LAMBDA p : max_skiplist_level[p] > l)

(* Nodes are neither leaked nor shared: the allocated nodes of a level are *)
(* as many as the processes it lists, and the others are as pinit left     *)
(* them, so the search for an unallocated node cannot run off the array.   *)
NoNodeLeaked ==
  \A l \in 0..(LEVELS - 1) :
    /\ NPROC - Cardinality(unallocated(level, l)) = Len(listed(l))
    /\ \A i \in unallocated(level, l) : level[<<l, i>>] = FreeNode

(* None of the panics of insert and delete is reachable ("above level 0    *)
(* with no lower", "deletion search beyond lowest level", "somehow         *)
(* deleting node with no set previous", "not enough memory").  It holds    *)
(* as long as a read at address 0 neither faults nor finds the process     *)
(* (Stray = {}): delete's search does not begin at a placement.            *)
NoPanic == ~panicked

RQ == INSTANCE RunQueue

(* The skip list implements the ordered run queue: level 0 changes by one  *)
(* insertion in front of equal deadlines, or one removal of the named      *)
(* process, and stays ordered.                                             *)
ImplementsRunQueue == RQ!Spec

(* scheduler() takes the first node of level 0: no listed process has an   *)
(* earlier deadline.                                                       *)
HeadIsEarliest == RQ!HeadIsEarliest
=============================================================================
