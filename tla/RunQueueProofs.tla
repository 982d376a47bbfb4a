--------------------------- MODULE RunQueueProofs ---------------------------
(***************************************************************************)
(* The run queue keeps its order and holds each process at most once, for  *)
(* every set of processes and all integer deadlines.                       *)
(***************************************************************************)
EXTENDS RunQueue, SequenceTheorems, TLAPS

(* The provers to try on a step, and how long each of them may take.       *)
USE SMTT(60), SMTT(75), ZenonT(60), SMTT(90)

(* Inserting at k moves the elements from k on one place to the right.     *)
LEMMA InsertAtShape ==
  ASSUME NEW S, NEW s \in Seq(S), NEW e \in S, NEW k \in 1..(Len(s) + 1)
  PROVE  /\ InsertAt(s, k, e) \in Seq(S)
         /\ Len(InsertAt(s, k, e)) = Len(s) + 1
         /\ \A i \in 1..(Len(s) + 1) :
              InsertAt(s, k, e)[i] = IF i < k THEN s[i]
                                     ELSE IF i = k THEN e ELSE s[i - 1]
<1> DEFINE front == SubSeq(s, 1, k - 1)
           back  == SubSeq(s, k, Len(s))
<1>0. /\ Len(s) \in Nat
      /\ \A i \in 1..Len(s) : s[i] \in S
  BY LenProperties, ElementOfSeq
<1>1. /\ front \in Seq(S)
      /\ Len(front) = k - 1
      /\ \A i \in 1..(k - 1) : front[i] = s[i]
  <2>1. \A i \in 1..(k - 1) : s[i] \in S
    BY <1>0
  <2>2. /\ front \in Seq(S)
        /\ Len(front) = IF 1 <= k - 1 THEN (k - 1) - 1 + 1 ELSE 0
        /\ \A i \in 1..((k - 1) - 1 + 1) : front[i] = s[1 + i - 1]
    BY <2>1, SubSeqProperties
  <2> HIDE DEF front
  <2> QED BY <2>2
<1>2. /\ back \in Seq(S)
      /\ Len(back) = Len(s) - k + 1
      /\ \A i \in 1..(Len(s) - k + 1) : back[i] = s[k + i - 1]
  <2>1. \A i \in k..Len(s) : s[i] \in S
    BY <1>0
  <2>2. /\ back \in Seq(S)
        /\ Len(back) = IF k <= Len(s) THEN Len(s) - k + 1 ELSE 0
        /\ \A i \in 1..(Len(s) - k + 1) : back[i] = s[k + i - 1]
    BY <1>0, <2>1, SubSeqProperties
  <2> HIDE DEF back
  <2> QED BY <1>0, <2>2
<1>3. <<e>> \in Seq(S) /\ Len(<<e>>) = 1 /\ <<e>>[1] = e
  OBVIOUS
<1> HIDE DEF front, back
<1>4. /\ front \o <<e>> \in Seq(S)
      /\ Len(front \o <<e>>) = k
      /\ \A i \in 1..k : (front \o <<e>>)[i] = IF i < k THEN s[i] ELSE e
  BY <1>1, <1>3, ConcatProperties
<1> DEFINE head == front \o <<e>>
<1> HIDE DEF head
<1>5. /\ head \o back \in Seq(S)
      /\ Len(head \o back) = Len(head) + Len(back)
      /\ \A i \in 1..(Len(head) + Len(back)) :
           (head \o back)[i] = IF i <= Len(head) THEN head[i]
                                                 ELSE back[i - Len(head)]
  <2>1. head \in Seq(S)
    BY <1>4 DEF head
  <2> QED BY ZenonT(60), <1>2, <2>1, ConcatProperties
<1>6. InsertAt(s, k, e) = head \o back
  BY DEF InsertAt, head, front, back
<1>7. /\ Len(head) = k
      /\ \A i \in 1..k : head[i] = IF i < k THEN s[i] ELSE e
  BY <1>4 DEF head
<1>8. \A i \in (k + 1)..(Len(s) + 1) : back[i - k] = s[i - 1]
  BY <1>0, <1>2
<1> QED BY <1>0, <1>2, <1>5, <1>6, <1>7, <1>8

(* Removing at k moves the elements after k one place to the left.         *)
LEMMA RemoveAtShape ==
  ASSUME NEW S, NEW s \in Seq(S), NEW k \in 1..Len(s)
  PROVE  /\ RemoveAt(s, k) \in Seq(S)
         /\ Len(RemoveAt(s, k)) = Len(s) - 1
         /\ \A i \in 1..(Len(s) - 1) :
              RemoveAt(s, k)[i] = IF i < k THEN s[i] ELSE s[i + 1]
<1> DEFINE front == SubSeq(s, 1, k - 1)
           back  == SubSeq(s, k + 1, Len(s))
<1>0. /\ Len(s) \in Nat
      /\ \A i \in 1..Len(s) : s[i] \in S
  BY LenProperties, ElementOfSeq
<1>1. /\ front \in Seq(S)
      /\ Len(front) = k - 1
      /\ \A i \in 1..(k - 1) : front[i] = s[i]
  <2>1. \A i \in 1..(k - 1) : s[i] \in S
    BY <1>0
  <2>2. /\ front \in Seq(S)
        /\ Len(front) = IF 1 <= k - 1 THEN (k - 1) - 1 + 1 ELSE 0
        /\ \A i \in 1..((k - 1) - 1 + 1) : front[i] = s[1 + i - 1]
    BY <2>1, SubSeqProperties
  <2> HIDE DEF front
  <2> QED BY <2>2
<1>2. /\ back \in Seq(S)
      /\ Len(back) = Len(s) - k
      /\ \A i \in 1..(Len(s) - k) : back[i] = s[k + i]
  <2>1. \A i \in (k + 1)..Len(s) : s[i] \in S
    BY <1>0
  <2>2. /\ back \in Seq(S)
        /\ Len(back) = IF k + 1 <= Len(s) THEN Len(s) - (k + 1) + 1 ELSE 0
        /\ \A i \in 1..(Len(s) - (k + 1) + 1) : back[i] = s[(k + 1) + i - 1]
    BY <1>0, <2>1, SubSeqProperties
  <2> HIDE DEF back
  <2> QED BY <1>0, <2>2
<1> HIDE DEF front, back
<1>3. /\ front \o back \in Seq(S)
      /\ Len(front \o back) = Len(front) + Len(back)
      /\ \A i \in 1..(Len(front) + Len(back)) :
           (front \o back)[i] = IF i <= Len(front) THEN front[i]
                                                   ELSE back[i - Len(front)]
  BY ZenonT(60), <1>1, <1>2, ConcatProperties
<1>4. RemoveAt(s, k) = front \o back
  BY DEF RemoveAt, front, back
<1>5. \A i \in k..(Len(s) - 1) : back[i - (k - 1)] = s[i + 1]
  <2> TAKE i \in k..(Len(s) - 1)
  <2>1. i - (k - 1) \in 1..(Len(s) - k) /\ k + (i - (k - 1)) = i + 1
    BY <1>0
  <2> QED BY <1>2, <2>1
<1>6. /\ Len(front) + Len(back) = Len(s) - 1
      /\ Len(front) = k - 1
  BY <1>0, <1>1, <1>2
<1>7. ASSUME NEW i \in 1..(Len(s) - 1)
      PROVE  (front \o back)[i] = IF i < k THEN s[i] ELSE s[i + 1]
  <2>1. CASE i < k
    BY <1>0, <1>1, <1>3, <1>6, <2>1
  <2>2. CASE ~(i < k)
    <3>1. i \in k..(Len(s) - 1)
      BY <1>0, <2>2
    <3>2. (front \o back)[i] = back[i - (k - 1)]
      BY <1>0, <1>3, <1>6, <2>2
    <3> QED BY <1>5, <2>2, <3>1, <3>2
  <2> QED BY ZenonT(60), <2>1, <2>2
<1> QED BY <1>3, <1>4, <1>6, <1>7
-----------------------------------------------------------------------------
IInv == TypeOK /\ NoDuplicates /\ Sorted

(* insert keeps the queue a duplicate-free, ordered list.                  *)
LEMMA InsertKeepsOrder ==
  ASSUME NEW p \in Proc, IInv, Insert(p)
  PROVE  IInv'
<1>0. /\ queue \in Seq(Proc)
      /\ Len(queue) \in Nat
      /\ virt_deadline \in [Proc -> Int]
      /\ virt_deadline' \in [Proc -> Int]
      /\ \A i \in 1..Len(queue) : queue[i] \in Proc
      /\ \A i \in 1..Len(queue) : queue[i] # p
      /\ \A i \in 1..Len(queue) :
           virt_deadline'[queue[i]] = virt_deadline[queue[i]]
  BY LenProperties, ElementOfSeq
     DEF IInv, TypeOK, Insert, QueuedDeadlinesKept, Queued
<1>len. Len(queue) \in Nat
  BY ZenonT(60), <1>0
<1>int. \A i \in 1..Len(queue) : virt_deadline[queue[i]] \in Int
  BY ZenonT(60), <1>0
<1>1. PICK k \in 1..(Len(queue) + 1) :
        /\ StopsAt(k, virt_deadline'[p])
        /\ queue' = InsertAt(queue, k, p)
  BY DEF Insert
<1> DEFINE d == virt_deadline'[p]
<1>2. /\ d \in Int
      /\ \A i \in 1..(k - 1) : virt_deadline[queue[i]] < d
      /\ k <= Len(queue) => virt_deadline[queue[k]] >= d
  BY <1>0, <1>1 DEF StopsAt
<1>3. /\ queue' \in Seq(Proc)
      /\ Len(queue') = Len(queue) + 1
      /\ \A i \in 1..(Len(queue) + 1) :
           queue'[i] = IF i < k THEN queue[i]
                       ELSE IF i = k THEN p ELSE queue[i - 1]
  <2>1. /\ InsertAt(queue, k, p) \in Seq(Proc)
        /\ Len(InsertAt(queue, k, p)) = Len(queue) + 1
        /\ \A i \in 1..(Len(queue) + 1) :
             InsertAt(queue, k, p)[i] = IF i < k THEN queue[i]
                                        ELSE IF i = k THEN p ELSE queue[i - 1]
    BY <1>0, InsertAtShape
  <2> QED BY <1>1, <2>1
<1> HIDE DEF d
<1>4. TypeOK'
  BY <1>0, <1>3 DEF TypeOK
<1> DEFINE src(n) == IF n < k THEN n ELSE n - 1
<1>src. \A n \in 1..(Len(queue) + 1) :
          n # k => /\ src(n) \in 1..Len(queue)
                   /\ queue'[n] = queue[src(n)]
                   /\ virt_deadline'[queue'[n]] = virt_deadline[queue[src(n)]]
                   /\ virt_deadline[queue[src(n)]] \in Int
  <2> TAKE n \in 1..(Len(queue) + 1)
  <2> HAVE n # k
  <2>1. src(n) \in 1..Len(queue)
    BY <1>len
  <2>2. CASE n < k
    BY ZenonT(60), <1>0, <1>3, <2>1, <2>2
  <2>3. CASE ~(n < k)
    <3>1. queue'[n] = queue[n - 1] /\ src(n) = n - 1
      BY <1>3, <2>3
    <3> HIDE DEF src
    <3> QED BY ZenonT(60), <1>0, <1>int, <2>1, <3>1
  <2> QED BY <2>2, <2>3
<1>mon. \A m, n \in 1..(Len(queue) + 1) :
          /\ m # k /\ n # k /\ m <= n => src(m) <= src(n)
          /\ m # k /\ n # k /\ src(m) = src(n) => m = n
  BY <1>len
<1>at. queue'[k] = p /\ virt_deadline'[queue'[k]] = d
  BY <1>3 DEF d
<1>5. NoDuplicates'
  <2> SUFFICES ASSUME NEW i \in 1..(Len(queue) + 1),
                      NEW j \in 1..(Len(queue) + 1), queue'[i] = queue'[j]
               PROVE  i = j
    BY <1>3 DEF NoDuplicates
  <2> HIDE DEF src
  <2>1. CASE i # k /\ j # k
    <3>1. src(i) = src(j)
      BY <1>src, <2>1 DEF IInv, NoDuplicates
    <3> QED BY <1>mon, <2>1, <3>1
  <2>2. CASE i # k /\ j = k
    BY ZenonT(60), <1>0, <1>src, <1>at, <2>2
  <2>3. CASE i = k /\ j # k
    BY ZenonT(60), <1>0, <1>src, <1>at, <2>3
  <2> QED BY <2>1, <2>2, <2>3
<1>6. \A i \in k..Len(queue) : virt_deadline[queue[i]] >= d
  <2> TAKE i \in k..Len(queue)
  <2>1. k \in 1..Len(queue) /\ i \in 1..Len(queue) /\ k <= i /\ k <= Len(queue)
    BY <1>len
  <2>2. virt_deadline[queue[k]] <= virt_deadline[queue[i]]
    BY <2>1 DEF IInv, Sorted
  <2>3. virt_deadline[queue[k]] \in Int /\ virt_deadline[queue[i]] \in Int
    BY ZenonT(60), <1>int, <2>1
  <2>4. virt_deadline[queue[k]] >= d /\ d \in Int
    BY ZenonT(60), <1>2, <2>1
  <2> QED BY <2>2, <2>3, <2>4
<1>7. Sorted'
  <2> SUFFICES ASSUME NEW i \in 1..(Len(queue) + 1),
                      NEW j \in 1..(Len(queue) + 1), i <= j
               PROVE  virt_deadline'[queue'[i]] <= virt_deadline'[queue'[j]]
    BY <1>3 DEF Sorted
  <2>1. CASE i # k /\ j # k
    <3> HIDE DEF src
    <3>1. virt_deadline[queue[src(i)]] <= virt_deadline[queue[src(j)]]
      BY <1>src, <1>mon, <2>1 DEF IInv, Sorted
    <3> QED BY <1>src, <2>1, <3>1
  <2>2. CASE i < k /\ j = k
    <3>1. src(i) = i /\ i \in 1..(k - 1)
      BY <2>2
    <3> HIDE DEF src
    <3> QED BY <1>src, <1>at, <1>2, <2>2, <3>1
  <2>3. CASE i = k /\ j > k
    <3>1. src(j) \in k..Len(queue)
      BY <1>len, <2>3
    <3> HIDE DEF src
    <3> QED BY <1>src, <1>at, <1>2, <1>6, <2>3, <3>1
  <2>4. CASE i = k /\ j = k
    BY <1>2, <1>at, <2>4
  <2> QED BY <1>len, <2>1, <2>2, <2>3, <2>4
<1> QED BY <1>4, <1>5, <1>7 DEF IInv

(* delete keeps the queue a duplicate-free, ordered list.                  *)
LEMMA DeleteKeepsOrder ==
  ASSUME NEW p \in Proc, IInv, Delete(p)
  PROVE  IInv'
<1>0. /\ queue \in Seq(Proc)
      /\ Len(queue) \in Nat
      /\ virt_deadline \in [Proc -> Int]
      /\ virt_deadline' \in [Proc -> Int]
      /\ \A i \in 1..Len(queue) : queue[i] \in Proc
      /\ \A i \in 1..Len(queue) :
           virt_deadline'[queue[i]] = virt_deadline[queue[i]]
  BY LenProperties, ElementOfSeq
     DEF IInv, TypeOK, Delete, QueuedDeadlinesKept, Queued
<1>len. Len(queue) \in Nat
  BY ZenonT(60), <1>0
<1>1. PICK k \in 1..Len(queue) : queue' = RemoveAt(queue, k)
  BY DEF Delete
<1>2. /\ queue' \in Seq(Proc)
      /\ Len(queue') = Len(queue) - 1
      /\ \A i \in 1..(Len(queue) - 1) :
           queue'[i] = IF i < k THEN queue[i] ELSE queue[i + 1]
  <2>1. /\ RemoveAt(queue, k) \in Seq(Proc)
        /\ Len(RemoveAt(queue, k)) = Len(queue) - 1
        /\ \A i \in 1..(Len(queue) - 1) :
             RemoveAt(queue, k)[i] = IF i < k THEN queue[i] ELSE queue[i + 1]
    BY <1>0, RemoveAtShape
  <2> QED BY <1>1, <2>1
<1>3. TypeOK'
  BY <1>0, <1>2 DEF TypeOK
<1> DEFINE src(n) == IF n < k THEN n ELSE n + 1
<1>src. \A n \in 1..(Len(queue) - 1) :
          /\ src(n) \in 1..Len(queue)
          /\ queue'[n] = queue[src(n)]
          /\ virt_deadline'[queue'[n]] = virt_deadline[queue[src(n)]]
  <2> TAKE n \in 1..(Len(queue) - 1)
  <2>1. src(n) \in 1..Len(queue)
    BY <1>len
  <2>2. queue'[n] = queue[src(n)]
    BY <1>2
  <2> HIDE DEF src
  <2>3. virt_deadline'[queue[src(n)]] = virt_deadline[queue[src(n)]]
    BY ZenonT(60), <1>0, <2>1
  <2> QED BY <2>1, <2>2, <2>3
<1>mon. \A m, n \in 1..(Len(queue) - 1) :
          /\ m <= n => src(m) <= src(n)
          /\ src(m) = src(n) => m = n
  BY <1>len
<1> HIDE DEF src
<1>4. NoDuplicates'
  <2> SUFFICES ASSUME NEW i \in 1..(Len(queue) - 1),
                      NEW j \in 1..(Len(queue) - 1), queue'[i] = queue'[j]
               PROVE  i = j
    BY <1>2 DEF NoDuplicates
  <2>1. src(i) = src(j)
    BY <1>src DEF IInv, NoDuplicates
  <2> QED BY <1>mon, <2>1
<1>5. Sorted'
  <2> SUFFICES ASSUME NEW i \in 1..(Len(queue) - 1),
                      NEW j \in 1..(Len(queue) - 1), i <= j
               PROVE  virt_deadline'[queue'[i]] <= virt_deadline'[queue'[j]]
    BY <1>2 DEF Sorted
  <2>1. virt_deadline[queue[src(i)]] <= virt_deadline[queue[src(j)]]
    BY <1>src, <1>mon DEF IInv, Sorted
  <2> QED BY <1>src, <2>1
<1> QED BY <1>3, <1>4, <1>5 DEF IInv

(* The run queue of proc.c is always a duplicate-free list in deadline     *)
(* order, so the node scheduler() takes carries an earliest deadline.      *)
THEOREM QueueOrdered == Spec => [](NoDuplicates /\ Sorted /\ HeadIsEarliest)
<1>1. Init => IInv
  BY DEF Init, IInv, TypeOK, NoDuplicates, Sorted
<1>2. IInv /\ [Next]_vars => IInv'
  <2> SUFFICES ASSUME IInv, [Next]_vars PROVE IInv'
    OBVIOUS
  <2>1. ASSUME NEW p \in Proc, Insert(p) PROVE IInv'
    BY <2>1, InsertKeepsOrder
  <2>2. ASSUME NEW p \in Proc, Delete(p) PROVE IInv'
    BY <2>2, DeleteKeepsOrder
  <2>3. CASE UNCHANGED vars
    BY <2>3 DEF vars, IInv, TypeOK, NoDuplicates, Sorted
  <2> QED BY <2>1, <2>2, <2>3 DEF Next
<1>3. IInv => NoDuplicates /\ Sorted /\ HeadIsEarliest
  <2> SUFFICES ASSUME IInv, queue # <<>>, NEW i \in 1..Len(queue)
               PROVE  virt_deadline[queue[1]] <= virt_deadline[queue[i]]
    BY DEF IInv, HeadIsEarliest, Queued
  <2>1. Len(queue) \in Nat /\ 1 \in 1..Len(queue) /\ 1 <= i
    BY LenProperties DEF IInv, TypeOK
  <2> QED BY <2>1 DEF IInv, Sorted
<1> QED BY <1>1, <1>2, <1>3, PTL DEF Spec
=============================================================================
