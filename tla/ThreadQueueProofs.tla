------------------------- MODULE ThreadQueueProofs -------------------------
(***************************************************************************)
(* The queue's safety for every set of threads, every number of arrivals   *)
(* and every limit. The inductive invariant is the conjunction of the type *)
(* invariant and of the state properties: starting a task is safe only     *)
(* because the busy threads are exactly those of the started tasks.        *)
(***************************************************************************)
EXTENDS ThreadQueue, FiniteSetTheorems, FunctionTheorems,
        WellFoundedInduction, NaturalsInduction, TLAPS

(* Keys, slots and order between them, as one predicate over the queue's   *)
(* state, so that startWaiting can be reasoned about apart from its caller.*)
Exclusive(k, busy, line, begun) ==
  /\ \A t \in line \cup begun : k[t] \in Thread
  /\ \A t, u \in begun : k[t] = k[u] => t = u
  /\ busy = {k[t] : t \in begun}
  /\ line \cap begun = {}
  /\ \A t \in line, u \in begun : k[t] = k[u] => u < t

Working(k, busy, line) ==
  Cardinality(busy) < Limit => \A t \in line : k[t] \in busy

QueueInv ==
  /\ QueueTypeOK
  /\ Exclusive(key, running, waiting, started)
  /\ SlotsWellUsed

(* A non-empty set of numbers has a smallest one. *)
LEMMA LeastNumber ==
  ASSUME NEW T \in SUBSET Nat, T # {}
  PROVE  \E m \in T : \A t \in T : m <= t
<1>1. IsWellFoundedOn(OpToRel(<, Nat), Nat)
  BY NatLessThanWellFounded
<1>2. PICK m \in T : \A t \in T : ~ (<<t, m>> \in OpToRel(<, Nat))
  BY <1>1, WFMin
<1>3. ASSUME NEW t \in T
      PROVE  m <= t
  <2>1. OpToRel(<, Nat) = {ss \in Nat \X Nat : ss[1] < ss[2]}
    BY DEF OpToRel
  <2>2. ~ (t < m)
    BY <1>2, <2>1
  <2> QED
    BY <2>2
<1> QED
  BY <1>3

(* The image of a finite set of tasks is a finite set of threads. *)
LEMMA KeysFinite ==
  ASSUME NEW k, NEW S, IsFiniteSet(S)
  PROVE  LET K == {k[t] : t \in S}
         IN  IsFiniteSet(K) /\ Cardinality(K) <= Cardinality(S)
<1> DEFINE K == {k[t] : t \in S}
           f == [t \in S |-> k[t]]
<1>1. f \in Surjection(S, K)
  BY DEF Surjection
<1>2. QED
  BY <1>1, FS_Surjection

(* What the loop of startWaiting starts leaves at most one run per thread  *)
(* and keeps each thread's order.                                          *)
LEMMA StartKeepsExclusive ==
  ASSUME NEW k, NEW busy, NEW line \in SUBSET Task, NEW begun \in SUBSET Task,
         NEW S \in SUBSET line,
         Exclusive(k, busy, line, begun), OldestFirst(k, busy, line, S)
  PROVE  Exclusive(k, busy \cup {k[t] : t \in S}, line \ S, begun \cup S)
<1> DEFINE more == busy \cup {k[t] : t \in S}
<1>0. \A t \in line : t \in Nat
  BY QueueAssumption
<1>1. \A t \in S : k[t] \notin busy /\ \A u \in line : k[u] = k[t] => t <= u
  BY DEF OldestFirst, Eligible
<1>2. \A t, u \in begun \cup S : k[t] = k[u] => t = u
  <2> SUFFICES ASSUME NEW t \in begun \cup S, NEW u \in begun \cup S, k[t] = k[u]
               PROVE  t = u
    OBVIOUS
  <2>1. CASE t \in begun /\ u \in begun
    BY <2>1 DEF Exclusive
  <2>2. CASE t \in S /\ u \in S
    BY <2>2, <1>0, <1>1
  <2>3. CASE (t \in S /\ u \in begun) \/ (t \in begun /\ u \in S)
    BY <2>3, <1>1 DEF Exclusive
  <2> QED
    BY <2>1, <2>2, <2>3
<1>3. more = {k[t] : t \in begun \cup S}
  BY DEF Exclusive
<1>4. ASSUME NEW t \in line \ S, NEW u \in begun \cup S, k[t] = k[u]
      PROVE  u < t
  <2>1. CASE u \in begun
    BY <2>1, <1>4 DEF Exclusive
  <2>2. CASE u \in S
    BY <2>2, <1>0, <1>1, <1>4
  <2> QED
    BY <2>1, <2>2
<1>5. /\ \A t \in (line \ S) \cup (begun \cup S) : k[t] \in Thread
      /\ (line \ S) \cap (begun \cup S) = {}
  BY DEF Exclusive
<1> QED
  BY <1>2, <1>3, <1>4, <1>5 DEF Exclusive

(* It never takes more slots than there are, and it stops only when no     *)
(* slot is free or no idle thread's task waits.                            *)
LEMMA StartFillsSlots ==
  ASSUME NEW k, NEW busy, NEW line \in SUBSET Task, NEW begun \in SUBSET Task,
         NEW S \in SUBSET line,
         Exclusive(k, busy, line, begun), OldestFirst(k, busy, line, S)
  PROVE  /\ Cardinality(busy \cup {k[t] : t \in S}) <= Limit
         /\ Working(k, busy \cup {k[t] : t \in S}, line \ S)
<1> DEFINE K == {k[t] : t \in S}
           more == busy \cup K
           f == [t \in S |-> k[t]]
<1>0. \A t \in line : t \in Nat
  BY QueueAssumption
<1>1. IsFiniteSet(S) /\ IsFiniteSet(begun)
  BY QueueAssumption, FS_Subset
<1>2. IsFiniteSet(busy)
  BY <1>1, KeysFinite DEF Exclusive
<1>3. f \in Surjection(S, K) /\ f \in Injection(S, K)
  BY <1>0 DEF Surjection, Injection, IsInjective, OldestFirst, Eligible
<1>4. IsFiniteSet(K) /\ Cardinality(K) = Cardinality(S)
  BY <1>1, <1>3, FS_Surjection
<1>5. busy \cap K = {}
  BY DEF OldestFirst, Eligible
<1>6. Cardinality(more) = Cardinality(busy) + Cardinality(S)
  <2>1. Cardinality(more)
          = Cardinality(busy) + Cardinality(K) - Cardinality(busy \cap K)
    BY <1>2, <1>4, FS_Union
  <2>2. Cardinality(busy \cap K) = 0
    BY <1>5, FS_EmptySet
  <2>3. Cardinality(busy) \in Nat /\ Cardinality(K) \in Nat
    BY <1>2, <1>4, FS_CardinalityType
  <2> QED
    BY <2>1, <2>2, <2>3, <1>4
<1>7. Cardinality(more) <= Limit
  BY <1>6 DEF OldestFirst
<1>8. ASSUME Cardinality(more) < Limit, NEW t \in line \ S
      PROVE  k[t] \in more
  <2>1. S = Eligible(k, busy, line)
    <3>1. Cardinality(more) # Limit
      BY <1>8, QueueAssumption, <1>2, <1>4, FS_Union, FS_CardinalityType
    <3> QED
      BY <3>1, <1>6 DEF OldestFirst
  <2> DEFINE own == {u \in line : k[u] = k[t]}
  <2>2. own \in SUBSET Nat /\ own # {}
    BY <1>0
  <2>3. PICK m \in own : \A u \in own : m <= u
    BY <2>2, LeastNumber
  <2>4. CASE k[t] \in busy
    BY <2>4
  <2>5. CASE k[t] \notin busy
    <3>1. m \in Eligible(k, busy, line)
      BY <2>3, <2>5 DEF Eligible
    <3>2. k[m] \in K /\ k[m] = k[t]
      BY <3>1, <2>1
    <3> QED
      BY <3>2
  <2> QED
    BY <2>4, <2>5
<1> QED
  BY <1>7, <1>8 DEF Working

(* The queue's three sets after a call that ends in startWaiting. *)
LEMMA StartKeepsInv ==
  ASSUME NEW busy, NEW line \in SUBSET Task, NEW begun \in SUBSET Task,
         key' \in [Task -> Thread \cup {NoThread}], accepting' \in BOOLEAN,
         Exclusive(key', busy, line, begun),
         StartWaiting(key', busy, line, begun)
  PROVE  QueueInv'
<1>1. PICK S \in SUBSET line :
        /\ OldestFirst(key', busy, line, S)
        /\ running' = busy \cup {key'[t] : t \in S}
        /\ waiting' = line \ S
        /\ started' = begun \cup S
  BY DEF StartWaiting
<1>2. Exclusive(key', running', waiting', started')
  BY <1>1, StartKeepsExclusive
<1>3. Cardinality(running') <= Limit /\ Working(key', running', waiting')
  BY <1>1, StartFillsSlots
<1>4. waiting' \subseteq Task /\ started' \subseteq Task
  BY <1>1
<1>5. QueueTypeOK'
  BY <1>2, <1>4, QueueAssumption DEF Exclusive, QueueTypeOK, Arrived
<1> QED
  BY <1>2, <1>3, <1>5 DEF QueueInv, SlotsWellUsed, Working

LEMMA QueueInvInit == QueueInit => QueueInv
<1> SUFFICES ASSUME QueueInit PROVE QueueInv
  OBVIOUS
<1>1. Cardinality(running) = 0
  BY FS_EmptySet DEF QueueInit
<1> QED
  BY <1>1, QueueAssumption
  DEF QueueInit, QueueInv, QueueTypeOK, Exclusive, SlotsWellUsed

LEMMA QueueInvLose == Lose => QueueInv'
<1> SUFFICES ASSUME Lose PROVE QueueInv'
  OBVIOUS
<1>1. Cardinality(running') = 0
  BY FS_EmptySet DEF Lose
<1> QED
  BY <1>1, QueueAssumption DEF Lose, QueueInv, QueueTypeOK, Exclusive, SlotsWellUsed

LEMMA QueueInvStep == QueueInv /\ [QueueNext]_qvars => QueueInv'
<1> SUFFICES ASSUME QueueInv, [QueueNext]_qvars PROVE QueueInv'
  OBVIOUS
<1> USE DEF QueueInv
<1>0. waiting \subseteq Task /\ started \subseteq Task
  BY DEF QueueTypeOK, Arrived
<1>1. ASSUME NEW t \in Task, NEW k \in Thread, Enqueue(t, k)
      PROVE  QueueInv'
  <2> DEFINE line == waiting \cup {t}
  <2>1. key' \in [Task -> Thread \cup {NoThread}] /\ accepting' \in BOOLEAN
    BY <1>1 DEF Enqueue, QueueTypeOK
  <2>2. t \notin waiting \cup started
    BY <1>1 DEF Enqueue, QueueTypeOK, Arrived
  <2>3. \A u \in waiting \cup started : key'[u] = key[u] /\ u < t
    BY <1>0, <1>1, <2>2 DEF Enqueue, QueueTypeOK, Arrived
  <2>4. key'[t] = k
    BY <1>1 DEF Enqueue, QueueTypeOK
  <2>5. running = {key'[u] : u \in started}
    BY <2>3 DEF Exclusive
  <2>6. Exclusive(key', running, line, started)
    BY <2>2, <2>3, <2>4, <2>5 DEF Exclusive
  <2>7. StartWaiting(key', running, line, started)
    BY <1>1 DEF Enqueue
  <2> HIDE DEF QueueInv
  <2> QED
    BY <1>0, <2>1, <2>6, <2>7, StartKeepsInv
<1>2. ASSUME NEW t \in Task, Finish(t)
      PROVE  QueueInv'
  <2> DEFINE busy == running \ {key[t]}
             begun == started \ {t}
  <2>1. key' = key /\ accepting' = accepting
    BY <1>2 DEF Finish
  <2>2. busy = {key[u] : u \in begun}
    BY <1>2 DEF Finish, Exclusive
  <2>3. Exclusive(key, busy, waiting, begun)
    BY <2>2 DEF Exclusive
  <2>4. StartWaiting(key, busy, waiting, begun)
    BY <1>2 DEF Finish
  <2>5. key' \in [Task -> Thread \cup {NoThread}] /\ accepting' \in BOOLEAN
    BY <2>1 DEF QueueTypeOK
  <2>6. Exclusive(key', busy, waiting, begun) /\ StartWaiting(key', busy, waiting, begun)
    BY <2>1, <2>3, <2>4
  <2> HIDE DEF QueueInv
  <2> QED
    BY <1>0, <2>5, <2>6, StartKeepsInv
<1>3. CASE Close
  BY <1>3 DEF Close, QueueTypeOK, Arrived, Exclusive, SlotsWellUsed
<1>4. CASE Lose
  BY <1>4, QueueInvLose
<1>5. CASE UNCHANGED qvars
  BY <1>5 DEF qvars, QueueTypeOK, Arrived, Exclusive, SlotsWellUsed
<1> QED
  BY <1>1, <1>2, <1>3, <1>4, <1>5 DEF QueueNext, QueueStep

(* The inductive invariant holds of every behaviour of the queue. *)
THEOREM QueueInvariant == QueueSpec => []QueueInv
  BY QueueInvInit, QueueInvStep, PTL DEF QueueSpec

(* A thread never has two runs: its conversation and its visible message   *)
(* have one writer (queue.ts:6-9).                                         *)
THEOREM NeverTwoRuns == QueueSpec => []OneRunPerThread
<1>1. QueueInv => OneRunPerThread
  BY DEF QueueInv, Exclusive, OneRunPerThread
<1> QED
  BY <1>1, QueueInvariant, PTL

(* Never more threads at once than the limit, and no slot stays free       *)
(* beside a waiting idle thread (queue.ts:6, 11).                          *)
THEOREM SlotsUsedWell == QueueSpec => []SlotsWellUsed
<1>1. QueueInv => SlotsWellUsed
  BY DEF QueueInv
<1> QED
  BY <1>1, QueueInvariant, PTL

(* Within a thread the tasks start in arrival order (queue.ts:11, 89).     *)
THEOREM TasksStartInOrder == QueueSpec => []ThreadOrder
<1>1. QueueInv => ThreadOrder
  BY DEF QueueInv, Exclusive, ThreadOrder
<1> QED
  BY <1>1, QueueInvariant, PTL
=============================================================================
