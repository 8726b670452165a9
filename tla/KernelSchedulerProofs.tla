------------------------ MODULE KernelSchedulerProofs -----------------------
(***************************************************************************)
(* The proof that the kernel implements the abstract scheduler, for every  *)
(* value of its constants and every Workload without signals to sleeping   *)
(* processes, without the kill signal to the idle process and without      *)
(* sleeps of less than a tick:                                             *)
(*   KernelImplementsScheduler   Spec => ImplementsScheduler               *)
(*   SleepersSleepAsAsked        Spec => SleepsAsAsked                     *)
(* The mapping counts the pcbs met on the ready list and adds up the keys  *)
(* met on the sleep list, both by following links.  The proof replaces     *)
(* the two by relations between a list and a sequence (Line) and between a *)
(* list and a countdown of each member (Counts): there is just one such    *)
(* sequence and one such countdown, they are what the mapping computes     *)
(* (LineRead, CountsRead), and each operation on the lists is an operation *)
(* on them (ReadyMaps, RemoveMaps, PushMaps, InsertMaps, ...).             *)
(***************************************************************************)
EXTENDS KernelScheduler, KernelListsProofs

-----------------------------------------------------------------------------
(* The ready list as a sequence. *)

\* The links lead from start along q and then end.
Line(next, start, q) ==
  /\ q \in Seq(Slots)
  /\ start = IF Len(q) = 0 THEN NULL ELSE q[1]
  /\ \A i \in 1..Len(q) : next[q[i]] = IF i = Len(q) THEN NULL ELSE q[i+1]

Distinct(q) == \A i, j \in 1..Len(q) : q[i] = q[j] => i = j

Members(q) == {q[i] : i \in 1..Len(q)}

\* A list with members C is a sequence.
LEMMA LineExists ==
  ASSUME NEW next \in [Slots -> Ptr], NEW start \in Ptr,
         NEW C \in SUBSET Slots, NEW r, Threads(next, start, NULL, C, r)
  PROVE  \E q : Line(next, start, q)
<1> HIDE DEF NULL
<1>0. NULL \notin Slots /\ MAX_PROC \in Nat
  BY SlotsAreNat, TableAssumption DEF NULL
<1>1. PICK at : at = Chain(next, start)
  OBVIOUS
<1>2. Follows(at, next, start, NULL)
  BY <1>1, ChainFollows
<1>3. IsFiniteSet(C) /\ Cardinality(C) <= MAX_PROC /\ NULL \notin C
  BY <1>0, SlotsFinite
<1>4. PICK m \in 0..MAX_PROC :
        /\ {i \in 0..MAX_PROC : at[i] # NULL} = 0..m-1
        /\ {at[i-1] : i \in 1..m} = C
        /\ m # 0 => at[m-1] \in C /\ next[at[m-1]] = NULL
  BY <1>0, <1>2, <1>3, WalkLength
<1>5. /\ at[0] = start
      /\ \A i \in Nat : at[i+1] = IF at[i] = NULL THEN NULL ELSE next[at[i]]
  BY <1>2, FollowStep
<1> DEFINE q == [i \in 1..m |-> at[i-1]]
<1>6. q \in Seq(Slots) /\ Len(q) = m
  <2>1. q \in [1..m -> Slots]
    BY <1>4
  <2>2. m \in Nat
    BY <1>0
  <2> QED
    BY <2>1, <2>2
<1>7. start = IF m = 0 THEN NULL ELSE q[1]
  <2>1. CASE m = 0
    <3>1. 0 \notin 0..m-1 /\ 0 \in 0..MAX_PROC
      BY <1>0, <2>1
    <3> QED
      BY <1>4, <1>5, <2>1, <3>1
  <2>2. CASE m # 0
    <3>1. 1 \in 1..m /\ 1 - 1 = 0
      BY <1>0, <2>2
    <3> QED
      BY <1>5, <2>2, <3>1
  <2> QED
    BY <2>1, <2>2
<1>8. ASSUME NEW i \in 1..m
      PROVE  next[q[i]] = IF i = m THEN NULL ELSE q[i+1]
  <2>1. CASE i = m
    BY <1>4, <2>1
  <2>2. CASE i # m
    <3>1. /\ i - 1 \in Nat /\ (i - 1) + 1 = i /\ i + 1 \in 1..m /\ (i + 1) - 1 = i
          /\ i - 1 \in 0..m-1
      BY <1>0, <2>2
    <3>2. at[i-1] # NULL
      BY <1>4, <3>1
    <3> QED
      BY <1>5, <2>2, <3>1, <3>2
  <2> QED
    BY <2>1, <2>2
<1> HIDE DEF q
<1>9. Line(next, start, q)
  BY <1>6, <1>7, <1>8 DEF Line
<1> QED
  BY <1>9

\* What is met in n steps along the links.
Met(next, start, n) == [i \in 1..n |-> Chain(next, start)[i-1]]

\* The sequence along which the links lead holds the members, each of them
\* once and in the order of their ranks.
LEMMA LineMembers ==
  ASSUME NEW next \in [Slots -> Ptr], NEW start \in Ptr,
         NEW Q \in SUBSET Slots, NEW r, Threads(next, start, NULL, Q, r),
         NEW q, Line(next, start, q)
  PROVE  /\ Members(q) = Q /\ Distinct(q) /\ Len(q) = Cardinality(Q)
         /\ \A i, j \in 1..Len(q) : i < j => r[q[i]] < r[q[j]]
         /\ q = Met(next, start, Cardinality(Q))
<1> HIDE DEF NULL
<1>0. NULL \notin Slots /\ MAX_PROC \in Nat
  BY SlotsAreNat, TableAssumption DEF NULL
<1>1. /\ next \in [Slots -> Ptr] /\ start \in Ptr /\ Q \in SUBSET Slots
      /\ Threads(next, start, NULL, Q, r)
  OBVIOUS
<1>2. PICK at : at = Chain(next, start)
  OBVIOUS
<1>3. Follows(at, next, start, NULL)
  BY <1>1, <1>2, ChainFollows
<1>4. IsFiniteSet(Q) /\ Cardinality(Q) <= MAX_PROC /\ NULL \notin Q
  BY <1>0, <1>1, SlotsFinite
<1>5. q \in Seq(Slots) /\ Len(q) \in Nat /\ \A i \in 1..Len(q) : q[i] \in Slots
  BY DEF Line
<1>6. PICK n \in Nat : n = MAX_PROC + Len(q)
  BY <1>0, <1>5
<1>7. PICK m \in 0..n :
        /\ {i \in 0..n : at[i] # NULL} = 0..m-1
        /\ {at[i-1] : i \in 1..m} = Q /\ Cardinality(Q) = m
  <2>1. Cardinality(Q) <= n
    BY <1>0, <1>1, <1>4, <1>5, <1>6, FS_CardinalityType
  <2> QED
    BY <1>1, <1>3, <1>4, <2>1, WalkLength
<1>8. /\ at[0] = start
      /\ \A i \in Nat : at[i+1] = IF at[i] = NULL THEN NULL ELSE next[at[i]]
  BY <1>3, FollowStep
<1>9. /\ \A i \in 1..Len(q) : at[i-1] = q[i]
      /\ at[Len(q)] = NULL
  <2> DEFINE T == {i \in Nat : i <= Len(q) =>
                     at[i] = IF i = Len(q) THEN NULL ELSE q[i+1]}
  <2>1. 0 \in T
    BY <1>5, <1>8 DEF Line
  <2>2. ASSUME NEW i \in Nat, i \in T PROVE i + 1 \in T
    <3> SUFFICES ASSUME i + 1 <= Len(q)
                 PROVE  at[i+1] = IF i + 1 = Len(q) THEN NULL ELSE q[(i+1)+1]
      OBVIOUS
    <3>1. i <= Len(q) /\ i # Len(q) /\ i + 1 \in 1..Len(q)
      BY <1>5
    <3>2. at[i] = q[i+1] /\ q[i+1] \in Slots
      BY <1>5, <2>2, <3>1
    <3>3. at[i+1] = next[q[i+1]]
      BY <1>0, <1>8, <3>2
    <3> QED
      BY <3>1, <3>3 DEF Line
  <2>3. Nat \subseteq T
    <3> HIDE DEF T
    <3> QED
      BY <2>1, <2>2, NatInduct
  <2>4. ASSUME NEW i \in 1..Len(q) PROVE at[i-1] = q[i]
    <3>1. i - 1 \in T /\ i - 1 <= Len(q) /\ i - 1 # Len(q) /\ (i - 1) + 1 = i
      BY <1>5, <2>3
    <3> QED
      BY <3>1
  <2> QED
    BY <1>5, <2>3, <2>4
<1>10. m = Len(q)
  <2>1. Len(q) \in 0..n
    BY <1>0, <1>5, <1>6
  <2>2. Len(q) \notin 0..m-1
    BY <1>7, <1>9, <2>1
  <2>3. CASE Len(q) < m
    BY <1>5, <2>2, <2>3
  <2>4. CASE m < Len(q)
    <3>1. m + 1 \in 1..Len(q) /\ (m + 1) - 1 = m /\ m \in 0..n /\ m \notin 0..m-1
      BY <1>5, <2>1, <2>4
    <3>2. at[m] = q[m+1] /\ q[m+1] \in Slots
      BY <1>5, <1>9, <3>1
    <3> QED
      BY <1>0, <1>7, <3>1, <3>2
  <2> QED
    BY <1>5, <2>3, <2>4
<1>11. Members(q) = Q
  <2>1. \A i \in 1..m : q[i] = at[i-1]
    BY <1>9, <1>10
  <2>2. Members(q) = {q[i] : i \in 1..m}
    BY <1>10 DEF Members
  <2>3. {q[i] : i \in 1..m} = {at[i-1] : i \in 1..m}
    BY <2>1
  <2> QED
    BY <1>7, <2>2, <2>3
<1>12. q = Met(next, start, Cardinality(Q))
  <2>2. [i \in 1..Len(q) |-> at[i-1]] = [i \in 1..Len(q) |-> q[i]]
    BY <1>9
  <2>3. [i \in 1..Len(q) |-> q[i]] = q
    BY <1>5
  <2> QED
    BY <1>2, <1>7, <1>10, <2>2, <2>3 DEF Met
<1>13. ASSUME NEW i \in 1..Len(q), NEW j \in 1..Len(q), i < j
       PROVE  r[q[i]] < r[q[j]]
  <2>1. /\ i - 1 \in Nat /\ j - 1 \in Nat /\ i - 1 < j - 1
        /\ at[i-1] = q[i] /\ at[j-1] = q[j]
    BY <1>5, <1>9, <1>13
  <2>2. at[j-1] # NULL
    BY <1>0, <1>5, <2>1
  <2>3. r[at[i-1]] < r[at[j-1]]
    BY <1>1, <1>3, <1>4, <2>1, <2>2, RanksRise
  <2> QED
    BY <2>1, <2>3
<1>14. Distinct(q)
  <2> SUFFICES ASSUME NEW i \in 1..Len(q), NEW j \in 1..Len(q), q[i] = q[j], i # j
               PROVE  FALSE
    BY DEF Distinct
  <2>1. r[q[i]] \in Int /\ i \in Int /\ j \in Int
    BY <1>1, <1>5, <1>11 DEF Threads, Members
  <2>2. i < j \/ j < i
    BY <2>1
  <2> QED
    BY <1>13, <2>1, <2>2
<1> QED
  BY <1>7, <1>10, <1>11, <1>12, <1>13, <1>14

\* Links that are not those of its members do not matter.
LEMMA LineKept ==
  ASSUME NEW next, NEW start, NEW q, Line(next, start, q),
         NEW next2, \A s \in Members(q) : next2[s] = next[s]
  PROVE  Line(next2, start, q)
  BY DEF Line, Members

\* What QueueOf reads off a list.
QueueIn(L) ==
  [i \in 1..Cardinality({Chain(L.next, L.head)[j] : j \in 0..MAX_PROC} \ {NULL})
     |-> Chain(L.next, L.head)[i-1]]

\* It is that sequence.
LEMMA LineRead ==
  ASSUME NEW L, NEW sl, NEW Q, NEW Z, NEW r, Shape(L, sl, Q, Z, r),
         NEW q, Line(L.next, L.head, q)
  PROVE  QueueIn(L) = q /\ Members(q) = Q /\ Distinct(q)
<1>1. /\ L.next \in [Slots -> Ptr] /\ L.head \in Ptr /\ Q \in SUBSET Slots
      /\ Threads(L.next, L.head, NULL, Q, r)
  BY DEF Shape, Lists
<1>2. {Chain(L.next, L.head)[j] : j \in 0..MAX_PROC} \ {NULL} = Q
  BY ShapeHolds
<1> HIDE DEF NULL
<1>3. /\ Members(q) = Q /\ Distinct(q)
      /\ q = Met(L.next, L.head, Cardinality(Q))
  <2>1. PICK next, start : next = L.next /\ start = L.head
    OBVIOUS
  <2>2. /\ next \in [Slots -> Ptr] /\ start \in Ptr /\ Q \in SUBSET Slots
        /\ Threads(next, start, NULL, Q, r) /\ Line(next, start, q)
    BY <1>1, <2>1
  <2>3. /\ Members(q) = Q /\ Distinct(q)
        /\ q = Met(next, start, Cardinality(Q))
    BY <2>2, LineMembers
  <2> QED
    BY <2>1, <2>3
<1> QED
  BY <1>2, <1>3 DEF QueueIn, Met

\* tail is the last.
LEMMA TailLast ==
  ASSUME NEW L, NEW sl, NEW Q, NEW Z, NEW r, Shape(L, sl, Q, Z, r),
         NEW q, Line(L.next, L.head, q)
  PROVE  IF Len(q) = 0 THEN L.tail = NULL ELSE L.tail = q[Len(q)]
<1> HIDE DEF NULL
<1>0. NULL \notin Slots
  BY SlotsAreNat DEF NULL
<1>1. Members(q) = Q
  BY LineRead
<1>2. PICK n \in Nat : n = Len(q)
  BY DEF Line
<1>3. /\ \A i \in 1..n : q[i] \in Slots
      /\ \A i \in 1..n : L.next[q[i]] = IF i = n THEN NULL ELSE q[i+1]
  BY <1>2 DEF Line
<1>6. IF n = 0 THEN L.tail = NULL ELSE L.tail = q[n]
  <2>1. CASE n = 0
    <3>1. Q = {}
      BY <1>1, <1>2, <2>1 DEF Members
    <3> QED
      BY <2>1, <3>1, ShapeEmpty
  <2>2. CASE n # 0
    <3>1. q[1] \in Q
      BY <1>1, <1>2, <2>2 DEF Members
    <3>2. L.tail # NULL
      BY <3>1, ShapeEmpty
    <3>3. L.tail \in Q /\ L.next[L.tail] = NULL
      BY <3>2 DEF Shape
    <3>4. PICK i \in 1..n : L.tail = q[i]
      BY <1>1, <1>2, <3>3 DEF Members
    <3>5. CASE i # n
      <4>1. L.next[q[i]] = q[i+1] /\ i + 1 \in 1..n
        BY <1>3, <3>5
      <4> QED
        BY <1>0, <1>3, <3>3, <3>4, <4>1
    <3> QED
      BY <2>2, <3>4, <3>5
  <2> QED
    BY <2>1, <2>2
<1> QED
  BY <1>2, <1>6

\* ready() appends.
LEMMA ReadyLine ==
  ASSUME NEW L, NEW sl, NEW Q, NEW Z, NEW r, Shape(L, sl, Q, Z, r),
         NEW q, Line(L.next, L.head, q), NEW s \in Slots, s \notin Q
  PROVE  Line(Ready(L, s).next, Ready(L, s).head, Append(q, s))
<1> HIDE DEF NULL
<1>0. NULL \notin Slots
  BY SlotsAreNat DEF NULL
<1>1. Members(q) = Q
  BY LineRead
<1>2. PICK n \in Nat : n = Len(q)
  BY DEF Line
<1>3. /\ q \in Seq(Slots) /\ \A i \in 1..n : q[i] \in Slots /\ q[i] # s
      /\ L.head = IF n = 0 THEN NULL ELSE q[1]
      /\ \A i \in 1..n : L.next[q[i]] = IF i = n THEN NULL ELSE q[i+1]
  BY <1>1, <1>2 DEF Line, Members
<1>4. PICK q2 : q2 = Append(q, s)
  OBVIOUS
<1>5. /\ q2 \in Seq(Slots) /\ Len(q2) = n + 1 /\ q2[n+1] = s
      /\ \A i \in 1..n : q2[i] = q[i]
  BY <1>2, <1>3, <1>4
<1>6. IF n = 0 THEN L.tail = NULL ELSE L.tail = q[n]
  BY <1>2, TailLast
<1>7. PICK next : /\ next = [i \in Slots |-> IF i = L.tail THEN s
                              ELSE IF i = s THEN NULL ELSE L.next[i]]
                  /\ next = Ready(L, s).next
  BY DEF Ready
<1>8. Ready(L, s).head = q2[1]
  <2>1. Ready(L, s).head = IF L.tail = NULL THEN s ELSE L.head
    BY DEF Ready
  <2>2. CASE n = 0
    BY <1>5, <1>6, <2>1, <2>2
  <2>3. CASE n # 0
    <3>1. 1 \in 1..n /\ n \in 1..n
      BY <2>3
    <3>2. L.tail # NULL
      BY <1>0, <1>3, <1>6, <2>3, <3>1
    <3> QED
      BY <1>3, <1>5, <2>1, <2>3, <3>1, <3>2
  <2> QED
    BY <2>2, <2>3
<1>9. ASSUME NEW i \in 1..n+1
      PROVE  next[q2[i]] = IF i = n + 1 THEN NULL ELSE q2[i+1]
  <2>1. CASE i = n + 1
    <3>1. L.tail # s
      <4>1. CASE n = 0
        BY <1>0, <1>6, <4>1
      <4>2. CASE n # 0
        <5>1. n \in 1..n
          BY <4>2
        <5> QED
          BY <1>3, <1>6, <4>2, <5>1
      <4> QED
        BY <4>1, <4>2
    <3> QED
      BY <1>5, <1>7, <2>1, <3>1
  <2>2. CASE i = n
    <3>1. i \in 1..n /\ n # 0 /\ n + 1 # i
      BY <2>2
    <3>2. q2[i] = L.tail /\ L.tail \in Slots
      BY <1>3, <1>5, <1>6, <2>2, <3>1
    <3>3. next[q2[i]] = s
      BY <1>7, <3>2
    <3> QED
      BY <1>5, <2>2, <3>1, <3>3
  <2>3. CASE i # n /\ i # n + 1
    <3>1. i \in 1..n /\ i + 1 \in 1..n /\ n # 0 /\ n \in 1..n
      BY <2>3
    <3>2. L.next[q[i]] = q[i+1] /\ q[i+1] \in Slots /\ L.next[q[n]] = NULL
      BY <1>3, <2>3, <3>1
    <3>3. q[i] # L.tail
      BY <1>0, <1>6, <3>1, <3>2
    <3>4. next[q[i]] = L.next[q[i]]
      BY <1>3, <1>7, <3>1, <3>3
    <3> QED
      BY <1>5, <2>3, <3>1, <3>2, <3>4
  <2> QED
    BY <2>1, <2>2, <2>3
<1>10. Line(next, q2[1], q2)
  <2>1. n + 1 # 0
    OBVIOUS
  <2> QED
    BY <1>5, <1>9, <2>1 DEF Line
<1> QED
  BY <1>4, <1>7, <1>8, <1>10

\* next() takes the first.
LEMMA DispatchLine ==
  ASSUME NEW L, NEW sl, NEW Q, NEW Z, NEW r, Shape(L, sl, Q, Z, r),
         NEW q, Line(L.next, L.head, q), Q # {}, Dispatch(L)
  PROVE  q # << >> /\ p' = Head(q) /\ Line(rq'.next, rq'.head, Tail(q))
<1> HIDE DEF NULL
<1>0. NULL \notin Slots
  BY SlotsAreNat DEF NULL
<1>1. Members(q) = Q /\ Distinct(q)
  BY LineRead
<1>2. PICK n \in Nat : n = Len(q)
  BY DEF Line
<1>3. /\ q \in Seq(Slots) /\ \A i \in 1..n : q[i] \in Slots
      /\ L.head = IF n = 0 THEN NULL ELSE q[1]
      /\ \A i \in 1..n : L.next[q[i]] = IF i = n THEN NULL ELSE q[i+1]
  BY <1>2 DEF Line
<1>4. n # 0 /\ 1 \in 1..n
  BY <1>1, <1>2 DEF Members
<1>5. PICK q2 : q2 = Tail(q)
  OBVIOUS
<1>6. /\ q2 \in Seq(Slots) /\ Len(q2) = n - 1 /\ q # << >> /\ Head(q) = q[1]
      /\ \A i \in 1..n-1 : q2[i] = q[i+1]
  BY <1>2, <1>3, <1>4, <1>5
<1>7. L.head = q[1] /\ q[1] \in Slots /\ L.head # NULL
  BY <1>0, <1>3, <1>4
<1>8. /\ p' = L.head /\ rq'.head = L.next[L.head]
      /\ rq'.next = [L.next EXCEPT ![L.head] = NULL]
  BY <1>7 DEF Dispatch, Shape, Lists
<1>9. rq'.head = IF n - 1 = 0 THEN NULL ELSE q2[1]
  <2>1. CASE n = 1
    BY <1>3, <1>4, <1>7, <1>8, <2>1
  <2>2. CASE n # 1
    <3>1. 1 \in 1..n-1 /\ n - 1 # 0
      BY <1>4, <2>2
    <3> QED
      BY <1>3, <1>4, <1>6, <1>7, <1>8, <2>2, <3>1
  <2> QED
    BY <2>1, <2>2
<1>10. ASSUME NEW i \in 1..n-1
       PROVE  rq'.next[q2[i]] = IF i = n - 1 THEN NULL ELSE q2[i+1]
  <2>1. i + 1 \in 1..n /\ i + 1 # 1 /\ q2[i] = q[i+1]
    BY <1>6
  <2>2. q[i+1] # q[1]
    BY <1>1, <1>2, <1>4, <2>1 DEF Distinct
  <2>3. rq'.next[q[i+1]] = L.next[q[i+1]]
    <3>1. L.next \in [Slots -> Ptr]
      BY DEF Shape, Lists
    <3> QED
      BY <1>3, <1>7, <1>8, <2>1, <2>2, <3>1
  <2>4. CASE i = n - 1
    BY <1>3, <2>1, <2>3, <2>4
  <2>5. CASE i # n - 1
    <3>1. i + 1 # n /\ i + 1 \in 1..n-1
      BY <2>5
    <3> QED
      BY <1>3, <1>6, <2>1, <2>3, <2>5, <3>1
  <2> QED
    BY <2>4, <2>5
<1> QED
  BY <1>5, <1>6, <1>7, <1>8, <1>9, <1>10 DEF Line

\* q without its k-th member.
OmitAt(q, k) == [i \in 1..Len(q)-1 |-> IF i < k THEN q[i] ELSE q[i+1]]

\* removeFromReady() takes the one it looks for out of the sequence.
LEMMA RemoveLine ==
  ASSUME NEW L, NEW sl, NEW Q, NEW Z, NEW r, Shape(L, sl, Q, Z, r),
         NEW q, Line(L.next, L.head, q), NEW k \in 1..Len(q), NEW t, t = q[k]
  PROVE  Line(RemoveFromReady(L, t).next, RemoveFromReady(L, t).head, OmitAt(q, k))
<1> HIDE DEF NULL
<1>0. NULL \notin Slots
  BY SlotsAreNat DEF NULL
<1>1. Members(q) = Q /\ Distinct(q)
  BY LineRead
<1>2. PICK n \in Nat : n = Len(q)
  BY DEF Line
<1>3. /\ q \in Seq(Slots) /\ \A i \in 1..n : q[i] \in Slots
      /\ L.head = IF n = 0 THEN NULL ELSE q[1]
      /\ \A i \in 1..n : L.next[q[i]] = IF i = n THEN NULL ELSE q[i+1]
      /\ L.next \in [Slots -> Ptr] /\ L \in Lists
  BY <1>2 DEF Line, Shape, Lists
<1>4. k \in 1..n /\ n # 0 /\ 1 \in 1..n /\ n - 1 \in Nat
  BY <1>2
<1>5. t \in Q /\ t \in Slots
  BY <1>1, <1>2, <1>3, <1>4 DEF Members
<1>6. PICK q2 : q2 = OmitAt(q, k)
  OBVIOUS
<1>7. /\ q2 \in Seq(Slots) /\ Len(q2) = n - 1
      /\ \A i \in 1..n-1 : q2[i] = IF i < k THEN q[i] ELSE q[i+1]
  <2>1. q2 = [i \in 1..n-1 |-> IF i < k THEN q[i] ELSE q[i+1]]
    BY <1>2, <1>6 DEF OmitAt
  <2>2. \A i \in 1..n-1 : i \in 1..n /\ i + 1 \in 1..n
    BY <1>4
  <2>3. q2 \in [1..n-1 -> Slots]
    BY <1>3, <2>1, <2>2
  <2> QED
    BY <1>4, <2>1, <2>3
<1>8. \A i, j \in 1..n : q[i] = q[j] => i = j
  BY <1>1, <1>2 DEF Distinct
<1>9. CASE k = 1
  <2>1. L.head = t
    BY <1>3, <1>4, <1>9
  <2>2. RemoveFromReady(L, t).next = L.next /\ RemoveFromReady(L, t).head = L.next[t]
    BY <1>3, <2>1 DEF RemoveFromReady, Lists
  <2>3. L.next[t] = IF n - 1 = 0 THEN NULL ELSE q2[1]
    <3>1. CASE n = 1
      BY <1>3, <1>4, <1>9, <3>1
    <3>2. CASE n # 1
      <4>1. 1 \in 1..n-1 /\ n - 1 # 0
        BY <1>4, <3>2
      <4> QED
        BY <1>3, <1>4, <1>7, <1>9, <3>2, <4>1
    <3> QED
      BY <3>1, <3>2
  <2>4. ASSUME NEW i \in 1..n-1
        PROVE  L.next[q2[i]] = IF i = n - 1 THEN NULL ELSE q2[i+1]
    <3>0. i + 1 \in 1..n /\ ~(i < k)
      BY <1>4, <1>9
    <3>1. i + 1 \in 1..n /\ q2[i] = q[i+1]
      BY <1>7, <3>0
    <3>2. CASE i = n - 1
      BY <1>3, <3>1, <3>2
    <3>3. CASE i # n - 1
      <4>1. i + 1 # n /\ i + 1 \in 1..n-1 /\ ~(i + 1 < k)
        BY <1>4, <1>9, <3>3
      <4> QED
        BY <1>3, <1>7, <3>1, <3>3, <4>1
    <3> QED
      BY <3>2, <3>3
  <2> QED
    BY <1>6, <1>7, <2>2, <2>3, <2>4 DEF Line
<1>10. CASE k # 1
  <2>1. k - 1 \in 1..n /\ (k - 1) + 1 = k /\ k - 1 # n /\ n # 1
    BY <1>4, <1>10
  <2>2. L.head # t
    BY <1>3, <1>4, <1>8, <1>10
  <2>3. PICK prev : prev = CHOOSE s \in Slots : Before(L, s, t)
    OBVIOUS
  <2>4. prev \in Slots /\ Before(L, prev, t) /\ \E s \in Slots : Before(L, s, t)
    BY <1>5, <2>2, <2>3, BeforeExists
  <2>5. prev \in Q /\ L.next[prev] = t
    BY <1>5, <2>4, BeforeIsMember
  <2>6. PICK j \in 1..n : prev = q[j]
    BY <1>1, <1>2, <2>5 DEF Members
  <2>7. j = k - 1
    <3>1. j # n
      BY <1>0, <1>3, <1>5, <2>5, <2>6
    <3>2. q[j+1] = q[k] /\ j + 1 \in 1..n
      BY <1>3, <2>5, <2>6, <3>1
    <3>3. j + 1 = k
      BY <1>4, <1>8, <3>2
    <3> QED
      BY <3>3
  <2>8. PICK next : next = [[L.next EXCEPT ![prev] = L.next[t]] EXCEPT ![t] = NULL]
    OBVIOUS
  <2>9. RemoveFromReady(L, t).next = next /\ RemoveFromReady(L, t).head = L.head
    BY <1>3, <2>2, <2>3, <2>4, <2>8 DEF RemoveFromReady, Lists
  <2>10. /\ next[prev] = L.next[t]
         /\ \A s \in Slots \ {prev, t} : next[s] = L.next[s]
    <3>1. prev # t
      BY <1>4, <1>8, <2>1, <2>6, <2>7
    <3> QED
      BY <1>3, <1>5, <2>4, <2>8, <3>1
  <2>11. L.head = IF n - 1 = 0 THEN NULL ELSE q2[1]
    <3>1. 1 \in 1..n-1 /\ n - 1 # 0 /\ 1 < k
      BY <1>4, <1>10, <2>1
    <3> QED
      BY <1>3, <1>4, <1>7, <3>1
  <2>12. ASSUME NEW i \in 1..n-1
         PROVE  next[q2[i]] = IF i = n - 1 THEN NULL ELSE q2[i+1]
    <3>1. CASE i = k - 1
      <4>1. q2[i] = prev /\ i < k
        BY <1>4, <1>7, <2>6, <2>7, <3>1
      <4>2. next[q2[i]] = L.next[q[k]]
        BY <2>10, <4>1
      <4>3. CASE k = n
        BY <1>3, <1>4, <3>1, <4>2, <4>3
      <4>4. CASE k # n
        <5>1. i # n - 1 /\ i + 1 \in 1..n-1 /\ ~(i + 1 < k) /\ (i + 1) + 1 = k + 1
          BY <1>4, <3>1, <4>4
        <5>2. q2[i+1] = q[k+1]
          BY <1>7, <3>1, <5>1
        <5> QED
          BY <1>3, <1>4, <4>2, <4>4, <5>1, <5>2
      <4> QED
        BY <4>3, <4>4
    <3>2. CASE i < k - 1
      <4>1. /\ i < k /\ i + 1 < k /\ i \in 1..n /\ i # n /\ i # n - 1
            /\ i + 1 \in 1..n-1 /\ i # k /\ i # k - 1
        BY <1>4, <3>2
      <4>2. q2[i] = q[i] /\ q2[i+1] = q[i+1]
        BY <1>7, <4>1
      <4>3. q[i] # t /\ q[i] # prev
        BY <1>4, <1>8, <2>1, <2>6, <2>7, <4>1
      <4> QED
        BY <1>3, <2>10, <4>1, <4>2, <4>3
    <3>3. CASE i >= k
      <4>1. /\ ~(i < k) /\ ~(i + 1 < k) /\ i + 1 \in 1..n
            /\ i + 1 # k /\ i + 1 # k - 1
        BY <1>4, <3>3
      <4>2. q2[i] = q[i+1]
        BY <1>7, <4>1
      <4>3. q[i+1] # t /\ q[i+1] # prev
        BY <1>4, <1>8, <2>1, <2>6, <2>7, <4>1
      <4>4. next[q2[i]] = L.next[q[i+1]]
        BY <1>3, <2>10, <4>1, <4>2, <4>3
      <4>5. CASE i = n - 1
        BY <1>3, <4>1, <4>4, <4>5
      <4>6. CASE i # n - 1
        <5>1. i + 1 # n /\ i + 1 \in 1..n-1
          BY <4>6
        <5> QED
          BY <1>3, <1>7, <4>1, <4>4, <4>6, <5>1
      <4> QED
        BY <4>5, <4>6
    <3>4. i \in Int /\ k \in Int
      BY <1>4
    <3> QED
      BY <3>1, <3>2, <3>3, <3>4
  <2> QED
    BY <1>6, <1>7, <2>9, <2>11, <2>12 DEF Line
<1> QED
  BY <1>9, <1>10

\* order lists W in the order of the slots.
Ordered(order, W) ==
  /\ order \in [1..Cardinality(W) -> W]
  /\ \A i, j \in DOMAIN order : i < j => order[i] < order[j]

\* Links from each slot of W to the next one of W lead through W in order.
LEMMA OrderExists ==
  ASSUME NEW W \in SUBSET Slots, W # {},
         NEW next \in [Slots -> Ptr],
         \A i \in W : next[i] = IF i # Max(W) THEN Min({j \in W : j > i}) ELSE NULL
  PROVE  \E order : /\ Ordered(order, W) /\ Line(next, Min(W), order)
                    /\ Members(order) = W /\ Len(order) = Cardinality(W)
<1>0. NULL \notin Slots /\ Slots \subseteq Nat
  BY SlotsAreNat
<1> HIDE DEF NULL
<1>1. PICK first, last : first = Min(W) /\ last = Max(W)
  OBVIOUS
<1>2. /\ first \in W /\ \A i \in W : first <= i
      /\ last \in W /\ \A i \in W : i <= last
  BY <1>0, <1>1, Least, Greatest
<1>3. ASSUME NEW i \in W, i # last
      PROVE  /\ next[i] \in W /\ i < next[i]
             /\ \A u \in W : i < u => next[i] <= u
  <2> DEFINE S == {j \in W : j > i}
  <2>1. i \in Nat /\ last \in Nat /\ i <= last
    BY <1>0, <1>2
  <2>2. last > i
    BY <1>3, <2>1
  <2>3. S \subseteq Nat /\ S # {}
    BY <1>0, <1>2, <2>2
  <2>4. Min(S) \in S /\ \A y \in S : Min(S) <= y
    BY <2>3, Least
  <2>5. next[i] = Min(S)
    BY <1>1, <1>3
  <2>6. \A u \in W : u \in Nat
    BY <1>0
  <2> QED
    BY <2>1, <2>4, <2>5, <2>6
<1>4. next[last] = NULL
  BY <1>1, <1>2
<1>5. PICK id : id = [u \in Slots |-> u]
  OBVIOUS
<1>6. \A u \in W : id[u] = u /\ u \in Nat /\ u # NULL
  BY <1>0, <1>5
<1>7. Threads(next, first, NULL, W, id)
  <2>1. ASSUME NEW s \in W
        PROVE  /\ next[s] = NULL => \A u \in W : id[u] <= id[s]
               /\ next[s] # NULL =>
                    /\ next[s] \in W /\ id[s] < id[next[s]]
                    /\ \A u \in W : id[s] < id[u] => id[next[s]] <= id[u]
    <3>1. CASE s = last
      BY <1>2, <1>4, <1>6, <3>1
    <3>2. CASE s # last
      <4>1. /\ next[s] \in W /\ s < next[s]
            /\ \A u \in W : s < u => next[s] <= u
        BY <1>3, <3>2
      <4> QED
        BY <1>6, <4>1
    <3> QED
      BY <3>1, <3>2
  <2>2. first # NULL /\ \A u \in W : id[first] <= id[u]
    BY <1>2, <1>6
  <2>3. \A s, u \in W : id[s] = id[u] => s = u
    BY <1>6
  <2>4. \A s \in W : id[s] \in Int
    BY <1>6
  <2> QED
    BY <1>2, <2>1, <2>2, <2>3, <2>4 DEF Threads
<1>8. first \in Ptr
  BY <1>2 DEF Ptr
<1>9. PICK order : Line(next, first, order)
  BY <1>7, <1>8, LineExists
<1>10. /\ Members(order) = W /\ Len(order) = Cardinality(W)
       /\ \A i, j \in 1..Len(order) : i < j => id[order[i]] < id[order[j]]
  BY <1>7, <1>8, <1>9, LineMembers
<1>11. \A i \in 1..Len(order) : order[i] \in W
  BY <1>10 DEF Members
<1>12. order \in [1..Cardinality(W) -> W] /\ DOMAIN order = 1..Len(order)
  <2>1. order \in Seq(Slots)
    BY <1>9 DEF Line
  <2>2. order = [i \in 1..Len(order) |-> order[i]] /\ DOMAIN order = 1..Len(order)
    BY <2>1
  <2> QED
    BY <1>10, <1>11, <2>2
<1>13. Ordered(order, W)
  BY <1>6, <1>10, <1>11, <1>12 DEF Ordered
<1> QED
  BY <1>1, <1>9, <1>10, <1>13

\* The queue q and behind it the members of W in their order.
Extended(L, q, W) ==
  \E order : Ordered(order, W) /\ Line(L.next, L.head, q \o order)

\* The wake-up loop of kill() appends in the order of the slots.
LEMMA ReadyAllLine ==
  ASSUME NEW L, NEW sl, NEW Q, NEW Z, NEW r, Shape(L, sl, Q, Z, r),
         NEW q, Line(L.next, L.head, q),
         NEW W \in SUBSET Slots, W \cap Q = {}
  PROVE  Extended(ReadyAll(L, W), q, W)
<1>0. NULL \notin Slots
  BY SlotsAreNat
<1> HIDE DEF NULL
<1>1. CASE W = {}
  <2>1. ReadyAll(L, W) = L /\ Cardinality(W) = 0
    BY <1>1, FS_EmptySet DEF ReadyAll
  <2>2. PICK order : order = << >>
    OBVIOUS
  <2>3. Ordered(order, W)
    <3>1. 1..Cardinality(W) = {} /\ DOMAIN order = {}
      BY <2>1, <2>2
    <3>2. order \in [{} -> {}]
      BY <2>2
    <3> QED
      BY <1>1, <3>1, <3>2 DEF Ordered
  <2>4. q \o order = q
    BY <2>2 DEF Line
  <2> QED
    BY <2>1, <2>3, <2>4 DEF Extended
<1>2. CASE W # {}
  <2>1. Members(q) = Q
    BY LineRead
  <2>2. PICK n \in Nat : n = Len(q)
    BY DEF Line
  <2>3. /\ q \in Seq(Slots) /\ \A i \in 1..n : q[i] \in Slots \ W
        /\ L.head = IF n = 0 THEN NULL ELSE q[1]
        /\ \A i \in 1..n : L.next[q[i]] = IF i = n THEN NULL ELSE q[i+1]
    BY <2>1, <2>2 DEF Line, Members
  <2>4. IF n = 0 THEN L.tail = NULL ELSE L.tail = q[n]
    BY <2>2, TailLast
  <2>5. PICK M : M = ReadyAll(L, W)
    OBVIOUS
  <2>6. PICK first : first = Min(W)
    OBVIOUS
  <2>7. W # {L.tail}
    <3>1. L.tail \notin W
      <4>1. CASE n = 0
        BY <1>0, <2>4, <4>1
      <4>2. CASE n # 0
        <5>1. n \in 1..n
          BY <4>2
        <5> QED
          BY <2>3, <2>4, <4>2, <5>1
      <4> QED
        BY <4>1, <4>2
    <3> QED
      BY <3>1
  <2>8. /\ M.head = IF L.tail = NULL THEN first ELSE L.head
        /\ \A i \in W : M.next[i] = IF i # Max(W) THEN Min({j \in W : j > i}) ELSE NULL
        /\ \A i \in Slots \ W :
             M.next[i] = IF i = L.tail THEN first ELSE L.next[i]
    BY <1>2, <2>5, <2>6, <2>7 DEF ReadyAll
  <2>9. M \in Lists
    <3>1. Sound(L, Slots)
      BY AllSlotsSound DEF Shape
    <3>2. Sound(M, Slots)
      BY <2>5, <3>1, ReadyAllSound
    <3> QED
      BY <3>2 DEF Sound
  <2>10. PICK next \in [Slots -> Ptr] : next = M.next
    BY <2>9 DEF Lists
  <2>11. PICK order : /\ Ordered(order, W) /\ Line(next, first, order)
                      /\ Members(order) = W /\ Len(order) = Cardinality(W)
    BY <1>2, <2>6, <2>8, <2>10, OrderExists
  <2>12. PICK m \in Nat : m = Len(order)
    BY <2>11 DEF Line
  <2>13. /\ order \in Seq(Slots) /\ \A i \in 1..m : order[i] \in W
         /\ first = IF m = 0 THEN NULL ELSE order[1]
         /\ \A i \in 1..m : next[order[i]] = IF i = m THEN NULL ELSE order[i+1]
    BY <2>11, <2>12 DEF Line, Members
  <2>14. m # 0
    <3>1. \E i \in 1..m : TRUE
      BY <1>2, <2>11, <2>12 DEF Members
    <3> QED
      BY <3>1
  <2>15. PICK q2 : q2 = q \o order
    OBVIOUS
  <2>16. /\ q2 \in Seq(Slots) /\ Len(q2) = n + m
         /\ \A i \in 1..n : q2[i] = q[i]
         /\ \A i \in 1..m : q2[n+i] = order[i]
    BY <2>2, <2>3, <2>12, <2>13, <2>15
  <2>17. M.head = q2[1] /\ n + m # 0
    <3>1. CASE n = 0
      <4>1. 1 \in 1..m /\ n + 1 = 1
        BY <2>14, <3>1
      <4> QED
        BY <2>4, <2>8, <2>13, <2>14, <2>16, <3>1, <4>1
    <3>2. CASE n # 0
      <4>1. 1 \in 1..n /\ n \in 1..n
        BY <3>2
      <4>2. L.tail # NULL
        BY <1>0, <2>3, <2>4, <3>2, <4>1
      <4> QED
        BY <2>3, <2>8, <2>16, <3>2, <4>1, <4>2
    <3> QED
      BY <3>1, <3>2
  <2>18. ASSUME NEW i \in 1..n+m
         PROVE  next[q2[i]] = IF i = n + m THEN NULL ELSE q2[i+1]
    <3>1. CASE i < n
      <4>1. i \in 1..n /\ i + 1 \in 1..n /\ i # n /\ i # n + m /\ n \in 1..n /\ n # 0
        BY <3>1
      <4>2. L.next[q[i]] = q[i+1] /\ q[i+1] \in Slots /\ L.next[q[n]] = NULL
        BY <2>3, <4>1
      <4>3. q[i] # L.tail
        BY <1>0, <2>4, <4>1, <4>2
      <4>4. next[q[i]] = L.next[q[i]]
        BY <2>3, <2>8, <2>10, <4>1, <4>3
      <4> QED
        BY <2>16, <4>1, <4>2, <4>4
    <3>2. CASE i = n
      <4>1. i \in 1..n /\ n # 0 /\ n # n + m /\ 1 \in 1..m
        BY <2>14, <3>2
      <4>2. q2[i] = L.tail /\ L.tail \in Slots \ W
        BY <2>3, <2>4, <2>16, <3>2, <4>1
      <4>3. next[q2[i]] = first
        BY <2>8, <2>10, <4>2
      <4> QED
        BY <2>13, <2>14, <2>16, <3>2, <4>1, <4>3
    <3>3. CASE i > n
      <4>1. PICK j \in 1..m : i = n + j
        <5>1. i - n \in 1..m /\ i = n + (i - n)
          BY <3>3
        <5> QED
          BY <5>1
      <4>2. q2[i] = order[j]
        BY <2>16, <4>1
      <4>3. CASE j = m
        BY <2>13, <4>1, <4>2, <4>3
      <4>4. CASE j # m
        <5>1. j + 1 \in 1..m /\ i + 1 = n + (j + 1) /\ i # n + m
          BY <4>1, <4>4
        <5>2. q2[i+1] = order[j+1]
          <6>1. q2[n+(j+1)] = order[j+1]
            BY <2>16, <5>1
          <6> QED
            BY <5>1, <6>1
        <5> QED
          BY <2>13, <4>2, <4>4, <5>1, <5>2
      <4> QED
        BY <4>3, <4>4
    <3>4. i \in Int
      OBVIOUS
    <3> QED
      BY <3>1, <3>2, <3>3, <3>4
  <2>19. Line(M.next, M.head, q2)
    BY <2>10, <2>16, <2>17, <2>18 DEF Line
  <2> QED
    BY <2>5, <2>11, <2>15, <2>19 DEF Extended
<1> QED
  BY <1>1, <1>2

-----------------------------------------------------------------------------
(* The countdowns. *)

\* The recursive definition of Sums has a value.
LEMMA SumsStep ==
  ASSUME NEW at \in [Nat -> Ptr], NEW diff \in [Slots -> Word],
         NEW key, key = [i \in Nat |-> IF at[i] = NULL THEN 0 ELSE diff[at[i]]]
  PROVE  /\ Sums(at, diff)[0] = key[0]
         /\ \A i \in Nat : Sums(at, diff)[i+1] = Sums(at, diff)[i] + key[i+1]
<1>0. key \in [Nat -> Int]
  <2>1. \A i \in Nat : at[i] # NULL => diff[at[i]] \in Int
    BY TableAssumption DEF Ptr, Word
  <2> QED
    BY <2>1
<1> HIDE DEF NULL
<1> DEFINE S == [n : Nat, v : Int]
<1>1. PICK g : g = [w \in S |-> [n |-> w.n + 1, v |-> w.v + key[w.n + 1]]]
  OBVIOUS
<1>2. g \in [S -> S]
  BY <1>0, <1>1
<1>3. PICK a : a = [n |-> 0, v |-> key[0]]
  OBVIOUS
<1>4. a \in S
  BY <1>0, <1>3
<1>5. PICK f \in [Nat -> S] :
        f[0] = a /\ \A i \in Nat : i # 0 => f[i] = g[f[i-1]]
  <2> HIDE DEF S
  <2>1. Iterable(g, a, S)
    BY <1>2, <1>4, Iterate
  <2> QED
    BY <2>1 DEF Iterable
<1>6. ASSUME NEW i \in Nat
      PROVE  /\ f[i+1].n = f[i].n + 1
             /\ f[i+1].v = f[i].v + key[f[i].n + 1]
  <2>1. i + 1 \in Nat /\ i + 1 # 0 /\ (i + 1) - 1 = i
    OBVIOUS
  <2>2. f[i+1] = g[f[i]] /\ f[i] \in S
    BY <1>5, <2>1
  <2> QED
    BY <1>1, <2>2
<1>7. \A i \in Nat : f[i].n = i
  <2> DEFINE T == {i \in Nat : f[i].n = i}
  <2>1. 0 \in T
    BY <1>3, <1>5
  <2>2. ASSUME NEW i \in Nat, i \in T PROVE i + 1 \in T
    BY <1>6, <2>2
  <2>3. Nat \subseteq T
    <3> HIDE DEF T
    <3> QED
      BY <2>1, <2>2, NatInduct
  <2> QED
    BY <2>3
<1> DEFINE h == [i \in Nat |-> f[i].v]
<1>8. ASSUME NEW i \in Nat
      PROVE  h[i] = (IF i = 0 THEN 0 ELSE h[i-1])
                      + (IF at[i] = NULL THEN 0 ELSE diff[at[i]])
  <2>1. CASE i = 0
    BY <1>0, <1>3, <1>5, <2>1
  <2>2. CASE i # 0
    <3>1. i - 1 \in Nat /\ (i - 1) + 1 = i
      BY <2>2
    <3>2. f[i].v = f[i-1].v + key[f[i-1].n + 1]
      <4>1. PICK j \in Nat : j = i - 1
        BY <3>1
      <4>2. f[j+1].v = f[j].v + key[f[j].n + 1] /\ j + 1 = i
        BY <1>6, <3>1, <4>1
      <4> QED
        BY <4>1, <4>2
    <3>3. f[i-1].n + 1 = i
      BY <1>7, <3>1
    <3>4. h[i] = f[i].v /\ h[i-1] = f[i-1].v
      BY <3>1
    <3>5. key[i] = IF at[i] = NULL THEN 0 ELSE diff[at[i]]
      OBVIOUS
    <3> QED
      BY <2>2, <3>2, <3>3, <3>4, <3>5
  <2> QED
    BY <2>1, <2>2
<1>9. h = [i \in Nat |-> (IF i = 0 THEN 0 ELSE h[i-1])
                           + (IF at[i] = NULL THEN 0 ELSE diff[at[i]])]
  BY <1>8
<1> HIDE DEF h
<1> DEFINE sum == CHOOSE k : k = [i \in Nat |->
                    (IF i = 0 THEN 0 ELSE k[i-1])
                      + (IF at[i] = NULL THEN 0 ELSE diff[at[i]])]
<1>10. sum = [i \in Nat |-> (IF i = 0 THEN 0 ELSE sum[i-1])
                              + (IF at[i] = NULL THEN 0 ELSE diff[at[i]])]
  BY <1>9
<1>11. Sums(at, diff) = sum
  BY DEF Sums
<1> HIDE DEF sum
<1>12. \A i \in Nat : sum[i] = (IF i = 0 THEN 0 ELSE sum[i-1]) + key[i]
  BY <1>10
<1>13. sum[0] = key[0]
  BY <1>0, <1>12
<1>14. ASSUME NEW i \in Nat PROVE sum[i+1] = sum[i] + key[i+1]
  <2>1. i + 1 \in Nat /\ i + 1 # 0 /\ (i + 1) - 1 = i
    OBVIOUS
  <2> QED
    BY <1>12, <2>1
<1> QED
  BY <1>11, <1>13, <1>14

\* Along the sleep list, c grows by the keys.
Counts(next, start, diff, C, c) ==
  /\ \A s \in C : c[s] \in Int
  /\ start # NULL => c[start] = diff[start]
  /\ \A s \in C : next[s] # NULL => c[next[s]] = c[s] + diff[next[s]]

\* What Remaining computes.
RemainingIn(next, start, diff, s) ==
  Sums(Chain(next, start), diff)
    [CHOOSE i \in 0..MAX_PROC : Chain(next, start)[i] = s]

\* at walks along the members of C, and sum adds up the keys on the way.
Walk(at, sum, next, start, diff, C) ==
  /\ at[0] = start /\ at \in [Nat -> C \cup {NULL}]
  /\ \A i \in Nat : at[i+1] = IF at[i] = NULL THEN NULL ELSE next[at[i]]
  /\ sum[0] = IF start = NULL THEN 0 ELSE diff[start]
  /\ \A i \in Nat : at[i+1] # NULL => sum[i+1] = sum[i] + diff[at[i+1]]
  /\ \A i, j \in Nat : at[i] # NULL /\ at[i] = at[j] => i = j
  /\ \A s \in C : \E i \in 0..MAX_PROC : at[i] = s

\* The walk along a list and the sums along the walk.
LEMMA WalkSums ==
  ASSUME NEW next \in [Slots -> Ptr], NEW start \in Ptr,
         NEW C \in SUBSET Slots, NEW r, Threads(next, start, NULL, C, r),
         NEW diff \in [Slots -> Word],
         NEW at, at = Chain(next, start), NEW sum, sum = Sums(at, diff)
  PROVE  Walk(at, sum, next, start, diff, C)
<1>0. NULL \notin Slots /\ MAX_PROC \in Nat
  BY SlotsAreNat, TableAssumption
<1> HIDE DEF NULL
<1>1. Follows(at, next, start, NULL)
  BY ChainFollows
<1>2. IsFiniteSet(C) /\ Cardinality(C) <= MAX_PROC /\ NULL \notin C
  BY <1>0, SlotsFinite
<1>3. /\ at[0] = start
      /\ \A i \in Nat : at[i+1] = IF at[i] = NULL THEN NULL ELSE next[at[i]]
  BY <1>1, FollowStep
<1>4. at \in [Nat -> C \cup {NULL}]
  <2>1. \A i \in Nat : at[i] \in C \cup {NULL}
    BY <1>1, <1>2, OnlyMembers
  <2>2. DOMAIN at = Nat /\ at = [i \in Nat |-> at[i]]
    BY <1>1 DEF Follows
  <2> QED
    BY <2>1, <2>2
<1>5. at \in [Nat -> Ptr]
  BY <1>4 DEF Ptr
<1>6. PICK key : key = [i \in Nat |-> IF at[i] = NULL THEN 0 ELSE diff[at[i]]]
  OBVIOUS
<1>7. sum[0] = key[0] /\ \A i \in Nat : sum[i+1] = sum[i] + key[i+1]
  BY <1>5, <1>6, SumsStep
<1>8. sum[0] = IF start = NULL THEN 0 ELSE diff[start]
  BY <1>3, <1>6, <1>7
<1>9. \A i \in Nat : at[i+1] # NULL => sum[i+1] = sum[i] + diff[at[i+1]]
  BY <1>6, <1>7
<1>10. ASSUME NEW i \in Nat, NEW j \in Nat, at[i] # NULL, at[i] = at[j], i < j
       PROVE  FALSE
  <2>1. r[at[i]] < r[at[j]]
    BY <1>1, <1>2, <1>10, RanksRise
  <2>2. r[at[i]] \in Int
    BY <1>4, <1>10 DEF Threads
  <2> QED
    BY <1>10, <2>1, <2>2
<1>11. \A i, j \in Nat : at[i] # NULL /\ at[i] = at[j] => i = j
  <2> SUFFICES ASSUME NEW i \in Nat, NEW j \in Nat, at[i] # NULL, at[i] = at[j], i # j
               PROVE  FALSE
    OBVIOUS
  <2>1. i < j \/ j < i
    OBVIOUS
  <2> QED
    BY <1>10, <2>1
<1>12. at[MAX_PROC] = NULL
  BY <1>0, <1>1, <1>2, ListEnds
<1>13. \A s \in C : \E i \in 0..MAX_PROC : at[i] = s
  BY <1>0, <1>1, <1>2, <1>12, AllMembers
<1> QED
  BY <1>3, <1>4, <1>8, <1>9, <1>11, <1>13 DEF Walk

\* What Remaining computes is the only such c.
LEMMA CountsRead ==
  ASSUME NEW next \in [Slots -> Ptr], NEW start \in Ptr,
         NEW C \in SUBSET Slots, NEW r, Threads(next, start, NULL, C, r),
         NEW diff \in [Slots -> Word], NEW c, Counts(next, start, diff, C, c)
  PROVE  \A s \in C : RemainingIn(next, start, diff, s) = c[s]
<1>0. NULL \notin Slots /\ MAX_PROC \in Nat
  BY SlotsAreNat, TableAssumption
<1> HIDE DEF NULL
<1>1. PICK at : at = Chain(next, start)
  OBVIOUS
<1>2. PICK sum : sum = Sums(at, diff)
  OBVIOUS
<1>3. /\ at[0] = start /\ at \in [Nat -> C \cup {NULL}]
      /\ \A i \in Nat : at[i+1] = IF at[i] = NULL THEN NULL ELSE next[at[i]]
      /\ sum[0] = IF start = NULL THEN 0 ELSE diff[start]
      /\ \A i \in Nat : at[i+1] # NULL => sum[i+1] = sum[i] + diff[at[i+1]]
      /\ \A s \in C : \E i \in 0..MAX_PROC : at[i] = s
  <2>1. Walk(at, sum, next, start, diff, C)
    BY <1>1, <1>2, WalkSums
  <2> QED
    BY <2>1 DEF Walk
<1>4. \A i \in Nat : at[i] # NULL => sum[i] = c[at[i]]
  <2> DEFINE T == {i \in Nat : at[i] # NULL => sum[i] = c[at[i]]}
  <2>1. 0 \in T
    BY <1>3 DEF Counts
  <2>2. ASSUME NEW i \in Nat, i \in T PROVE i + 1 \in T
    <3> SUFFICES ASSUME at[i+1] # NULL PROVE sum[i+1] = c[at[i+1]]
      OBVIOUS
    <3>1. at[i] # NULL /\ at[i+1] = next[at[i]] /\ at[i] \in C
      BY <1>3
    <3>2. sum[i+1] = c[at[i]] + diff[at[i+1]]
      BY <1>3, <2>2, <3>1
    <3> QED
      BY <3>1, <3>2 DEF Counts
  <2>3. Nat \subseteq T
    <3> HIDE DEF T
    <3> QED
      BY <2>1, <2>2, NatInduct
  <2> QED
    BY <2>3
<1>5. ASSUME NEW s \in C PROVE RemainingIn(next, start, diff, s) = c[s]
  <2>1. PICK i : i = CHOOSE j \in 0..MAX_PROC : at[j] = s
    OBVIOUS
  <2>2. i \in 0..MAX_PROC /\ at[i] = s
    BY <1>3, <2>1
  <2>3. RemainingIn(next, start, diff, s) = sum[i]
    BY <1>1, <1>2, <2>1 DEF RemainingIn
  <2>4. i \in Nat /\ s # NULL
    BY <1>0, <2>2
  <2> QED
    BY <1>4, <2>2, <2>3, <2>4
<1> QED
  BY <1>5

\* There is such a c.
LEMMA CountsExist ==
  ASSUME NEW next \in [Slots -> Ptr], NEW start \in Ptr,
         NEW C \in SUBSET Slots, NEW r, Threads(next, start, NULL, C, r),
         NEW diff \in [Slots -> Word]
  PROVE  \E c \in [Slots -> Int] : Counts(next, start, diff, C, c)
<1>0. NULL \notin Slots /\ MAX_PROC \in Nat /\ \A s \in Slots : diff[s] \in Int
  BY SlotsAreNat, TableAssumption DEF Word
<1> HIDE DEF NULL
<1>1. PICK at : at = Chain(next, start)
  OBVIOUS
<1>2. PICK sum : sum = Sums(at, diff)
  OBVIOUS
<1>3. /\ at[0] = start /\ at \in [Nat -> C \cup {NULL}]
      /\ \A i \in Nat : at[i+1] = IF at[i] = NULL THEN NULL ELSE next[at[i]]
      /\ sum[0] = IF start = NULL THEN 0 ELSE diff[start]
      /\ \A i \in Nat : at[i+1] # NULL => sum[i+1] = sum[i] + diff[at[i+1]]
      /\ \A i, j \in Nat : at[i] # NULL /\ at[i] = at[j] => i = j
      /\ \A s \in C : \E i \in 0..MAX_PROC : at[i] = s
  <2>1. Walk(at, sum, next, start, diff, C)
    BY <1>1, <1>2, WalkSums
  <2> QED
    BY <2>1 DEF Walk
<1>4. \A i \in Nat : at[i] # NULL => sum[i] \in Int
  <2> DEFINE T == {i \in Nat : at[i] # NULL => sum[i] \in Int}
  <2>1. 0 \in T
    <3>1. at[0] # NULL => start \in Slots
      BY <1>3
    <3> QED
      BY <1>0, <1>3, <3>1
  <2>2. ASSUME NEW i \in Nat, i \in T PROVE i + 1 \in T
    <3> SUFFICES ASSUME at[i+1] # NULL PROVE sum[i+1] \in Int
      OBVIOUS
    <3>1. at[i] # NULL /\ at[i+1] \in Slots
      BY <1>3
    <3> QED
      BY <1>0, <1>3, <2>2, <3>1
  <2>3. Nat \subseteq T
    <3> HIDE DEF T
    <3> QED
      BY <2>1, <2>2, NatInduct
  <2> QED
    BY <2>3
<1> DEFINE c == [s \in Slots |-> IF s \in C
                                 THEN sum[CHOOSE i \in Nat : at[i] = s] ELSE 0]
<1>5. ASSUME NEW i \in Nat, at[i] # NULL PROVE c[at[i]] = sum[i] /\ at[i] \in C
  <2>1. at[i] \in C /\ at[i] \in Slots
    BY <1>3, <1>5
  <2>2. PICK j : j = CHOOSE k \in Nat : at[k] = at[i]
    OBVIOUS
  <2>3. j \in Nat /\ at[j] = at[i]
    BY <2>2
  <2>4. j = i
    BY <1>3, <1>5, <2>3
  <2> QED
    BY <2>1, <2>2, <2>4
<1>6. ASSUME NEW s \in C PROVE \E i \in Nat : at[i] = s /\ at[i] # NULL
  BY <1>0, <1>3
<1>7. c \in [Slots -> Int]
  <2>1. ASSUME NEW s \in C PROVE sum[CHOOSE i \in Nat : at[i] = s] \in Int
    <3>1. PICK j : j = CHOOSE i \in Nat : at[i] = s
      OBVIOUS
    <3>2. j \in Nat /\ at[j] = s /\ at[j] # NULL
      BY <1>0, <1>6, <3>1
    <3> QED
      BY <1>4, <3>1, <3>2
  <2> QED
    BY <2>1
<1> HIDE DEF c
<1>8. start # NULL => c[start] = diff[start]
  BY <1>3, <1>5
<1>9. ASSUME NEW s \in C, next[s] # NULL
      PROVE  c[next[s]] = c[s] + diff[next[s]]
  <2>1. PICK i \in Nat : at[i] = s /\ at[i] # NULL
    BY <1>6
  <2>2. at[i+1] = next[s] /\ i + 1 \in Nat
    BY <1>3, <2>1
  <2> QED
    BY <1>3, <1>5, <1>9, <2>1, <2>2
<1> QED
  BY <1>7, <1>8, <1>9 DEF Counts

\* No sleeper wakes before the first one.
LEMMA CountsFloor ==
  ASSUME NEW next \in [Slots -> Ptr], NEW start \in Ptr,
         NEW C \in SUBSET Slots, NEW r, Threads(next, start, NULL, C, r),
         NEW diff \in [Slots -> Word], NEW c, Counts(next, start, diff, C, c),
         NEW s \in C
  PROVE  c[s] >= diff[start]
<1>0. NULL \notin Slots /\ MAX_PROC \in Nat /\ \A u \in Slots : diff[u] \in Nat
  BY SlotsAreNat, TableAssumption DEF Word
<1> HIDE DEF NULL
<1>1. PICK at : at = Chain(next, start)
  OBVIOUS
<1>2. PICK sum : sum = Sums(at, diff)
  OBVIOUS
<1>3. /\ at[0] = start /\ at \in [Nat -> C \cup {NULL}]
      /\ \A i \in Nat : at[i+1] = IF at[i] = NULL THEN NULL ELSE next[at[i]]
      /\ \A u \in C : \E i \in 0..MAX_PROC : at[i] = u
  <2>1. Walk(at, sum, next, start, diff, C)
    BY <1>1, <1>2, WalkSums
  <2> QED
    BY <2>1 DEF Walk
<1>4. start # NULL /\ start \in C
  BY DEF Threads
<1>5. \A i \in Nat : at[i] # NULL => c[at[i]] >= diff[start]
  <2> DEFINE T == {i \in Nat : at[i] # NULL => c[at[i]] >= diff[start]}
  <2>1. 0 \in T
    BY <1>0, <1>3, <1>4 DEF Counts
  <2>2. ASSUME NEW i \in Nat, i \in T PROVE i + 1 \in T
    <3> SUFFICES ASSUME at[i+1] # NULL PROVE c[at[i+1]] >= diff[start]
      OBVIOUS
    <3>1. at[i] # NULL /\ at[i+1] = next[at[i]] /\ at[i] \in C /\ at[i+1] \in C
      BY <1>3
    <3>2. c[at[i+1]] = c[at[i]] + diff[at[i+1]] /\ c[at[i]] \in Int
      BY <3>1 DEF Counts
    <3>3. diff[at[i+1]] \in Nat /\ diff[start] \in Nat /\ c[at[i]] >= diff[start]
      BY <1>0, <1>4, <2>2, <3>1
    <3> QED
      BY <3>2, <3>3
  <2>3. Nat \subseteq T
    <3> HIDE DEF T
    <3> QED
      BY <2>1, <2>2, NatInduct
  <2> QED
    BY <2>3
<1>6. PICK i \in 0..MAX_PROC : at[i] = s
  BY <1>3
<1> QED
  BY <1>0, <1>5, <1>6

\* What the search of sleep() has left over is what the countdown of the place
\* it found leaves of the new one.
LEMMA SearchCounts ==
  ASSUME TypeOK, NEW L, NEW Q, NEW Z, NEW r, Shape(L, sleepQ, Q, Z, r),
         sleepQ # NULL, NEW len \in Word, sleepdiff[sleepQ] <= len,
         NEW c, Counts(L.next, sleepQ, sleepdiff, Z, c),
         NEW w, w = SleepSearch(L.next, len)
  PROVE  /\ w.tmp \in Z /\ w.len \in Word /\ c[w.tmp] + w.len = len
         /\ L.next[w.tmp] # NULL => w.len < sleepdiff[L.next[w.tmp]]
<1>0. /\ WORD \in Nat /\ MAX_PROC \in Nat /\ NULL \notin Slots
      /\ \A s \in Slots : sleepdiff[s] \in Nat /\ sleepdiff[s] < WORD
  <2>1. WORD \in Nat /\ MAX_PROC \in Nat
    BY TableAssumption
  <2>2. \A s \in Slots : sleepdiff[s] \in Word
    BY DEF TypeOK
  <2>3. \A d \in Word : d \in Nat /\ d < WORD
    BY <2>1 DEF Word
  <2> QED
    BY <2>1, <2>2, <2>3, SlotsAreNat
<1> HIDE DEF NULL
<1>1. /\ Threads(L.next, sleepQ, NULL, Z, r) /\ Z \subseteq Slots /\ sleepQ \in Z
  BY DEF Shape, Threads
<1>2. PICK at : /\ Searches(at, L.next, len, Z)
                /\ SleepSearch(L.next, len) = at[WORD * MAX_PROC]
  <2>1. Searched(L.next, len, Z)
    BY SearchRuns
  <2> QED
    BY <2>1 DEF Searched
<1>3. /\ at[0] = [tmp |-> sleepQ, len |-> (len - sleepdiff[sleepQ]) % WORD]
      /\ \A i \in Nat : /\ at[i].tmp \in Z /\ at[i].len \in Word
                        /\ at[i+1] = SearchStep(L.next, at[i])
  BY <1>2 DEF Searches
<1>4. \A i \in Nat : c[at[i].tmp] + at[i].len = len
  <2> DEFINE T == {i \in Nat : c[at[i].tmp] + at[i].len = len}
  <2>1. 0 \in T
    <3>1. len - sleepdiff[sleepQ] \in Nat /\ len - sleepdiff[sleepQ] < WORD
      BY <1>0, <1>1 DEF Word
    <3>2. (len - sleepdiff[sleepQ]) % WORD = len - sleepdiff[sleepQ]
      BY <1>0, <3>1
    <3>3. at[0].tmp = sleepQ /\ at[0].len = len - sleepdiff[sleepQ]
      BY <1>3, <3>2
    <3>4. c[sleepQ] = sleepdiff[sleepQ] /\ sleepdiff[sleepQ] \in Nat /\ len \in Nat
      BY <1>0, <1>1 DEF Counts, Word
    <3> QED
      BY <3>3, <3>4
  <2>2. ASSUME NEW i \in Nat, i \in T PROVE i + 1 \in T
    <3>0. at[i+1] = SearchStep(L.next, at[i]) /\ at[i].tmp \in Z /\ at[i].len \in Word
      BY <1>3
    <3>1. CASE Passes(L.next, at[i])
      <4>1. PICK u, k : u = L.next[at[i].tmp] /\ k = at[i].len
        OBVIOUS
      <4>2. u # NULL /\ k >= sleepdiff[u]
        BY <3>1, <4>1 DEF Passes
      <4>3. u \in Z /\ u \in Slots
        BY <1>1, <3>0, <4>1, <4>2 DEF Threads
      <4>4. c[u] = c[at[i].tmp] + sleepdiff[u] /\ c[at[i].tmp] \in Int
        BY <3>0, <4>1, <4>2 DEF Counts
      <4>5. /\ k \in Nat /\ sleepdiff[u] \in Nat
            /\ k - sleepdiff[u] \in Nat /\ k - sleepdiff[u] < WORD
        BY <1>0, <3>0, <4>1, <4>2, <4>3 DEF Word
      <4>6. (k - sleepdiff[u]) % WORD = k - sleepdiff[u]
        BY <1>0, <4>5
      <4>7. at[i+1].tmp = u /\ at[i+1].len = k - sleepdiff[u]
        BY <3>0, <3>1, <4>1, <4>6 DEF SearchStep
      <4>8. c[at[i].tmp] + k = len
        BY <2>2, <4>1
      <4> QED
        BY <4>4, <4>5, <4>7, <4>8
    <3>2. CASE ~Passes(L.next, at[i])
      BY <2>2, <3>0, <3>2 DEF SearchStep
    <3> QED
      BY <3>1, <3>2
  <2>3. Nat \subseteq T
    <3> HIDE DEF T
    <3> QED
      BY <2>1, <2>2, NatInduct
  <2> QED
    BY <2>3
<1>5. WORD * MAX_PROC \in Nat
  BY <1>0
<1>6. w.tmp \in Z /\ w.len \in Word /\ c[w.tmp] + w.len = len
  BY <1>2, <1>3, <1>4, <1>5
<1>7. ~Passes(L.next, w)
  BY SearchEnds
<1>8. ASSUME L.next[w.tmp] # NULL PROVE w.len < sleepdiff[L.next[w.tmp]]
  <2>1. L.next[w.tmp] \in Slots
    BY <1>1, <1>6, <1>8 DEF Threads
  <2>2. ~(w.len >= sleepdiff[L.next[w.tmp]])
    BY <1>7, <1>8 DEF Passes
  <2>3. sleepdiff[L.next[w.tmp]] \in Nat /\ w.len \in Nat
    BY <1>0, <1>6, <2>1 DEF Word
  <2> QED
    BY <2>2, <2>3
<1> QED
  BY <1>6, <1>8

\* In a list nobody leads to the first and no two lead to the same.
LEMMA OneLink ==
  ASSUME NEW next, NEW start, NEW C, NEW r, Threads(next, start, NULL, C, r)
  PROVE  /\ \A s \in C : next[s] # NULL => next[s] # start
         /\ \A s, u \in C : next[s] # NULL /\ next[s] = next[u] => s = u
<1> HIDE DEF NULL
<1>1. ASSUME NEW s \in C, next[s] # NULL PROVE next[s] # start
  <2>1. /\ next[s] \in C /\ r[s] < r[next[s]] /\ r[s] \in Int /\ r[next[s]] \in Int
        /\ start # NULL /\ r[start] <= r[s]
    BY <1>1 DEF Threads
  <2> QED
    BY <2>1
<1>2. ASSUME NEW s \in C, NEW u \in C, next[s] # NULL, next[s] = next[u], r[s] < r[u]
      PROVE  FALSE
  <2>1. /\ next[s] \in C /\ r[u] < r[next[u]] /\ r[next[s]] <= r[u]
        /\ r[u] \in Int /\ r[next[s]] \in Int
    BY <1>2 DEF Threads
  <2> QED
    BY <1>2, <2>1
<1>3. ASSUME NEW s \in C, NEW u \in C, next[s] # NULL, next[s] = next[u], s # u
      PROVE  FALSE
  <2>1. r[s] \in Int /\ r[u] \in Int /\ r[s] # r[u]
    BY <1>3 DEF Threads
  <2>2. r[s] < r[u] \/ r[u] < r[s]
    BY <2>1
  <2> QED
    BY <1>2, <1>3, <2>2
<1> QED
  BY <1>1, <1>3

\* The countdowns when x is put in front.
LEMMA CountsPush ==
  ASSUME NEW next, NEW start, NEW C, NEW r, Threads(next, start, NULL, C, r),
         NULL \notin C, NEW diff, NEW c, Counts(next, start, diff, C, c),
         NEW x, x \notin C, x # NULL, NEW len \in Int,
         NEW next2, next2[x] = start, \A s \in C : next2[s] = next[s],
         NEW diff2, diff2[x] = len, start # NULL => diff2[start] = diff[start] - len,
         \A s \in C \ {start} : diff2[s] = diff[s],
         NEW c2, c2[x] = len, \A s \in C : c2[s] = c[s]
  PROVE  Counts(next2, x, diff2, C \cup {x}, c2)
<1> HIDE DEF NULL
<1>1. \A s \in C \cup {x} : c2[s] \in Int
  BY DEF Counts
<1>2. ASSUME next2[x] # NULL PROVE c2[next2[x]] = c2[x] + diff2[next2[x]]
  <2>1. start # NULL /\ start \in C
    BY <1>2 DEF Threads
  <2>2. c[start] = diff[start] /\ c[start] \in Int
    BY <2>1 DEF Counts
  <2> QED
    BY <2>1, <2>2
<1>3. ASSUME NEW s \in C, next2[s] # NULL PROVE c2[next2[s]] = c2[s] + diff2[next2[s]]
  <2>1. next[s] # NULL /\ next[s] \in C
    BY <1>3 DEF Threads
  <2>2. next[s] # start
    BY <2>1, OneLink
  <2>3. c[next[s]] = c[s] + diff[next[s]]
    BY <2>1 DEF Counts
  <2> QED
    BY <2>1, <2>2, <2>3
<1> QED
  BY <1>1, <1>2, <1>3 DEF Counts

\* next2 is next with x linked in behind spot.
LinksIn(next, next2, C, x, spot) ==
  /\ next2[x] = next[spot] /\ next2[spot] = x
  /\ \A s \in C \ {spot} : next2[s] = next[s]

\* diff2 is diff with key d for x and as much less for the one behind it.
KeysIn(next, diff, diff2, C, x, spot, d) ==
  /\ diff2[x] = d
  /\ next[spot] # NULL => diff2[next[spot]] = diff[next[spot]] - d
  /\ \A s \in C : s # next[spot] => diff2[s] = diff[s]

\* The countdowns when x is put behind spot.
LEMMA CountsInsert ==
  ASSUME NEW next, NEW start, NEW C, NEW r, Threads(next, start, NULL, C, r),
         NULL \notin C, NEW diff, NEW c, Counts(next, start, diff, C, c),
         \A s \in C : diff[s] \in Int,
         NEW x, x \notin C, x # NULL, NEW spot \in C, NEW d \in Int,
         NEW next2, LinksIn(next, next2, C, x, spot),
         NEW diff2, KeysIn(next, diff, diff2, C, x, spot, d),
         NEW c2, c2[x] = c[spot] + d, \A s \in C : c2[s] = c[s]
  PROVE  Counts(next2, start, diff2, C \cup {x}, c2)
<1> HIDE DEF NULL
<1> USE DEF LinksIn, KeysIn
<1>1. \A s \in C \cup {x} : c2[s] \in Int
  BY DEF Counts
<1>2. start # NULL => c2[start] = diff2[start]
  <2> SUFFICES ASSUME start # NULL PROVE c2[start] = diff2[start]
    OBVIOUS
  <2>1. start \in C /\ c[start] = diff[start]
    BY DEF Threads, Counts
  <2>2. start # next[spot]
    BY OneLink
  <2> QED
    BY <2>1, <2>2
<1>3. ASSUME next2[x] # NULL PROVE c2[next2[x]] = c2[x] + diff2[next2[x]]
  <2>1. next[spot] # NULL /\ next[spot] \in C
    BY <1>3 DEF Threads
  <2>2. c[next[spot]] = c[spot] + diff[next[spot]] /\ c[spot] \in Int
    BY <2>1 DEF Counts
  <2>3. diff[next[spot]] \in Int
    BY <2>1
  <2> QED
    BY <2>1, <2>2, <2>3
<1>4. ASSUME NEW s \in C, next2[s] # NULL PROVE c2[next2[s]] = c2[s] + diff2[next2[s]]
  <2>1. CASE s = spot
    BY <2>1
  <2>2. CASE s # spot
    <3>1. next[s] # NULL /\ next[s] \in C /\ next2[s] = next[s]
      BY <1>4, <2>2 DEF Threads
    <3>2. next[s] # next[spot]
      BY <2>2, <3>1, OneLink
    <3>3. c[next[s]] = c[s] + diff[next[s]]
      BY <3>1 DEF Counts
    <3> QED
      BY <3>1, <3>2, <3>3
  <2> QED
    BY <2>1, <2>2
<1> QED
  BY <1>1, <1>2, <1>3, <1>4 DEF Counts

\* The countdowns when the key of the first is decremented.
LEMMA CountsTick ==
  ASSUME NEW next, NEW start, NEW C, NEW r, Threads(next, start, NULL, C, r),
         NULL \notin C, NEW diff, NEW c, Counts(next, start, diff, C, c),
         \A s \in C : diff[s] \in Int,
         NEW diff2, start # NULL => diff2[start] = diff[start] - 1,
         \A s \in C \ {start} : diff2[s] = diff[s],
         NEW c2, \A s \in C : c2[s] = c[s] - 1
  PROVE  Counts(next, start, diff2, C, c2)
<1> HIDE DEF NULL
<1>1. \A s \in C : c2[s] \in Int
  BY DEF Counts
<1>2. start # NULL => c2[start] = diff2[start]
  BY DEF Threads, Counts
<1>3. ASSUME NEW s \in C, next[s] # NULL PROVE c2[next[s]] = c2[s] + diff2[next[s]]
  <2>1. next[s] \in C /\ diff[next[s]] \in Int
    BY <1>3 DEF Threads
  <2>2. next[s] # start
    BY <1>3, OneLink
  <2>3. c[next[s]] = c[s] + diff[next[s]] /\ c[s] \in Int
    BY <1>3 DEF Counts
  <2> QED
    BY <2>1, <2>2, <2>3
<1> QED
  BY <1>1, <1>2, <1>3 DEF Counts

\* The countdowns when the first has expired and leaves.
LEMMA CountsDrop ==
  ASSUME NEW next, NEW start, NEW C, NEW r, Threads(next, start, NULL, C, r),
         NULL \notin C, NEW diff, NEW c, Counts(next, start, diff, C, c),
         \A s \in C : diff[s] \in Int,
         start # NULL, diff[start] = 0,
         NEW next2, \A s \in C \ {start} : next2[s] = next[s]
  PROVE  Counts(next2, next[start], diff, C \ {start}, c)
<1> HIDE DEF NULL
<1>1. start \in C /\ c[start] = 0
  BY DEF Threads, Counts
<1>2. ASSUME next[start] # NULL PROVE c[next[start]] = diff[next[start]]
  <2>1. c[next[start]] = c[start] + diff[next[start]] /\ next[start] \in C
    BY <1>1, <1>2 DEF Counts, Threads
  <2> QED
    BY <1>1, <2>1
<1> QED
  BY <1>2 DEF Counts

-----------------------------------------------------------------------------
(* The refinement mapping. *)

\* No sleep is shorter than a tick: such a sleep has key 0, which the next tick
\* wraps.
WholeTicks ==
  \A ms \in SleepLens : ms >= 1 => ms \div MILLISECONDS_TICK # 0

\* What Asleep reads off the sleep list.
AsleepIn(next, start, diff) ==
  [s \in {Chain(next, start)[i] : i \in 0..MAX_PROC} \ {NULL} |->
     RemainingIn(next, start, diff, s)]

Sleeping(Z, c) == [s \in Z |-> c[s]]

\* What the mapping makes of a state: a queue q and countdowns c.
Maps(L, sl, diff, Q, Z, r, q, c) ==
  /\ Shape(L, sl, Q, Z, r)
  /\ diff \in [Slots -> Word]
  /\ Line(L.next, L.head, q)
  /\ Counts(L.next, sl, diff, Z, c)

\* Asleep reads the countdowns.
LEMMA AsleepRead ==
  ASSUME NEW L, NEW sl, NEW Q, NEW Z, NEW r, Shape(L, sl, Q, Z, r),
         NEW diff \in [Slots -> Word], NEW c, Counts(L.next, sl, diff, Z, c)
  PROVE  AsleepIn(L.next, sl, diff) = Sleeping(Z, c)
<1>1. /\ L.next \in [Slots -> Ptr] /\ sl \in Ptr /\ Z \in SUBSET Slots
      /\ Threads(L.next, sl, NULL, Z, r)
  BY DEF Shape, Lists
<1>2. {Chain(L.next, sl)[i] : i \in 0..MAX_PROC} \ {NULL} = Z
  BY ShapeHolds
<1> HIDE DEF NULL
<1>3. PICK next \in [Slots -> Ptr] : next = L.next
  BY <1>1
<1>4. \A s \in Z : RemainingIn(next, sl, diff, s) = c[s]
  BY <1>1, <1>3, CountsRead
<1> QED
  BY <1>2, <1>3, <1>4 DEF AsleepIn, Sleeping

\* The mapping of the state before a step.
LEMMA MapsNow ==
  ASSUME NEW Q, NEW Z, NEW r, NEW q, NEW c, Maps(rq, sleepQ, sleepdiff, Q, Z, r, q, c)
  PROVE  QueueOf = q /\ Asleep = Sleeping(Z, c)
<1>1. QueueIn(rq) = q
  BY LineRead DEF Maps
<1>2. AsleepIn(rq.next, sleepQ, sleepdiff) = Sleeping(Z, c)
  BY AsleepRead DEF Maps
<1>3. QueueOf = QueueIn(rq)
  BY DEF QueueOf, QueueIn, OnList
<1>4. Asleep = AsleepIn(rq.next, sleepQ, sleepdiff)
  BY DEF Asleep, AsleepIn, OnList, Remaining, RemainingIn
<1> QED
  BY <1>1, <1>2, <1>3, <1>4

\* The mapping of the state after a step.
LEMMA MapsThen ==
  ASSUME NEW Q, NEW Z, NEW r, NEW q, NEW c,
         Maps(rq', sleepQ', sleepdiff', Q, Z, r, q, c)
  PROVE  QueueOf' = q /\ Asleep' = Sleeping(Z, c)
<1>1. QueueIn(rq') = q
  BY LineRead DEF Maps
<1>2. AsleepIn(rq'.next, sleepQ', sleepdiff') = Sleeping(Z, c)
  BY AsleepRead DEF Maps
<1>3. QueueOf' = QueueIn(rq')
  BY DEF QueueOf, QueueIn, OnList
<1>4. Asleep' = AsleepIn(rq'.next, sleepQ', sleepdiff')
  BY DEF Asleep, AsleepIn, OnList, Remaining, RemainingIn
<1> QED
  BY <1>1, <1>2, <1>3, <1>4

\* Every placed state has a mapping.
LEMMA MapsExist ==
  ASSUME TypeOK, NEW Q, NEW r, Placed(rq, sleepQ, p, Q, r)
  PROVE  \E q, c : Maps(rq, sleepQ, sleepdiff, Q, SleepersOf(rq), r, q, c)
<1>1. Shape(rq, sleepQ, Q, SleepersOf(rq), r) /\ sleepdiff \in [Slots -> Word]
  BY DEF Placed, TypeOK
<1>2. PICK next, head : next = rq.next /\ head = rq.head
  OBVIOUS
<1>3. PICK Z : Z = SleepersOf(rq)
  OBVIOUS
<1>4. /\ next \in [Slots -> Ptr] /\ head \in Ptr /\ sleepQ \in Ptr
      /\ Q \in SUBSET Slots /\ Z \in SUBSET Slots
      /\ Threads(next, head, NULL, Q, r) /\ Threads(next, sleepQ, NULL, Z, r)
  BY <1>1, <1>2, <1>3 DEF Shape, Lists
<1> HIDE DEF NULL
<1>5. PICK q : Line(next, head, q)
  BY <1>4, LineExists
<1>6. PICK c \in [Slots -> Int] : Counts(next, sleepQ, sleepdiff, Z, c)
  BY <1>1, <1>4, CountsExist
<1>7. Maps(rq, sleepQ, sleepdiff, Q, Z, r, q, c)
  BY <1>1, <1>2, <1>3, <1>5, <1>6 DEF Maps
<1> QED
  BY <1>3, <1>7

\* A dispatch is the abstract switch, if the list before it maps to q and c.
LEMMA SwitchMaps ==
  ASSUME NEW L, NEW Q, NEW Z, NEW r, NEW q, NEW c,
         Maps(L, sleepQ', sleepdiff', Q, Z, r, q, c), Q # {}, Dispatch(L)
  PROVE  Sched!Switch(q) /\ Asleep' = Sleeping(Z, c)
<1>1. Shape(L, sleepQ', Q, Z, r) /\ Line(L.next, L.head, q)
  BY DEF Maps
<1>2. /\ p' = L.head /\ p' \in Q /\ Shape(rq', sleepQ', Q \ {p'}, Z, r)
  BY <1>1, DispatchShape
<1>3. q # << >> /\ p' = Head(q) /\ Line(rq'.next, rq'.head, Tail(q))
  BY <1>1, DispatchLine
<1>4. Counts(rq'.next, sleepQ', sleepdiff', Z, c)
  <2>1. \A s \in Z : rq'.next[s] = L.next[s]
    <3>1. /\ L \in Lists /\ Q \cap Z = {} /\ Z \subseteq Slots /\ Q \subseteq Slots
          /\ L.head # NULL
      BY <1>1, <1>2, ShapeEmpty DEF Shape
    <3>2. rq'.next = [L.next EXCEPT ![L.head] = NULL]
      BY <3>1 DEF Dispatch, Lists
    <3> QED
      BY <1>2, <3>1, <3>2 DEF Lists
  <2> QED
    BY <2>1 DEF Maps, Counts
<1>5. Maps(rq', sleepQ', sleepdiff', Q \ {p'}, Z, r, Tail(q), c)
  BY <1>2, <1>3, <1>4 DEF Maps
<1>6. QueueOf' = Tail(q) /\ Asleep' = Sleeping(Z, c)
  BY <1>5, MapsThen
<1> QED
  BY <1>3, <1>6 DEF Sched!Switch


-----------------------------------------------------------------------------
(* What the operations on the lists do to the mapping. *)

\* The mapping, for some ranks.
Reads(L, sl, diff, Q, Z, q, c) == \E r : Maps(L, sl, diff, Q, Z, r, q, c)

\* A pcb on neither list may change its state and its link.
LEMMA KeptMaps ==
  ASSUME NEW L, NEW sl, NEW diff, NEW Q, NEW Z, NEW r, NEW q, NEW c,
         Maps(L, sl, diff, Q, Z, r, q, c),
         NEW M \in Lists, M.head = L.head, M.tail = L.tail,
         \A s \in Q \cup Z : M.next[s] = L.next[s] /\ M.state[s] = L.state[s]
  PROVE  Maps(M, sl, diff, Q, Z, r, q, c)
<1>1. Shape(L, sl, Q, Z, r) /\ Line(L.next, L.head, q)
  BY DEF Maps
<1>2. Shape(M, sl, Q, Z, r)
  BY <1>1, ShapeKept
<1>3. Members(q) = Q
  BY <1>1, LineRead
<1>4. Line(M.next, M.head, q)
  BY <1>1, <1>3 DEF Line, Members
<1>5. Counts(M.next, sl, diff, Z, c)
  BY DEF Maps, Counts
<1> QED
  BY <1>2, <1>4, <1>5 DEF Maps

\* ready() appends to the queue and leaves the countdowns alone.
LEMMA ReadyMaps ==
  ASSUME NEW L, NEW sl, NEW diff, NEW Q, NEW Z, NEW r, NEW q, NEW c,
         Maps(L, sl, diff, Q, Z, r, q, c), NEW s \in Slots, s \notin Q \cup Z
  PROVE  Reads(Ready(L, s), sl, diff, Q \cup {s}, Z, Append(q, s), c)
<1>1. Shape(L, sl, Q, Z, r) /\ Line(L.next, L.head, q)
  BY DEF Maps
<1>2. PICK r2 : Shape(Ready(L, s), sl, Q \cup {s}, Z, r2)
  BY <1>1, ReadyShape
<1>3. Line(Ready(L, s).next, Ready(L, s).head, Append(q, s))
  BY <1>1, ReadyLine
<1>4. \A u \in Z : Ready(L, s).next[u] = L.next[u]
  <2>1. Z \subseteq Slots /\ L.tail \notin Z
    <3>1. NULL \notin Z
      BY <1>1, ShapeEmpty
    <3> QED
      BY <1>1, <3>1 DEF Shape
  <2> QED
    BY <2>1 DEF Ready
<1>5. Counts(Ready(L, s).next, sl, diff, Z, c)
  BY <1>4 DEF Maps, Counts
<1>6. Maps(Ready(L, s), sl, diff, Q \cup {s}, Z, r2, Append(q, s), c)
  BY <1>2, <1>3, <1>5 DEF Maps
<1> QED
  BY <1>6 DEF Reads

\* removeFromReady() takes a member out of the queue.
LEMMA RemoveMaps ==
  ASSUME NEW L, NEW sl, NEW diff, NEW Q, NEW Z, NEW r, NEW q, NEW c,
         Maps(L, sl, diff, Q, Z, r, q, c), NEW k \in 1..Len(q), NEW t, t = q[k]
  PROVE  Maps(RemoveFromReady(L, t), sl, diff, Q \ {t}, Z, r, OmitAt(q, k), c)
<1>1. Shape(L, sl, Q, Z, r) /\ Line(L.next, L.head, q)
  BY DEF Maps
<1>2. t \in Q
  BY <1>1, LineRead DEF Members
<1>3. Shape(RemoveFromReady(L, t), sl, Q \ {t}, Z, r)
  BY <1>1, <1>2, RemoveShape
<1>4. Line(RemoveFromReady(L, t).next, RemoveFromReady(L, t).head, OmitAt(q, k))
  BY <1>1, RemoveLine
<1>5. \A u \in Z : RemoveFromReady(L, t).next[u] = L.next[u]
  <2>1. /\ Z \subseteq Slots /\ Q \subseteq Slots /\ Q \cap Z = {} /\ L \in Lists
        /\ t \in Slots
    BY <1>1, <1>2 DEF Shape
  <2>2. CASE L.head = t
    BY <2>1, <2>2 DEF RemoveFromReady, Lists
  <2>3. CASE L.head # t /\ \E s \in Slots : Before(L, s, t)
    <3>1. PICK prev : prev = CHOOSE s \in Slots : Before(L, s, t)
      OBVIOUS
    <3>2. prev \in Slots /\ Before(L, prev, t)
      BY <2>3, <3>1
    <3>3. prev \in Q
      BY <1>1, <2>1, <3>2, BeforeIsMember
    <3>4. RemoveFromReady(L, t).next = [[L.next EXCEPT ![prev] = L.next[t]] EXCEPT ![t] = NULL]
      BY <2>1, <2>3, <3>1 DEF RemoveFromReady, Lists
    <3> QED
      BY <1>2, <2>1, <3>3, <3>4 DEF Lists
  <2>4. CASE L.head # t /\ ~\E s \in Slots : Before(L, s, t)
    BY <2>4 DEF RemoveFromReady
  <2> QED
    BY <2>2, <2>3, <2>4
<1>6. Counts(RemoveFromReady(L, t).next, sl, diff, Z, c)
  BY <1>5 DEF Maps, Counts
<1> QED
  BY <1>3, <1>4, <1>6 DEF Maps

\* The queue extended by W, and the countdowns as they were.
ReadsExtended(L, sl, diff, Q, Z, q, W, c) ==
  \E order : Ordered(order, W) /\ Reads(L, sl, diff, Q, Z, q \o order, c)

\* The wake-up loop of kill() appends and leaves the countdowns alone.
LEMMA ReadyAllMaps ==
  ASSUME NEW L, NEW sl, NEW diff, NEW Q, NEW Z, NEW r, NEW q, NEW c,
         Maps(L, sl, diff, Q, Z, r, q, c),
         NEW W \in SUBSET Slots, W \cap (Q \cup Z) = {}
  PROVE  ReadsExtended(ReadyAll(L, W), sl, diff, Q \cup W, Z, q, W, c)
<1>1. Shape(L, sl, Q, Z, r) /\ Line(L.next, L.head, q)
  BY DEF Maps
<1>2. PICK r2 : Shape(ReadyAll(L, W), sl, Q \cup W, Z, r2)
  BY <1>1, ReadyAllShape
<1>3. PICK order : /\ Ordered(order, W)
                   /\ Line(ReadyAll(L, W).next, ReadyAll(L, W).head, q \o order)
  <2>1. W \cap Q = {}
    OBVIOUS
  <2> QED
    BY <1>1, <2>1, ReadyAllLine DEF Extended
<1>4. \A u \in Z : ReadyAll(L, W).next[u] = L.next[u]
  <2>1. Z \subseteq Slots /\ L.tail \notin Z
    <3>1. NULL \notin Z
      BY <1>1, ShapeEmpty
    <3> QED
      BY <1>1, <3>1 DEF Shape
  <2> QED
    BY <2>1 DEF ReadyAll
<1>5. Counts(ReadyAll(L, W).next, sl, diff, Z, c)
  BY <1>4 DEF Maps, Counts
<1>6. Maps(ReadyAll(L, W), sl, diff, Q \cup W, Z, r2, q \o order, c)
  BY <1>2, <1>3, <1>5 DEF Maps
<1> QED
  BY <1>3, <1>6 DEF Reads, ReadsExtended

-----------------------------------------------------------------------------
(* Each step of the kernel is a step of the abstract scheduler or none. *)

\* The state before a step: the ready list reads q and the countdowns are c.
Now(Q, Z, r, q, c) ==
  /\ TypeOK /\ Placed(rq, sleepQ, p, Q, r)
  /\ Z = SleepersOf(rq) /\ Maps(rq, sleepQ, sleepdiff, Q, Z, r, q, c)

\* What the mapping makes of that state.
LEMMA NowReads ==
  ASSUME NEW Q, NEW Z, NEW r, NEW q, NEW c, Now(Q, Z, r, q, c)
  PROVE  /\ QueueOf = q /\ Asleep = Sleeping(Z, c)
         /\ Q \subseteq Slots /\ Z \subseteq Slots /\ Q \cap Z = {}
         /\ p \in Slots /\ p \notin Q \cup Z /\ rq \in Lists
         /\ p # Idle => Q # {}
         /\ Q = Members(q) /\ q \in Seq(Slots) /\ Distinct(q)
<1>1. QueueOf = q /\ Asleep = Sleeping(Z, c)
  BY MapsNow DEF Now
<1>2. /\ Q \subseteq Slots /\ Z \subseteq Slots /\ Q \cap Z = {} /\ rq \in Lists
      /\ Shape(rq, sleepQ, Q, Z, r) /\ Line(rq.next, rq.head, q)
  BY DEF Now, Maps, Shape
<1>3. p \in Slots /\ p \notin Q \cup Z
  BY DEF Now, TypeOK, Placed, SleepersOf
<1>4. p # Idle => Q # {}
  BY DEF Now, Placed
<1>5. Q = Members(q) /\ Distinct(q) /\ q \in Seq(Slots)
  BY <1>2, LineRead DEF Line
<1> QED
  BY <1>1, <1>2, <1>3, <1>4, <1>5

\* The waits stay as long as no state becomes WAIT or stops being WAIT.
LEMMA WaitsStay ==
  ASSUME waitpid' = waitpid,
         \A s \in Slots : rq'.state[s] = "WAIT" <=> rq.state[s] = "WAIT"
  PROVE  Waiting' = Waiting
<1>1. {u \in Slots : rq'.state[u] = "WAIT"} = {u \in Slots : rq.state[u] = "WAIT"}
  OBVIOUS
<1> QED
  BY <1>1 DEF Waiting

\* Steps that touch no list.
LEMMA StillMaps ==
  ASSUME UNCHANGED <<p, mode, rq, sleepQ, sleepdiff, pid, waitpid>>
  PROVE  UNCHANGED Sched!svars
<1>1. QueueOf' = QueueOf
  BY DEF QueueOf, OnList
<1>2. Asleep' = Asleep
  BY DEF Asleep, OnList, Remaining
<1>3. Waiting' = Waiting
  BY DEF Waiting
<1> QED
  BY <1>1, <1>2, <1>3 DEF Sched!svars

\* The running process goes to the end of the queue and its first one runs.
LEMMA YieldMaps ==
  ASSUME NEW Q, NEW Z, NEW r, NEW q, NEW c, Now(Q, Z, r, q, c),
         UNCHANGED <<sleepQ, sleepdiff, waitpid>>, Dispatch(Ready(rq, p))
  PROVE  /\ mode' = "user" /\ Sched!Switch(Append(QueueOf, p))
         /\ Asleep' = Asleep /\ Waiting' = Waiting
<1>1. /\ QueueOf = q /\ Asleep = Sleeping(Z, c) /\ p \in Slots /\ p \notin Q \cup Z
      /\ Maps(rq, sleepQ, sleepdiff, Q, Z, r, q, c)
  BY NowReads DEF Now
<1>2. PICK r2 : Maps(Ready(rq, p), sleepQ, sleepdiff, Q \cup {p}, Z, r2, Append(q, p), c)
  BY <1>1, ReadyMaps DEF Reads
<1>3. Maps(Ready(rq, p), sleepQ', sleepdiff', Q \cup {p}, Z, r2, Append(q, p), c)
  BY <1>2
<1>4. Q \cup {p} # {}
  OBVIOUS
<1>5. Sched!Switch(Append(q, p)) /\ Asleep' = Sleeping(Z, c)
  BY <1>3, <1>4, SwitchMaps
<1>6. mode' = "user" /\ rq'.state = rq.state
  BY YieldLists DEF Now
<1>7. Waiting' = Waiting
  BY <1>6, WaitsStay
<1> QED
  BY <1>1, <1>5, <1>6, <1>7

\* SYS_YIELD.
LEMMA YieldRefines ==
  ASSUME NEW Q, NEW Z, NEW r, NEW q, NEW c, Now(Q, Z, r, q, c), SysYield
  PROVE  Sched!Yield
<1>1. /\ mode = "user" /\ Dispatch(Ready(rq, p)) /\ pid' = pid
      /\ UNCHANGED <<sleepQ, sleepdiff, waitpid>>
  BY DEF SysYield, Trap
<1>2. /\ mode' = "user" /\ Sched!Switch(Append(QueueOf, p))
      /\ Asleep' = Asleep /\ Waiting' = Waiting
  BY <1>1, YieldMaps
<1> QED
  BY <1>1, <1>2 DEF Sched!Yield

\* The end of SYS_TIMER: the first countdown is not 0, hence none is.
LEMMA TimerDoneRefines ==
  ASSUME NEW Q, NEW Z, NEW r, NEW q, NEW c, Now(Q, Z, r, q, c), TimerDone
  PROVE  Sched!Resume
<1>1. /\ mode = "tick" /\ ~Expired /\ Dispatch(Ready(rq, p)) /\ pid' = pid
      /\ UNCHANGED <<sleepQ, sleepdiff, waitpid>>
  BY DEF TimerDone
<1>2. /\ mode' = "user" /\ Sched!Switch(Append(QueueOf, p))
      /\ Asleep' = Asleep /\ Waiting' = Waiting
  BY <1>1, YieldMaps
<1>3. Asleep = Sleeping(Z, c)
  BY NowReads
<1>4. ASSUME NEW s \in Z PROVE c[s] > 0
  <2>1. PICK next : next = rq.next
    OBVIOUS
  <2>2. /\ next \in [Slots -> Ptr] /\ sleepQ \in Ptr /\ Z \in SUBSET Slots
        /\ Threads(next, sleepQ, NULL, Z, r) /\ sleepdiff \in [Slots -> Word]
        /\ Counts(next, sleepQ, sleepdiff, Z, c)
    BY <2>1 DEF Now, Maps, Shape, Lists
  <2>3. sleepQ # NULL /\ sleepQ \in Slots
    BY <2>2 DEF Threads, Ptr
  <2>4. sleepdiff[sleepQ] \in Word /\ sleepdiff[sleepQ] # 0
    BY <1>1, <2>2, <2>3 DEF Expired
  <2> HIDE DEF NULL
  <2>5. c[s] >= sleepdiff[sleepQ]
    BY <2>2, CountsFloor
  <2>6. c[s] \in Int
    BY <2>2 DEF Counts
  <2> QED
    BY <2>4, <2>5, <2>6, TableAssumption DEF Word
<1>5. \A s \in DOMAIN Asleep : Asleep[s] > 0
  BY <1>3, <1>4 DEF Sleeping
<1> QED
  BY <1>1, <1>2, <1>5 DEF Sched!Resume

\* SYS_STOP and the part of SYS_WAIT after its checks: the queue's first runs.
LEMMA LeaveMaps ==
  ASSUME NEW Q, NEW Z, NEW r, NEW q, NEW c, Now(Q, Z, r, q, c), p # Idle,
         UNCHANGED <<sleepQ, sleepdiff>>,
         NEW st \in {"STOPPED", "WAIT"}, Dispatch([rq EXCEPT !.state[p] = st])
  PROVE  /\ mode' = "user" /\ Sched!Switch(QueueOf) /\ Asleep' = Asleep
         /\ rq'.state = [rq.state EXCEPT ![p] = st]
<1>1. /\ QueueOf = q /\ Asleep = Sleeping(Z, c) /\ p \in Slots /\ p \notin Q \cup Z
      /\ rq \in Lists /\ Q # {} /\ Maps(rq, sleepQ, sleepdiff, Q, Z, r, q, c)
  BY NowReads DEF Now
<1>2. PICK M : M = [rq EXCEPT !.state[p] = st]
  OBVIOUS
<1>3. /\ M \in Lists /\ M.head = rq.head /\ M.tail = rq.tail
      /\ \A s \in Q \cup Z : M.next[s] = rq.next[s] /\ M.state[s] = rq.state[s]
  <2>1. /\ M.next = rq.next /\ M.state = [rq.state EXCEPT ![p] = st]
        /\ M.head = rq.head /\ M.tail = rq.tail /\ M \in Lists
    BY <1>1, <1>2 DEF Lists, States
  <2> QED
    BY <1>1, <2>1 DEF Lists
<1>4. Maps(M, sleepQ, sleepdiff, Q, Z, r, q, c)
  BY <1>1, <1>3, KeptMaps
<1>5. Maps(M, sleepQ', sleepdiff', Q, Z, r, q, c)
  BY <1>4
<1>6. Sched!Switch(q) /\ Asleep' = Sleeping(Z, c)
  BY <1>1, <1>2, <1>5, SwitchMaps
<1>7. mode' = "user" /\ rq'.state = [rq.state EXCEPT ![p] = st]
  BY LeaveLists DEF Now
<1> QED
  BY <1>1, <1>6, <1>7

\* SYS_STOP.
LEMMA StopRefines ==
  ASSUME NEW Q, NEW Z, NEW r, NEW q, NEW c, Now(Q, Z, r, q, c), SysStop
  PROVE  Sched!Stop
<1>1. /\ mode = "user" /\ p # Idle /\ Dispatch([rq EXCEPT !.state[p] = "STOPPED"])
      /\ UNCHANGED <<sleepQ, sleepdiff, waitpid, pid>>
  BY DEF SysStop, UserTrap, Trap
<1>2. /\ mode' = "user" /\ Sched!Switch(QueueOf) /\ Asleep' = Asleep
      /\ rq'.state = [rq.state EXCEPT ![p] = "STOPPED"]
  BY <1>1, LeaveMaps
<1>3. \A s \in Slots : rq'.state[s] = "WAIT" <=> rq.state[s] = "WAIT"
  <2>1. rq.state[p] = "READY" /\ rq.state \in [Slots -> States] /\ p \in Slots
    BY DEF Now, Placed, TypeOK, Lists
  <2> QED
    BY <1>2, <2>1
<1>4. Waiting' = Waiting
  BY <1>1, <1>3, WaitsStay
<1> QED
  BY <1>1, <1>2, <1>4 DEF Sched!Stop

\* SYS_WAIT: refused, or a wait for the name asked for.
LEMMA WaitRefines ==
  ASSUME NEW Q, NEW Z, NEW r, NEW q, NEW c, Now(Q, Z, r, q, c),
         NEW n \in PidArgs, SysWait(n)
  PROVE  Sched!Wait \/ UNCHANGED Sched!svars
<1>1. CASE UNCHANGED <<p, mode, rq, waitpid>>
  BY <1>1, StillMaps DEF SysWait
<1>2. CASE /\ waitpid' = [waitpid EXCEPT ![p] = n]
           /\ Dispatch([rq EXCEPT !.state[p] = "WAIT"])
  <2>1. /\ mode = "user" /\ p # Idle /\ UNCHANGED <<sleepQ, sleepdiff, pid>>
    BY DEF SysWait, UserTrap, Trap
  <2>2. /\ mode' = "user" /\ Sched!Switch(QueueOf) /\ Asleep' = Asleep
        /\ rq'.state = [rq.state EXCEPT ![p] = "WAIT"]
    BY <1>2, <2>1, LeaveMaps
  <2>3. Waiting' = Sched!With(Waiting, p, n)
    <3>1. p \in Slots /\ rq.state \in [Slots -> States] /\ waitpid \in [Slots -> Word]
      BY DEF Now, TypeOK, Lists
    <3>2. PICK W : W = {u \in Slots : rq.state[u] = "WAIT"}
      OBVIOUS
    <3>3. {u \in Slots : rq'.state[u] = "WAIT"} = W \cup {p}
      BY <2>2, <3>1, <3>2
    <3>4. Waiting' = [s \in W \cup {p} |-> IF s = p THEN n ELSE waitpid[s]]
      BY <1>2, <3>1, <3>2, <3>3 DEF Waiting
    <3>5. Waiting = [s \in W |-> waitpid[s]]
      BY <3>2 DEF Waiting
    <3> QED
      BY <3>4, <3>5 DEF Sched!With
  <2>4. n \in Word
    BY ArgumentAssumption DEF Word
  <2> QED
    BY <2>1, <2>2, <2>3, <2>4 DEF Sched!Wait
<1> QED
  BY <1>1, <1>2 DEF SysWait

\* SYS_CREATE: refused, or a new process at the end of the queue.
LEMMA CreateRefines ==
  ASSUME NEW Q, NEW Z, NEW r, NEW q, NEW c, Now(Q, Z, r, q, c),
         NEW gotStack \in BOOLEAN, SysCreate(gotStack)
  PROVE  (\E s \in Slots : Sched!Spawn(s)) \/ UNCHANGED Sched!svars
<1>1. /\ mode = "user" /\ UNCHANGED <<p, mode, sleepQ, sleepdiff, waitpid>>
  BY DEF SysCreate, UserTrap, Trap
<1>2. CASE UNCHANGED <<rq, pid, frames>>
  BY <1>1, <1>2, StillMaps
<1>3. ASSUME NEW s, s = SlotOf(Min(FreeProbes)), FreeProbes # {},
             pid' = [pid EXCEPT ![s] = nextpid'], rq' = Ready(rq, s),
             nextpid' = Proposed(Min(FreeProbes))
      PROVE  \E u \in Slots : Sched!Spawn(u)
  <2>1. /\ QueueOf = q /\ Asleep = Sleeping(Z, c) /\ p \in Slots /\ rq \in Lists
        /\ Q = Members(q) /\ Maps(rq, sleepQ, sleepdiff, Q, Z, r, q, c)
        /\ q \in Seq(Slots)
    BY NowReads DEF Now
  <2>2. TypeOK
    BY DEF Now
  <2>3. s \in Slots /\ rq.state[s] = "STOPPED" /\ nextpid' \in Word
    BY <1>3, <2>2, FirstFreeProbe
  <2>4. s # p /\ s \notin Q \cup Z
    BY <2>3 DEF Now, Placed, Shape, SleepersOf
  <2>5. PICK r2 : Maps(Ready(rq, s), sleepQ, sleepdiff, Q \cup {s}, Z, r2, Append(q, s), c)
    BY <2>1, <2>3, <2>4, ReadyMaps DEF Reads
  <2>6. Maps(rq', sleepQ', sleepdiff', Q \cup {s}, Z, r2, Append(q, s), c)
    BY <1>1, <1>3, <2>5
  <2>7. QueueOf' = Append(q, s) /\ Asleep' = Sleeping(Z, c)
    BY <2>6, MapsThen
  <2>8. \A u \in Slots : rq'.state[u] = "WAIT" <=> rq.state[u] = "WAIT"
    BY <1>3, <2>1, <2>3 DEF Ready, Lists
  <2>9. Waiting' = Waiting
    BY <1>1, <2>8, WaitsStay
  <2>10. s \in Sched!Absent
    <3>1. s \notin Sched!Range(QueueOf)
      BY <2>1, <2>4 DEF Sched!Range, Members
    <3>2. s \notin DOMAIN Asleep /\ s \notin DOMAIN Waiting
      BY <2>1, <2>3, <2>4 DEF Sleeping, Waiting
    <3> QED
      BY <2>3, <2>4, <3>1, <3>2 DEF Sched!Absent
  <2> QED
    BY <1>1, <1>3, <2>1, <2>3, <2>7, <2>9, <2>10 DEF Sched!Spawn
<1> QED
  BY <1>2, <1>3 DEF SysCreate

\* The first key is not 0 while a program runs, so that the timer's decrement
\* does not wrap.
KeyInv == mode = "user" /\ sleepQ # NULL => sleepdiff[sleepQ] > 0

\* The timer interrupt: the first key is every countdown's first part.
LEMMA TimerRefines ==
  ASSUME NEW Q, NEW Z, NEW r, NEW q, NEW c, Now(Q, Z, r, q, c), KeyInv, SysTimer
  PROVE  Sched!Tick
<1>1. /\ mode = "user" /\ mode' = "tick" /\ UNCHANGED <<p, rq, sleepQ, pid, waitpid>>
      /\ sleepdiff' = IF sleepQ = NULL THEN sleepdiff
                      ELSE [sleepdiff EXCEPT ![sleepQ] = (@ - 1) % WORD]
  BY DEF SysTimer, Trap
<1>2. /\ QueueOf = q /\ Asleep = Sleeping(Z, c) /\ Z \subseteq Slots
      /\ Maps(rq, sleepQ, sleepdiff, Q, Z, r, q, c)
  BY NowReads DEF Now
<1>3. PICK next : next = rq.next
  OBVIOUS
<1>4. /\ Threads(next, sleepQ, NULL, Z, r) /\ Counts(next, sleepQ, sleepdiff, Z, c)
      /\ sleepdiff \in [Slots -> Word] /\ NULL \notin Z /\ sleepQ \in Ptr
  BY <1>2, <1>3, ShapeEmpty DEF Maps, Shape
<1>5. /\ sleepdiff' \in [Slots -> Word]
      /\ sleepQ # NULL => sleepdiff'[sleepQ] = sleepdiff[sleepQ] - 1
      /\ \A s \in Z \ {sleepQ} : sleepdiff'[s] = sleepdiff[s]
  <2>1. CASE sleepQ = NULL
    BY <1>1, <1>4, <2>1
  <2>2. CASE sleepQ # NULL
    <3>1. sleepQ \in Slots /\ sleepdiff[sleepQ] \in Word /\ sleepdiff[sleepQ] > 0
      BY <1>1, <1>4, <2>2 DEF KeyInv, Ptr
    <3>2. (sleepdiff[sleepQ] - 1) % WORD = sleepdiff[sleepQ] - 1
          /\ sleepdiff[sleepQ] - 1 \in Word
      BY <3>1, TableAssumption DEF Word
    <3>3. sleepdiff' = [sleepdiff EXCEPT ![sleepQ] = sleepdiff[sleepQ] - 1]
      BY <1>1, <2>2, <3>2
    <3> QED
      BY <1>2, <1>4, <3>1, <3>2, <3>3
  <2> QED
    BY <2>1, <2>2
<1>6. PICK c2 : c2 = [s \in Z |-> c[s] - 1]
  OBVIOUS
<1>7. Counts(next, sleepQ, sleepdiff', Z, c2)
  <2>1. PICK diff2 : diff2 = sleepdiff'
    OBVIOUS
  <2>2. /\ sleepQ # NULL => diff2[sleepQ] = sleepdiff[sleepQ] - 1
        /\ \A s \in Z \ {sleepQ} : diff2[s] = sleepdiff[s]
        /\ \A s \in Z : c2[s] = c[s] - 1
    BY <1>5, <1>6, <2>1
  <2>3. \A s \in Z : sleepdiff[s] \in Int
    BY <1>2, <1>4 DEF Word
  <2> HIDE DEF NULL
  <2>4. Counts(next, sleepQ, diff2, Z, c2)
    BY <1>4, <2>2, <2>3, CountsTick
  <2> QED
    BY <2>1, <2>4
<1>8. Maps(rq', sleepQ', sleepdiff', Q, Z, r, q, c2)
  BY <1>1, <1>2, <1>3, <1>5, <1>7 DEF Maps
<1>9. QueueOf' = q /\ Asleep' = Sleeping(Z, c2)
  BY <1>8, MapsThen
<1>10. Asleep' = [s \in DOMAIN Asleep |-> Asleep[s] - 1]
  BY <1>2, <1>6, <1>9 DEF Sleeping
<1>11. Waiting' = Waiting
  BY <1>1, WaitsStay
<1> QED
  BY <1>1, <1>2, <1>9, <1>10, <1>11 DEF Sched!Tick

\* An iteration of tick()'s loop wakes the first sleeper.
LEMMA TickWakeRefines ==
  ASSUME NEW Q, NEW Z, NEW r, NEW q, NEW c, Now(Q, Z, r, q, c), TickWake
  PROVE  sleepQ \in Slots /\ Sched!Wake(sleepQ)
<1>1. /\ mode = "tick" /\ sleepQ # NULL /\ sleepdiff[sleepQ] = 0
      /\ sleepQ' = rq.next[sleepQ] /\ rq' = Ready(rq, sleepQ)
      /\ UNCHANGED <<p, mode, sleepdiff, pid, waitpid>>
  BY DEF TickWake, Expired
<1>2. /\ QueueOf = q /\ Asleep = Sleeping(Z, c) /\ Z \subseteq Slots /\ rq \in Lists
      /\ Maps(rq, sleepQ, sleepdiff, Q, Z, r, q, c) /\ Q \cap Z = {}
  BY NowReads DEF Now
<1>3. PICK next, start : next = rq.next /\ start = sleepQ
  OBVIOUS
<1>4. /\ Threads(next, start, NULL, Z, r) /\ Counts(next, start, sleepdiff, Z, c)
      /\ sleepdiff \in [Slots -> Word] /\ NULL \notin Z
      /\ Shape(rq, start, Q, Z, r) /\ Line(rq.next, rq.head, q)
  BY <1>2, <1>3, ShapeEmpty DEF Maps, Shape
<1>5. /\ start \in Z /\ start \in Slots /\ start \notin Q
      /\ Shape(rq, next[start], Q, Z \ {start}, r)
  BY <1>1, <1>2, <1>3, <1>4, DropSleeper
<1>6. Counts(next, next[start], sleepdiff, Z \ {start}, c)
  <2>1. \A s \in Z : sleepdiff[s] \in Int
    BY <1>2, <1>4 DEF Word
  <2>2. start # NULL /\ sleepdiff[start] = 0
    BY <1>1, <1>3
  <2> HIDE DEF NULL
  <2> QED
    BY <1>4, <2>1, <2>2, CountsDrop
<1>7. Maps(rq, next[start], sleepdiff, Q, Z \ {start}, r, q, c)
  BY <1>3, <1>4, <1>5, <1>6 DEF Maps
<1>8. PICK r2 : Maps(Ready(rq, start), next[start], sleepdiff, Q \cup {start},
                     Z \ {start}, r2, Append(q, start), c)
  BY <1>5, <1>7, ReadyMaps DEF Reads
<1>9. Maps(rq', sleepQ', sleepdiff', Q \cup {start}, Z \ {start}, r2, Append(q, start), c)
  BY <1>1, <1>3, <1>8
<1>10. QueueOf' = Append(q, start) /\ Asleep' = Sleeping(Z \ {start}, c)
  BY <1>9, MapsThen
<1>11. /\ start \in DOMAIN Asleep /\ Asleep[start] = 0
       /\ Asleep' = Sched!Without(Asleep, {start})
  <2>1. c[start] = 0
    BY <1>1, <1>3, <1>4 DEF Counts
  <2> QED
    BY <1>2, <1>5, <1>10, <2>1 DEF Sleeping, Sched!Without
<1>12. \A u \in Slots : rq'.state[u] = "WAIT" <=> rq.state[u] = "WAIT"
  BY TickWakeLists DEF Now
<1>13. Waiting' = Waiting
  BY <1>1, <1>12, WaitsStay
<1> QED
  BY <1>1, <1>2, <1>3, <1>5, <1>10, <1>11, <1>13 DEF Sched!Wake

\* The countdowns with one more, of s.
Later(Z, c, s, len) == [u \in Z \cup {s} |-> IF u = s THEN len ELSE c[u]]

\* sleep() puts s in front: the first sleeper's key is the rest of its time.
LEMMA PushMaps ==
  ASSUME NEW L, NEW sl, NEW diff, NEW Q, NEW Z, NEW r, NEW q, NEW c,
         Maps(L, sl, diff, Q, Z, r, q, c),
         NEW s \in Slots, s \notin Q \cup Z, NEW len \in Word,
         NEW M \in Lists, M.head = L.head, M.tail = L.tail,
         M.next[s] = sl, M.state[s] = "SLEEP",
         \A u \in Q \cup Z : M.next[u] = L.next[u] /\ M.state[u] = L.state[u],
         NEW diff2 \in [Slots -> Word], diff2[s] = len,
         sl # NULL => diff2[sl] = diff[sl] - len,
         \A u \in Z \ {sl} : diff2[u] = diff[u]
  PROVE  Reads(M, s, diff2, Q, Z \cup {s}, q, Later(Z, c, s, len))
<1>1. /\ Shape(L, sl, Q, Z, r) /\ Line(L.next, L.head, q)
      /\ Counts(L.next, sl, diff, Z, c)
  BY DEF Maps
<1>2. PICK r2 : Shape(M, s, Q, Z \cup {s}, r2)
  BY <1>1, PushSleeper
<1>3. Members(q) = Q
  BY <1>1, LineRead
<1>4. Line(M.next, M.head, q)
  BY <1>1, <1>3 DEF Line, Members
<1>5. PICK next, next2, c2 : /\ next = L.next /\ next2 = M.next
                             /\ c2 = Later(Z, c, s, len)
  OBVIOUS
<1>6. Counts(next2, s, diff2, Z \cup {s}, c2)
  <2>1. /\ Threads(next, sl, NULL, Z, r) /\ Counts(next, sl, diff, Z, c)
        /\ NULL \notin Z
    BY <1>1, <1>5, ShapeEmpty DEF Shape
  <2>2. /\ s \notin Z /\ s # NULL /\ len \in Int
        /\ next2[s] = sl /\ \A u \in Z : next2[u] = next[u]
    BY <1>5, SlotsAreNat DEF Word
  <2>3. c2[s] = len /\ \A u \in Z : c2[u] = c[u]
    BY <1>5 DEF Later
  <2> HIDE DEF NULL
  <2> QED
    BY <2>1, <2>2, <2>3, CountsPush
<1>7. Maps(M, s, diff2, Q, Z \cup {s}, r2, q, c2)
  BY <1>2, <1>4, <1>5, <1>6 DEF Maps
<1> QED
  BY <1>5, <1>7 DEF Reads

\* sleep() puts s behind spot: the next sleeper's key is the rest of its own.
LEMMA InsertMaps ==
  ASSUME NEW L, NEW sl, NEW diff, NEW Q, NEW Z, NEW r, NEW q, NEW c,
         Maps(L, sl, diff, Q, Z, r, q, c),
         NEW s \in Slots, s \notin Q \cup Z, NEW spot \in Z, NEW d \in Word,
         NEW M \in Lists, M.head = L.head, M.tail = L.tail,
         LinksIn(L.next, M.next, Q \cup Z, s, spot), M.state[s] = "SLEEP",
         \A u \in Q \cup Z : M.state[u] = L.state[u],
         NEW diff2 \in [Slots -> Word], KeysIn(L.next, diff, diff2, Z, s, spot, d)
  PROVE  Reads(M, sl, diff2, Q, Z \cup {s}, q, Later(Z, c, s, c[spot] + d))
<1>1. /\ Shape(L, sl, Q, Z, r) /\ Line(L.next, L.head, q)
      /\ Counts(L.next, sl, diff, Z, c) /\ diff \in [Slots -> Word]
      /\ Q \cap Z = {} /\ Z \subseteq Slots
  BY DEF Maps, Shape
<1>2. PICK r2 : Shape(M, sl, Q, Z \cup {s}, r2)
  <2>1. /\ M.next[s] = L.next[spot] /\ M.next[spot] = s
        /\ \A u \in (Q \cup Z) \ {spot} : M.next[u] = L.next[u]
    BY DEF LinksIn
  <2> QED
    BY <1>1, <2>1, InsertSleeper
<1>3. Members(q) = Q
  BY <1>1, LineRead
<1>4. Line(M.next, M.head, q)
  <2>1. \A u \in Q : M.next[u] = L.next[u]
    BY <1>1 DEF LinksIn
  <2> QED
    BY <1>1, <1>3, <2>1, LineKept
<1>5. PICK next, next2, c2 : /\ next = L.next /\ next2 = M.next
                             /\ c2 = Later(Z, c, s, c[spot] + d)
  OBVIOUS
<1>6. Counts(next2, sl, diff2, Z \cup {s}, c2)
  <2>0. \A u \in Z : diff[u] \in Int
    BY <1>1 DEF Word
  <2>1. /\ Threads(next, sl, NULL, Z, r) /\ Counts(next, sl, diff, Z, c)
        /\ NULL \notin Z
    BY <1>1, <1>5, ShapeEmpty DEF Shape
  <2>2. s \notin Z /\ s # NULL /\ d \in Int
    BY SlotsAreNat DEF Word
  <2>3. c2[s] = c[spot] + d /\ \A u \in Z : c2[u] = c[u]
    BY <1>5 DEF Later
  <2>4. LinksIn(next, next2, Z, s, spot)
    BY <1>5 DEF LinksIn
  <2>5. KeysIn(next, diff, diff2, Z, s, spot, d)
    BY <1>5 DEF KeysIn
  <2> HIDE DEF NULL
  <2> QED
    BY <2>0, <2>1, <2>2, <2>3, <2>4, <2>5, CountsInsert
<1>7. Maps(M, sl, diff2, Q, Z \cup {s}, r2, q, c2)
  BY <1>2, <1>4, <1>5, <1>6 DEF Maps
<1> QED
  BY <1>5, <1>7 DEF Reads

SleptFor(len) == Asleep' = Sched!With(Asleep, p, len)

\* A program put on the sleep list for len ticks leaves the cpu to the queue,
\* and the other countdowns are as they were.
LEMMA AsleepSwitches ==
  ASSUME NEW Q, NEW Z, NEW r, NEW q, NEW c, Now(Q, Z, r, q, c),
         p # Idle, mode = "user", mode' = "user",
         UNCHANGED <<pid, waitpid>>,
         \A s \in Slots : rq.state[s] = "WAIT" <=> rq'.state[s] = "WAIT",
         NEW M, NEW len \in Word, len # 0, Dispatch(M),
         Reads(M, sleepQ', sleepdiff', Q, Z \cup {p}, q, Later(Z, c, p, len))
  PROVE  Sched!Sleep /\ SleptFor(len)
<1>1. QueueOf = q /\ Asleep = Sleeping(Z, c) /\ Q # {}
  BY NowReads
<1>2. Sched!Switch(q) /\ Asleep' = Sleeping(Z \cup {p}, Later(Z, c, p, len))
  BY <1>1, SwitchMaps DEF Reads
<1>3. Sleeping(Z \cup {p}, Later(Z, c, p, len)) = Sched!With(Sleeping(Z, c), p, len)
  BY DEF Sleeping, Later, Sched!With
<1>4. Waiting' = Waiting
  BY WaitsStay
<1>5. len \in Word \ {0} /\ Asleep' = Sched!With(Asleep, p, len)
  BY <1>1, <1>2, <1>3
<1> QED
  BY <1>1, <1>2, <1>4, <1>5 DEF Sched!Sleep, SleptFor

Slept(ms) == ms >= 1 => SleptFor(ms \div MILLISECONDS_TICK)

\* SYS_SLEEP: a yield, or a countdown of as many ticks as were asked for,
\* whatever place the search finds.
LEMMA SleepRefines ==
  ASSUME NEW Q, NEW Z, NEW r, NEW q, NEW c, Now(Q, Z, r, q, c), WholeTicks,
         NEW ms \in SleepLens, SysSleep(ms)
  PROVE  (Sched!Yield \/ Sched!Sleep) /\ Slept(ms)
<1>1. PICK len : len = ms \div MILLISECONDS_TICK
  OBVIOUS
<1>2. PICK L : L = [rq EXCEPT !.state[p] = "SLEEP", !.next[p] = NULL]
  OBVIOUS
<1>3. /\ p \in Slots /\ rq \in Lists /\ p # Idle /\ NULL \notin Slots
      /\ Q \subseteq Slots /\ Z \subseteq Slots /\ p \notin Q \cup Z
      /\ Maps(rq, sleepQ, sleepdiff, Q, Z, r, q, c)
      /\ sleepQ \in Ptr /\ sleepdiff \in [Slots -> Word]
      /\ mode = "user" /\ UNCHANGED <<pid, waitpid>>
  BY NowReads, SlotsAreNat DEF Now, TypeOK, SysSleep, UserTrap, Trap
<1>4. len \in Word
  BY <1>1, ArgumentAssumption DEF Word
<1>5. /\ L \in Lists /\ L.head = rq.head /\ L.tail = rq.tail
      /\ L.next = [rq.next EXCEPT ![p] = NULL]
      /\ L.state = [rq.state EXCEPT ![p] = "SLEEP"]
  BY <1>2, <1>3 DEF Lists, States, Ptr
<1>6. /\ \A s \in Slots \ {p} : L.next[s] = rq.next[s] /\ L.state[s] = rq.state[s]
      /\ L.next[p] = NULL /\ L.state[p] = "SLEEP"
  BY <1>3, <1>5 DEF Lists
<1>7. /\ mode' = "user"
      /\ \A s \in Slots : rq.state[s] = "WAIT" <=> rq'.state[s] = "WAIT"
  BY SleepLists DEF Now
<1>8. \/ ms < 1 /\ Dispatch(Ready(rq, p)) /\ UNCHANGED <<sleepQ, sleepdiff>>
      \/ /\ ms >= 1 /\ sleepQ = NULL /\ sleepQ' = p
         /\ sleepdiff' = [sleepdiff EXCEPT ![p] = len] /\ Dispatch(L)
      \/ /\ ms >= 1 /\ sleepQ # NULL /\ sleepdiff[sleepQ] > len /\ sleepQ' = p
         /\ sleepdiff' = [[sleepdiff EXCEPT ![sleepQ] = @ - len] EXCEPT ![p] = len]
         /\ Dispatch([L EXCEPT !.next[p] = sleepQ])
      \/ /\ ms >= 1 /\ sleepQ # NULL /\ sleepdiff[sleepQ] <= len /\ sleepQ' = sleepQ
         /\ InsertAfter(L, SleepSearch(L.next, len).tmp,
                           SleepSearch(L.next, len).len)
      \/ /\ ms >= 1 /\ sleepQ # NULL
         /\ Passes(L.next, SleepSearch(L.next, len))
  BY <1>1, <1>2 DEF SysSleep
<1>9. CASE ms < 1 /\ Dispatch(Ready(rq, p)) /\ UNCHANGED <<sleepQ, sleepdiff>>
  <2>1. /\ mode' = "user" /\ Sched!Switch(Append(QueueOf, p))
        /\ Asleep' = Asleep /\ Waiting' = Waiting
    BY <1>3, <1>9, YieldMaps
  <2>2. Slept(ms)
    BY <1>9, ArgumentAssumption DEF Slept
  <2> QED
    BY <1>3, <2>1, <2>2 DEF Sched!Yield
<1>10. ms >= 1 => len # 0
  BY <1>1 DEF WholeTicks
<1>11. CASE /\ ms >= 1 /\ sleepQ = NULL /\ sleepQ' = p
            /\ sleepdiff' = [sleepdiff EXCEPT ![p] = len] /\ Dispatch(L)
  <2>1. PICK diff2 : diff2 = sleepdiff'
    OBVIOUS
  <2>2. /\ diff2 \in [Slots -> Word] /\ diff2[p] = len
        /\ \A u \in Z \ {sleepQ} : diff2[u] = sleepdiff[u]
    BY <1>3, <1>4, <1>11, <2>1
  <2>3. Reads(L, p, diff2, Q, Z \cup {p}, q, Later(Z, c, p, len))
    <3>1. /\ \A u \in Q \cup Z : L.next[u] = rq.next[u] /\ L.state[u] = rq.state[u]
          /\ L.next[p] = sleepQ /\ L.state[p] = "SLEEP"
          /\ sleepQ # NULL => diff2[sleepQ] = sleepdiff[sleepQ] - len
      BY <1>3, <1>6, <1>11
    <3>2. L \in Lists /\ L.head = rq.head /\ L.tail = rq.tail
      BY <1>5
    <3>3. Maps(rq, sleepQ, sleepdiff, Q, Z, r, q, c) /\ p \in Slots /\ p \notin Q \cup Z
      BY <1>3
    <3> HIDE DEF NULL
    <3> QED
      BY <1>4, <2>2, <3>1, <3>2, <3>3, PushMaps
  <2>4. Reads(L, sleepQ', sleepdiff', Q, Z \cup {p}, q, Later(Z, c, p, len))
    BY <1>11, <2>1, <2>3
  <2>5. Sched!Sleep /\ SleptFor(len)
    BY <1>3, <1>4, <1>7, <1>10, <1>11, <2>4, AsleepSwitches
  <2> QED
    BY <1>1, <2>5 DEF Slept
<1>12. CASE /\ ms >= 1 /\ sleepQ # NULL /\ sleepdiff[sleepQ] > len /\ sleepQ' = p
            /\ sleepdiff' = [[sleepdiff EXCEPT ![sleepQ] = @ - len] EXCEPT ![p] = len]
            /\ Dispatch([L EXCEPT !.next[p] = sleepQ])
  <2>1. PICK diff2, M : diff2 = sleepdiff' /\ M = [L EXCEPT !.next[p] = sleepQ]
    OBVIOUS
  <2>2. sleepQ \in Z
    BY <1>3, <1>12 DEF Maps, Shape, Threads
  <2>3. /\ diff2 \in [Slots -> Word] /\ diff2[p] = len
        /\ diff2[sleepQ] = sleepdiff[sleepQ] - len
        /\ \A u \in Z \ {sleepQ} : diff2[u] = sleepdiff[u]
    <3>1. sleepQ \in Slots /\ sleepQ # p /\ sleepdiff[sleepQ] \in Word
      BY <1>3, <2>2
    <3>2. sleepdiff[sleepQ] - len \in Word
      BY <1>4, <1>12, <3>1, TableAssumption DEF Word
    <3> QED
      BY <1>3, <1>4, <1>12, <2>1, <3>1, <3>2
  <2>4. Reads(M, p, diff2, Q, Z \cup {p}, q, Later(Z, c, p, len))
    <3>1. /\ M \in Lists /\ M.head = rq.head /\ M.tail = rq.tail
          /\ M.next[p] = sleepQ /\ M.state = L.state
          /\ \A s \in Slots \ {p} : M.next[s] = L.next[s]
      BY <1>3, <1>5, <2>1 DEF Lists
    <3>2. /\ \A u \in Q \cup Z : M.next[u] = rq.next[u] /\ M.state[u] = rq.state[u]
          /\ M.state[p] = "SLEEP"
      BY <1>3, <1>6, <3>1
    <3> HIDE DEF NULL
    <3> QED
      BY <1>3, <1>4, <2>3, <3>1, <3>2, PushMaps
  <2>5. Reads(M, sleepQ', sleepdiff', Q, Z \cup {p}, q, Later(Z, c, p, len))
    BY <1>12, <2>1, <2>4
  <2>6. Dispatch(M)
    BY <1>12, <2>1
  <2>7. Sched!Sleep /\ SleptFor(len)
    BY <1>3, <1>4, <1>7, <1>10, <1>12, <2>5, <2>6, AsleepSwitches
  <2> QED
    BY <1>1, <2>7 DEF Slept
<1>13. CASE ms >= 1 /\ sleepQ # NULL
  <2>1. Maps(L, sleepQ, sleepdiff, Q, Z, r, q, c)
    <3>1. \A u \in Q \cup Z : L.next[u] = rq.next[u] /\ L.state[u] = rq.state[u]
      BY <1>3, <1>6
    <3> QED
      BY <1>3, <1>5, <3>1, KeptMaps
  <2>2. /\ Shape(L, sleepQ, Q, Z, r) /\ Counts(L.next, sleepQ, sleepdiff, Z, c)
        /\ TypeOK
    BY <2>1 DEF Maps, Now
  <2>3. PICK w : w = SleepSearch(L.next, len)
    OBVIOUS
  <2>4. ~Passes(L.next, w)
    BY <1>4, <1>13, <2>2, <2>3, SearchEnds
  <2>5. ASSUME sleepQ' = sleepQ, sleepdiff[sleepQ] <= len,
               InsertAfter(L, w.tmp, w.len)
        PROVE  Sched!Sleep /\ Slept(ms)
    <3>1. PICK spot, d : spot = w.tmp /\ d = w.len
      OBVIOUS
    <3>2. /\ spot \in Z /\ d \in Word /\ c[spot] + d = len
          /\ L.next[spot] # NULL => d < sleepdiff[L.next[spot]]
      BY <1>4, <1>13, <2>2, <2>3, <2>5, <3>1, SearchCounts
    <3>3. PICK next, M, diff2 :
            /\ next = [[L.next EXCEPT ![p] = L.next[spot]] EXCEPT ![spot] = p]
            /\ M = [L EXCEPT !.next = next] /\ diff2 = sleepdiff'
      OBVIOUS
    <3>4. spot \in Slots /\ spot # p
      BY <1>3, <3>2
    <3>5. next \in [Slots -> Ptr] /\ next[p] = L.next[spot] /\ next[spot] = p
          /\ \A u \in Slots \ {p, spot} : next[u] = L.next[u]
      BY <1>3, <1>5, <3>3, <3>4 DEF Lists, Ptr
    <3>6. /\ M \in Lists /\ M.head = L.head /\ M.tail = L.tail
          /\ M.next = next /\ M.state = L.state
      BY <1>5, <3>3, <3>5 DEF Lists
    <3>7. /\ Dispatch(M)
          /\ diff2 = IF next[p] = NULL THEN [sleepdiff EXCEPT ![p] = d]
                     ELSE [[sleepdiff EXCEPT ![p] = d]
                             EXCEPT ![next[p]] = (@ - d) % WORD]
      BY <2>5, <3>1, <3>3 DEF InsertAfter
    <3>8. /\ diff2 \in [Slots -> Word] /\ diff2[p] = d
          /\ L.next[spot] # NULL =>
               diff2[L.next[spot]] = sleepdiff[L.next[spot]] - d
          /\ \A u \in Z : u # L.next[spot] => diff2[u] = sleepdiff[u]
      <4>1. CASE L.next[spot] = NULL
        BY <1>3, <3>2, <3>5, <3>7, <4>1
      <4>2. CASE L.next[spot] # NULL
        <5>1. PICK after : after = L.next[spot]
          OBVIOUS
        <5>2. after \in Z /\ after \in Slots /\ after # p /\ after # NULL
          BY <1>3, <2>2, <3>2, <4>2, <5>1 DEF Shape, Threads
        <5>3. sleepdiff[after] \in Word /\ d < sleepdiff[after]
          BY <1>3, <3>2, <4>2, <5>1, <5>2
        <5>4. /\ (sleepdiff[after] - d) % WORD = sleepdiff[after] - d
              /\ sleepdiff[after] - d \in Word
          BY <3>2, <5>3, TableAssumption DEF Word
        <5>5. diff2 = [[sleepdiff EXCEPT ![p] = d]
                         EXCEPT ![after] = (sleepdiff[after] - d) % WORD]
          BY <1>3, <3>5, <3>7, <5>1, <5>2
        <5> QED
          BY <1>3, <3>2, <5>1, <5>2, <5>4, <5>5
      <4> QED
        BY <4>1, <4>2
    <3>9. Reads(M, sleepQ, diff2, Q, Z \cup {p}, q, Later(Z, c, p, c[spot] + d))
      <4>1. /\ LinksIn(L.next, M.next, Q \cup Z, p, spot)
            /\ \A u \in Q \cup Z : M.state[u] = L.state[u]
            /\ M.state[p] = "SLEEP"
        BY <1>3, <1>6, <3>5, <3>6 DEF LinksIn
      <4>2. p \in Slots /\ p \notin Q \cup Z
        BY <1>3
      <4>3. M \in Lists /\ M.head = L.head /\ M.tail = L.tail
        BY <3>6
      <4>4. spot \in Z /\ d \in Word
        BY <3>2
      <4>5. /\ diff2 \in [Slots -> Word]
            /\ KeysIn(L.next, sleepdiff, diff2, Z, p, spot, d)
        BY <3>8 DEF KeysIn
      <4> HIDE DEF NULL
      <4> QED
        BY <2>1, <4>1, <4>2, <4>3, <4>4, <4>5, InsertMaps
    <3>10. Reads(M, sleepQ', sleepdiff', Q, Z \cup {p}, q, Later(Z, c, p, len))
      BY <2>5, <3>2, <3>3, <3>9
    <3>11. Sched!Sleep /\ SleptFor(len)
      BY <1>3, <1>4, <1>7, <1>10, <1>13, <3>7, <3>10, AsleepSwitches
    <3> QED
      BY <1>1, <3>11 DEF Slept
  <2> QED
    BY <1>8, <1>9, <1>11, <1>12, <1>13, <2>3, <2>4, <2>5
<1> QED
  BY <1>8, <1>9, <1>11, <1>12, <1>13

\* Taking out the k-th, as the library says it.
LEMMA OmitIsRemove ==
  ASSUME NEW q \in Seq(Slots), NEW k \in 1..Len(q)
  PROVE  Sched!RemoveAt(q, k) = OmitAt(q, k)
<1>1. PICK a, b : a = SubSeq(q, 1, k-1) /\ b = SubSeq(q, k+1, Len(q))
  OBVIOUS
<1>2. /\ a \in Seq(Slots) /\ Len(a) = k-1 /\ \A i \in 1..k-1 : a[i] = q[i]
      /\ b \in Seq(Slots) /\ Len(b) = Len(q) - k
      /\ \A i \in 1..Len(q)-k : b[i] = q[k+i]
  BY <1>1
<1>3. PICK z : z = a \o b
  OBVIOUS
<1>4. z \in Seq(Slots) /\ Len(z) = Len(q) - 1
  BY <1>2, <1>3
<1>5. ASSUME NEW i \in 1..Len(q)-1 PROVE z[i] = IF i < k THEN q[i] ELSE q[i+1]
  <2>1. Len(q) \in Nat /\ i \in Int /\ k \in Int
    OBVIOUS
  <2>2. CASE i < k
    BY <1>2, <1>3, <2>2
  <2>3. CASE ~(i < k)
    <3>1. z[i] = b[i - (k-1)]
      BY <1>2, <1>3, <2>3
    <3>2. b[i - (k-1)] = q[k + (i - (k-1))] /\ k + (i - (k-1)) = i+1
      BY <1>2, <2>3
    <3> QED
      BY <2>3, <3>1, <3>2
  <2> QED
    BY <2>2, <2>3
<1>6. z = [i \in 1..Len(q)-1 |-> z[i]]
  BY <1>4
<1>7. z = OmitAt(q, k)
  BY <1>5, <1>6 DEF OmitAt
<1> QED
  BY <1>1, <1>3, <1>7 DEF Sched!RemoveAt

\* Taking out one that stands in the queue, or one that does not.
LEMMA DequeuedReads ==
  ASSUME NEW q \in Seq(Slots), Distinct(q), NEW t
  PROVE  /\ t \notin Members(q) => Sched!Dequeued(q, t) = q
         /\ \A k \in 1..Len(q) : q[k] = t => Sched!Dequeued(q, t) = OmitAt(q, k)
<1>1. Sched!Range(q) = Members(q)
  BY DEF Sched!Range, Members
<1>2. ASSUME NEW k \in 1..Len(q), q[k] = t PROVE Sched!Dequeued(q, t) = OmitAt(q, k)
  <2>1. t \in Members(q)
    BY <1>2 DEF Members
  <2>2. (CHOOSE i \in DOMAIN q : q[i] = t) = k
    <3>1. DOMAIN q = 1..Len(q)
      OBVIOUS
    <3>2. \A i \in 1..Len(q) : q[i] = t => i = k
      BY <1>2 DEF Distinct
    <3> QED
      BY <1>2, <3>1, <3>2
  <2> QED
    BY <1>1, <2>1, <2>2, OmitIsRemove DEF Sched!Dequeued
<1> QED
  BY <1>1, <1>2 DEF Sched!Dequeued

\* The last one taken out again.
LEMMA OmitLast ==
  ASSUME NEW q \in Seq(Slots), NEW t \in Slots
  PROVE  OmitAt(Append(q, t), Len(q) + 1) = q
  BY DEF OmitAt

\* The kill signal to t, once t is off the ready list: L2 is the list then.
LEMMA KilledRefines ==
  ASSUME NEW Q, NEW Z, NEW r, NEW q, NEW c, Now(Q, Z, r, q, c),
         NEW t \in Slots, t \notin Z, mode = "user",
         UNCHANGED <<p, mode, sleepQ, sleepdiff, pid>>,
         NEW L2, NEW Q2, NEW r2,
         Maps(L2, sleepQ, sleepdiff, Q2, Z, r2, Sched!Dequeued(q, t), c),
         \A s \in Slots : L2.state[s] = "WAIT" <=> rq.state[s] = "WAIT" /\ s # t,
         rq' = ReadyAll(L2, Waiters(L2, t)),
         \A s \in Slots : rq'.state[s] = "WAIT" <=>
                            L2.state[s] = "WAIT" /\ s \notin Waiters(L2, t),
         waitpid' = [s \in Slots |-> IF s \in Waiters(L2, t) THEN 0 ELSE waitpid[s]]
  PROVE  Sched!Kill(t)
<1>1. QueueOf = q /\ Asleep = Sleeping(Z, c)
  BY NowReads
<1>2. PICK W : W = Waiters(L2, t)
  OBVIOUS
<1>3. PICK D : D = {u \in Slots : rq.state[u] = "WAIT"}
  OBVIOUS
<1>4. W = {u \in D \ {t} : waitpid[u] = pid[t]}
  BY <1>2, <1>3 DEF Waiters
<1>5. Waiting = [s \in D |-> waitpid[s]]
  BY <1>3 DEF Waiting
<1>6. W = {u \in DOMAIN Waiting \ {t} : Waiting[u] = pid[t]}
  BY <1>4, <1>5
<1>7. Waiting' = Sched!Without(Waiting, W \cup {t})
  <2>1. {u \in Slots : rq'.state[u] = "WAIT"} = D \ (W \cup {t})
    BY <1>2, <1>3
  <2>2. Waiting' = [s \in D \ (W \cup {t}) |-> waitpid'[s]]
    BY <2>1 DEF Waiting
  <2>3. \A s \in D \ (W \cup {t}) : waitpid'[s] = waitpid[s]
    BY <1>2, <1>3
  <2>4. Waiting' = [s \in D \ (W \cup {t}) |-> waitpid[s]]
    BY <2>2, <2>3
  <2>5. Sched!Without(Waiting, W \cup {t}) = [s \in D \ (W \cup {t}) |-> waitpid[s]]
    BY <1>5 DEF Sched!Without
  <2> QED
    BY <2>4, <2>5
<1>8. ReadsExtended(ReadyAll(L2, W), sleepQ, sleepdiff, Q2 \cup W, Z,
                    Sched!Dequeued(q, t), W, c)
  <2>1. W \cap (Q2 \cup Z) = {}
    BY <1>2 DEF Maps, Shape, Waiters
  <2>2. W \in SUBSET Slots
    BY <1>2 DEF Waiters
  <2> QED
    BY <2>1, <2>2, ReadyAllMaps
<1>9. PICK order, r3 :
        /\ Ordered(order, W)
        /\ Maps(ReadyAll(L2, W), sleepQ, sleepdiff, Q2 \cup W, Z, r3,
                Sched!Dequeued(q, t) \o order, c)
  BY <1>8 DEF ReadsExtended, Reads
<1>10. Maps(rq', sleepQ', sleepdiff', Q2 \cup W, Z, r3,
            Sched!Dequeued(q, t) \o order, c)
  BY <1>2, <1>9
<1>11. QueueOf' = Sched!Dequeued(q, t) \o order /\ Asleep' = Sleeping(Z, c)
  BY <1>10, MapsThen
<1>12. t \notin DOMAIN Asleep
  BY <1>1 DEF Sleeping
<1>13. \E o \in [1..Sched!Cardinality(W) -> W] :
         /\ \A i, j \in DOMAIN o : i < j => o[i] < o[j]
         /\ QueueOf' = Sched!Dequeued(QueueOf, t) \o o
  BY <1>1, <1>9, <1>11 DEF Ordered, Cardinality, Sched!Cardinality
<1> QED
  BY <1>1, <1>6, <1>7, <1>11, <1>12, <1>13 DEF Sched!Kill

\* kill() readies no one else.
LEMMA ReadyAllNone ==
  ASSUME NEW L
  PROVE  ReadyAll(L, {}) = L
  BY DEF ReadyAll

\* kill(): a signal interrupts a wait or leaves the lists alone, and the kill
\* signal takes its target off the queue and ends the waits for it.
LEMMA PostRefines ==
  ASSUME NEW Q, NEW Z, NEW r, NEW q, NEW c, Now(Q, Z, r, q, c),
         NEW t \in Slots, NEW sig \in SigArgs, Post(t, sig),
         rq.state[t] # "SLEEP", sig = KILL => t # Idle, mode = "user",
         UNCHANGED <<p, sleepQ, sleepdiff, pid>>
  PROVE  UNCHANGED Sched!svars \/ Sched!Interrupt(t) \/ Sched!Kill(t)
<1>1. /\ mode' = mode
      /\ \A s \in Slots :
           rq'.state[s] = IF /\ rq.state[s] = "WAIT"
                             /\ s = t \/ (sig = KILL /\ waitpid[s] = pid[t])
                          THEN "READY" ELSE rq.state[s]
  BY PostLists DEF Now
<1>2. /\ QueueOf = q /\ Asleep = Sleeping(Z, c) /\ rq \in Lists
      /\ Maps(rq, sleepQ, sleepdiff, Q, Z, r, q, c)
      /\ Q = Members(q) /\ q \in Seq(Slots) /\ Distinct(q)
  BY NowReads DEF Now
<1>0. Shape(rq, sleepQ, Q, Z, r) /\ t \notin Z /\ waitpid \in [Slots -> Word]
  BY DEF Now, Maps, SleepersOf, TypeOK
<1>3. t \in Q => rq.state[t] = "READY"
  BY <1>0, <1>2 DEF Shape
<1>4. PICK L1 : L1 = IF rq.state[t] = "WAIT" THEN Ready(rq, t) ELSE rq
  OBVIOUS
<1>5. PICK unlink : unlink = (sig = KILL /\ L1.state[t] = "READY")
  OBVIOUS
<1>6. PICK L2 : L2 = IF unlink THEN RemoveFromReady(L1, t) ELSE L1
  OBVIOUS
<1>7. PICK W : W = IF sig = KILL THEN Waiters(L2, t) ELSE {}
  OBVIOUS
<1>8. CASE rq.state[t] = "WAIT"
  <2>1. t \notin Q \cup Z /\ L1 = Ready(rq, t)
    BY <1>0, <1>2, <1>3, <1>4, <1>8
  <2>2. PICK r1 : Maps(L1, sleepQ, sleepdiff, Q \cup {t}, Z, r1, Append(q, t), c)
    BY <1>0, <1>2, <2>1, ReadyMaps DEF Reads
  <2>3. \A s \in Slots : L1.state[s] = IF s = t THEN "READY" ELSE rq.state[s]
    BY <1>0, <1>2, <2>1 DEF Ready, Lists
  <2>4. ~SearchSpins(L1, t)
    BY <2>2, ShapeHolds DEF Maps
  <2>5. /\ rq' = ReadyAll(L2, W)
        /\ waitpid' = [s \in Slots |-> IF s \in W THEN 0 ELSE waitpid[s]]
    BY <1>4, <1>5, <1>6, <1>7, <1>8, <2>4 DEF Post
  <2>6. CASE sig # KILL
    <3>1. W = {} /\ rq' = L1 /\ waitpid' = waitpid
      BY <1>0, <1>2, <1>5, <1>6, <1>7, <2>5, <2>6, ReadyAllNone
    <3>2. Maps(rq', sleepQ', sleepdiff', Q \cup {t}, Z, r1, Append(q, t), c)
      BY <2>2, <3>1
    <3>3. QueueOf' = Append(q, t) /\ Asleep' = Sleeping(Z, c)
      BY <3>2, MapsThen
    <3>4. PICK D : D = {u \in Slots : rq.state[u] = "WAIT"}
      OBVIOUS
    <3>5. {u \in Slots : rq'.state[u] = "WAIT"} = D \ {t}
      BY <1>1, <2>6, <3>4
    <3>6. Waiting = [s \in D |-> waitpid[s]] /\ t \in D
      BY <1>8, <3>4 DEF Waiting
    <3>7. Waiting' = [s \in D \ {t} |-> waitpid[s]]
      BY <3>1, <3>5 DEF Waiting
    <3>8. t \in DOMAIN Waiting /\ Waiting' = Sched!Without(Waiting, {t})
      BY <3>6, <3>7 DEF Sched!Without
    <3>9. Sched!Interrupt(t)
      BY <1>0, <1>1, <1>2, <3>3, <3>8 DEF Sched!Interrupt
    <3> QED
      BY <3>9
  <2>7. CASE sig = KILL
    <3>1. /\ L2 = RemoveFromReady(L1, t) /\ W = Waiters(L2, t)
      BY <1>5, <1>6, <1>7, <2>3, <2>7
    <3>2. PICK q1, k : q1 = Append(q, t) /\ k = Len(q) + 1
      OBVIOUS
    <3>3. k \in 1..Len(q1) /\ q1[k] = t /\ OmitAt(q1, k) = q
      BY <1>0, <1>2, <3>2, OmitLast
    <3>4. Maps(L1, sleepQ, sleepdiff, Q \cup {t}, Z, r1, q1, c)
      BY <2>2, <3>2
    <3>5. Maps(L2, sleepQ, sleepdiff, (Q \cup {t}) \ {t}, Z, r1, q, c)
      BY <3>1, <3>3, <3>4, RemoveMaps
    <3>6. Sched!Dequeued(q, t) = q
      BY <1>0, <1>2, <2>1, DequeuedReads
    <3>7. L2.state = L1.state
      <4>1. Shape(L1, sleepQ, Q \cup {t}, Z, r1) /\ t \in Q \cup {t}
        BY <3>4 DEF Maps
      <4> QED
        BY <3>1, <4>1, RemoveShape
    <3>8. \A s \in Slots : L2.state[s] = "WAIT" <=> rq.state[s] = "WAIT" /\ s # t
      BY <2>3, <3>7
    <3>9. \A s \in Slots : rq'.state[s] = "WAIT" <=>
                             L2.state[s] = "WAIT" /\ s \notin Waiters(L2, t)
      BY <1>1, <2>7, <3>8 DEF Waiters
    <3>10. Maps(L2, sleepQ, sleepdiff, Q, Z, r1, Sched!Dequeued(q, t), c)
      <4>1. (Q \cup {t}) \ {t} = Q
        BY <2>1
      <4> QED
        BY <3>5, <3>6, <4>1
    <3>11. /\ rq' = ReadyAll(L2, Waiters(L2, t))
           /\ waitpid' = [s \in Slots |-> IF s \in Waiters(L2, t) THEN 0 ELSE waitpid[s]]
      BY <2>5, <3>1
    <3>12. Sched!Kill(t)
      BY <1>0, <1>1, <1>2, <3>8, <3>9, <3>10, <3>11, KilledRefines
    <3> QED
      BY <3>12
  <2> QED
    BY <2>6, <2>7
<1>9. CASE rq.state[t] # "WAIT"
  <2>1. L1 = rq /\ ~SearchSpins(L1, t)
    BY <1>0, <1>2, <1>4, <1>9, ShapeHolds
  <2>2. /\ rq' = ReadyAll(L2, W)
        /\ waitpid' = [s \in Slots |-> IF s \in W THEN 0 ELSE waitpid[s]]
    BY <1>4, <1>5, <1>6, <1>7, <1>9, <2>1 DEF Post
  <2>3. CASE sig # KILL
    <3>1. W = {} /\ rq' = rq /\ waitpid' = waitpid
      BY <1>0, <1>2, <1>5, <1>6, <1>7, <2>1, <2>2, <2>3, ReadyAllNone
    <3> QED
      BY <1>1, <3>1, StillMaps
  <2>4. CASE sig = KILL
    <3>1. W = Waiters(L2, t)
      BY <1>7, <2>4
    <3>2. PICK Q2 : Maps(L2, sleepQ, sleepdiff, Q2, Z, r, Sched!Dequeued(q, t), c)
                    /\ L2.state = rq.state
      <4>1. CASE t \in Q
        <5>1. PICK k \in 1..Len(q) : t = q[k]
          BY <1>0, <1>2, <4>1 DEF Members
        <5>2. L2 = RemoveFromReady(rq, t)
          BY <1>3, <1>5, <1>6, <2>1, <2>4, <4>1
        <5>3. Sched!Dequeued(q, t) = OmitAt(q, k)
          BY <1>0, <1>2, <5>1, DequeuedReads
        <5>4. Maps(L2, sleepQ, sleepdiff, Q \ {t}, Z, r, OmitAt(q, k), c)
          BY <1>0, <1>2, <5>1, <5>2, RemoveMaps
        <5>5. L2.state = rq.state
          BY <1>0, <1>2, <4>1, <5>2, RemoveShape
        <5> QED
          BY <5>3, <5>4, <5>5
      <4>2. CASE t \notin Q
        <5>1. RemoveFromReady(rq, t) = rq
          BY <1>0, <1>2, <4>2, RemoveMissing
        <5>2. L2 = rq
          BY <1>6, <2>1, <5>1
        <5>3. Sched!Dequeued(q, t) = q
          BY <1>0, <1>2, <4>2, DequeuedReads
        <5> QED
          BY <1>0, <1>2, <5>2, <5>3
      <4> QED
        BY <4>1, <4>2
    <3>3. \A s \in Slots : L2.state[s] = "WAIT" <=> rq.state[s] = "WAIT" /\ s # t
      BY <1>9, <3>2
    <3>4. \A s \in Slots : rq'.state[s] = "WAIT" <=>
                             L2.state[s] = "WAIT" /\ s \notin Waiters(L2, t)
      BY <1>1, <2>4, <3>3 DEF Waiters
    <3>5. /\ rq' = ReadyAll(L2, Waiters(L2, t))
          /\ waitpid' = [s \in Slots |-> IF s \in Waiters(L2, t) THEN 0 ELSE waitpid[s]]
      BY <2>2, <3>1
    <3>6. Sched!Kill(t)
      BY <1>0, <1>1, <1>2, <3>2, <3>3, <3>4, <3>5, KilledRefines
    <3> QED
      BY <3>6
  <2> QED
    BY <2>3, <2>4
<1> QED
  BY <1>8, <1>9

\* SYS_KILL.
LEMMA KillRefines ==
  ASSUME NEW Q, NEW Z, NEW r, NEW q, NEW c, Now(Q, Z, r, q, c), Quiet,
         NEW n, NEW sig \in SigArgs, MayKill(n, sig), SysKill(n, sig)
  PROVE  \/ UNCHANGED Sched!svars
         \/ \E s \in Slots : Sched!Interrupt(s) \/ Sched!Kill(s)
<1>1. PICK t : t = FindPCB(n)
  OBVIOUS
<1>2. UNCHANGED <<p, sleepQ, sleepdiff, pid>> /\ mode = "user"
  BY DEF SysKill, UserTrap, Trap
<1>3. \/ UNCHANGED <<rq, mode, waitpid>>
      \/ t # NULL /\ Post(t, sig)
  BY <1>1 DEF SysKill
<1>4. CASE UNCHANGED <<rq, mode, waitpid>>
  BY <1>2, <1>4, StillMaps
<1>5. CASE t # NULL /\ Post(t, sig)
  <2>1. t \in Slots
    BY <1>1, <1>5, FindPCBType DEF Now
  <2>2. rq.state[t] # "SLEEP" /\ (sig = KILL => t # Idle)
    BY <1>1, <1>5 DEF MayKill, Quiet
  <2>3. UNCHANGED Sched!svars \/ Sched!Interrupt(t) \/ Sched!Kill(t)
    BY <1>2, <1>5, <2>1, <2>2, PostRefines
  <2> QED
    BY <2>1, <2>3
<1> QED
  BY <1>3, <1>4, <1>5

\* Every step.
LEMMA StepRefines ==
  ASSUME TypeOK, ListInv, KeyInv, Quiet, WholeTicks, Next
  PROVE  Sched!Next \/ UNCHANGED Sched!svars
<1>1. PICK Q, r : Placed(rq, sleepQ, p, Q, r)
  BY DEF ListInv
<1>2. PICK q, c : Maps(rq, sleepQ, sleepdiff, Q, SleepersOf(rq), r, q, c)
  BY <1>1, MapsExist
<1>3. PICK Z : Z = SleepersOf(rq)
  OBVIOUS
<1>4. Now(Q, Z, r, q, c)
  BY <1>1, <1>2, <1>3 DEF Now
<1>5. CASE \E gotStack \in BOOLEAN : SysCreate(gotStack)
  BY <1>4, <1>5, CreateRefines DEF Sched!Next
<1>6. CASE SysStop
  BY <1>4, <1>6, StopRefines DEF Sched!Next
<1>7. CASE SysGetpid \/ SysPuts \/ SysCpuTimes
  <2>1. UNCHANGED <<p, mode, rq, sleepQ, sleepdiff, pid, waitpid>>
    BY <1>7 DEF SysGetpid, SysPuts, SysCpuTimes, Answer
  <2> QED
    BY <2>1, StillMaps
<1>8. CASE \E n \in PidArgs : SysWait(n)
  BY <1>4, <1>8, WaitRefines DEF Sched!Next
<1>9. CASE \E ms \in SleepLens : SysSleep(ms)
  BY <1>4, <1>9, SleepRefines DEF Sched!Next
<1>10. CASE \E n \in PidArgs, sig \in SigArgs : MayKill(n, sig) /\ SysKill(n, sig)
  BY <1>4, <1>10, KillRefines DEF Sched!Next
<1>11. CASE \E sig \in SigArgs, h \in Handlers \cup BadHandlers \cup {0} :
              SysSighandler(sig, h)
  <2>1. UNCHANGED <<p, mode, rq, sleepQ, sleepdiff, pid, waitpid>>
    BY <1>11 DEF SysSighandler
  <2> QED
    BY <2>1, StillMaps
<1>12. CASE SysSigreturn
  <2>1. UNCHANGED <<p, mode, rq, sleepQ, sleepdiff, pid, waitpid>>
    BY <1>12 DEF SysSigreturn
  <2> QED
    BY <2>1, StillMaps
<1>13. CASE SysYield
  BY <1>4, <1>13, YieldRefines DEF Sched!Next
<1>14. CASE SysTimer
  BY <1>4, <1>14, TimerRefines DEF Sched!Next
<1>15. CASE TickWake
  BY <1>4, <1>15, TickWakeRefines DEF Sched!Next
<1>16. CASE TimerDone
  BY <1>4, <1>16, TimerDoneRefines DEF Sched!Next
<1> QED
  BY <1>5, <1>6, <1>7, <1>8, <1>9, <1>10, <1>11, <1>12, <1>13, <1>14, <1>15,
     <1>16 DEF Next, Calls

\* SYS_SLEEP leaves a first key that is not 0.
LEMMA SleepKey ==
  ASSUME TypeOK, NEW Q, NEW r, Placed(rq, sleepQ, p, Q, r), KeyInv, WholeTicks,
         NEW ms \in SleepLens, SysSleep(ms)
  PROVE  KeyInv'
<1>1. PICK len : len = ms \div MILLISECONDS_TICK
  OBVIOUS
<1>2. PICK L : L = [rq EXCEPT !.state[p] = "SLEEP", !.next[p] = NULL]
  OBVIOUS
<1>3. PICK Z : Z = SleepersOf(rq)
  OBVIOUS
<1>4. /\ p \in Slots /\ rq \in Lists /\ mode = "user" /\ NULL \notin Slots
      /\ Shape(rq, sleepQ, Q, Z, r) /\ p \notin Q \cup Z
      /\ Q \subseteq Slots /\ Z \subseteq Slots
      /\ sleepQ \in Ptr /\ sleepdiff \in [Slots -> Word]
      /\ Threads(rq.next, sleepQ, NULL, Z, r)
  BY <1>3, SlotsAreNat DEF TypeOK, Placed, SleepersOf, Shape, SysSleep, UserTrap, Trap
<1>5. len \in Word /\ (ms >= 1 => len > 0)
  BY <1>1, ArgumentAssumption, TableAssumption DEF Word, WholeTicks
<1>6. \/ UNCHANGED <<sleepQ, sleepdiff>>
      \/ /\ ms >= 1 /\ sleepQ = NULL /\ sleepQ' = p
         /\ sleepdiff' = [sleepdiff EXCEPT ![p] = len]
      \/ /\ ms >= 1 /\ sleepQ # NULL /\ sleepQ' = p
         /\ sleepdiff' = [[sleepdiff EXCEPT ![sleepQ] = @ - len] EXCEPT ![p] = len]
      \/ /\ ms >= 1 /\ sleepQ # NULL /\ sleepQ' = sleepQ
         /\ InsertAfter(L, SleepSearch(L.next, len).tmp,
                           SleepSearch(L.next, len).len)
  BY <1>1, <1>2 DEF SysSleep
<1>7. CASE UNCHANGED <<sleepQ, sleepdiff>>
  BY <1>4, <1>7 DEF KeyInv
<1>8. CASE /\ ms >= 1 /\ sleepQ' = p
           /\ \/ sleepdiff' = [sleepdiff EXCEPT ![p] = len]
              \/ sleepdiff' = [[sleepdiff EXCEPT ![sleepQ] = @ - len]
                                 EXCEPT ![p] = len]
  <2>1. sleepdiff'[p] = len
    BY <1>4, <1>8
  <2> QED
    BY <1>5, <1>8, <2>1 DEF KeyInv
<1>9. CASE /\ ms >= 1 /\ sleepQ # NULL /\ sleepQ' = sleepQ
           /\ InsertAfter(L, SleepSearch(L.next, len).tmp,
                             SleepSearch(L.next, len).len)
  <2>1. PICK spot, d : /\ spot = SleepSearch(L.next, len).tmp
                       /\ d = SleepSearch(L.next, len).len
    OBVIOUS
  <2>2. /\ L \in Lists /\ L.head = rq.head /\ L.tail = rq.tail
        /\ \A s \in Slots \ {p} : L.next[s] = rq.next[s] /\ L.state[s] = rq.state[s]
    BY <1>2, <1>4 DEF Lists, States, Ptr
  <2>3. Shape(L, sleepQ, Q, Z, r)
    <3>1. \A u \in Q \cup Z : L.next[u] = rq.next[u] /\ L.state[u] = rq.state[u]
      BY <1>4, <2>2
    <3> QED
      BY <1>4, <2>2, <3>1, ShapeKept
  <2>4. spot \in Z
    BY <1>5, <1>9, <2>1, <2>3, SearchEnds
  <2>5. PICK after : after = L.next[spot]
    OBVIOUS
  <2>6. after # NULL => after # sleepQ
    <3>1. Threads(L.next, sleepQ, NULL, Z, r)
      BY <2>3 DEF Shape
    <3> HIDE DEF NULL
    <3> QED
      BY <2>4, <2>5, <3>1, OneLink
  <2>7. /\ sleepQ \in Slots /\ sleepQ # p /\ spot # p
        /\ after \in Slots \cup {NULL}
    BY <1>4, <1>9, <2>2, <2>4, <2>5 DEF Threads, Ptr, Lists
  <2>8. PICK next : next = [[L.next EXCEPT ![p] = L.next[spot]] EXCEPT ![spot] = p]
    OBVIOUS
  <2>9. next[p] = after
    BY <1>4, <2>2, <2>4, <2>5, <2>7, <2>8 DEF Lists
  <2>10. sleepdiff' = IF next[p] = NULL THEN [sleepdiff EXCEPT ![p] = d]
                      ELSE [[sleepdiff EXCEPT ![p] = d]
                              EXCEPT ![next[p]] = (@ - d) % WORD]
    BY <1>9, <2>1, <2>8 DEF InsertAfter
  <2>11. sleepdiff'[sleepQ] = sleepdiff[sleepQ]
    BY <1>4, <2>6, <2>7, <2>9, <2>10
  <2> QED
    BY <1>4, <1>9, <2>11 DEF KeyInv
<1> QED
  BY <1>6, <1>7, <1>8, <1>9

\* Only the timer makes the first key 0, and its loop goes on until it is not.
LEMMA KeyInductive ==
  ASSUME TypeOK, ListInv, KeyInv, WholeTicks, [Next]_vars
  PROVE  KeyInv'
<1>1. CASE UNCHANGED vars
  BY <1>1 DEF vars, KeyInv
<1>2. CASE \E ms \in SleepLens : SysSleep(ms)
  BY <1>2, SleepKey DEF ListInv
<1>3. CASE SysTimer \/ TickWake
  <2>1. mode' = "tick"
    BY <1>3 DEF SysTimer, TickWake
  <2> QED
    BY <2>1 DEF KeyInv
<1>4. CASE TimerDone
  <2>1. UNCHANGED <<sleepQ, sleepdiff>> /\ ~(sleepQ # NULL /\ sleepdiff[sleepQ] = 0)
    BY <1>4 DEF TimerDone, Expired
  <2>2. sleepQ # NULL => sleepdiff[sleepQ] \in Nat
    BY TableAssumption DEF TypeOK, Ptr, Word
  <2> QED
    BY <2>1, <2>2 DEF KeyInv
<1>5. CASE Calls /\ ~\E ms \in SleepLens : SysSleep(ms)
  <2>1. mode = "user" /\ UNCHANGED <<sleepQ, sleepdiff>>
    BY <1>5 DEF Calls, SysCreate, SysStop, SysGetpid, SysPuts, SysCpuTimes, Answer,
       SysWait, SysKill, SysSighandler, SysSigreturn, SysYield, UserTrap, Trap
  <2> QED
    BY <2>1 DEF KeyInv
<1> QED
  BY <1>1, <1>2, <1>3, <1>4, <1>5 DEF Next

\* initproc() leaves one program on the ready list and nobody asleep.
LEMMA InitRefines ==
  ASSUME Init
  PROVE  KeyInv /\ Sched!Init
<1>1. /\ Idle \in Slots /\ Second \in Slots /\ NULL \notin Slots
      /\ Second # NULL
  BY TableAssumption, SlotsAreNat DEF Idle, Second, Slots
<1>2. PICK q : q = <<Second>>
  OBVIOUS
<1>3. Line(rq.next, rq.head, q)
  BY <1>1, <1>2 DEF Init, Line
<1>4. TypeOK /\ ListInv
  BY InitLists, InitType
<1>5. PICK Q, r : Placed(rq, sleepQ, p, Q, r)
  BY <1>4 DEF ListInv
<1>6. QueueOf = q
  <2>1. QueueIn(rq) = q
    BY <1>3, <1>5, LineRead DEF Placed
  <2> QED
    BY <2>1 DEF QueueOf, QueueIn, OnList
<1>7. Asleep = << >>
  <2>1. OnList(sleepQ) = SleepersOf(rq)
    BY <1>5, OnLists
  <2>2. SleepersOf(rq) = {}
    BY DEF Init, SleepersOf
  <2> QED
    BY <2>1, <2>2 DEF Asleep
<1>8. Waiting = << >>
  <2>1. {u \in Slots : rq.state[u] = "WAIT"} = {}
    BY DEF Init
  <2> QED
    BY <2>1 DEF Waiting
<1>9. pid \in [Slots -> Word] /\ p = Idle /\ mode = "user" /\ sleepQ = NULL
  BY <1>4 DEF TypeOK, Init
<1> QED
  BY <1>2, <1>6, <1>7, <1>8, <1>9 DEF Sched!Init, KeyInv

\* The kernel implements the abstract scheduler: with every program whatever
\* that signals no sleeping process, does not kill the idle process and sleeps
\* for a tick at least, what the ready list's links, the delta list's keys and
\* the pcbs' states amount to is one first-in first-out queue, one countdown
\* per sleeping process, and one awaited name per waiting process (disp.c,
\* sleep.c, create.c).
THEOREM KernelImplementsScheduler ==
  ASSUME Quiet, WholeTicks
  PROVE  Spec => ImplementsScheduler
<1>1. Init => KeyInv /\ Sched!Init
  BY InitRefines
<1>2. TypeOK /\ ListInv /\ KeyInv /\ [Next]_vars => KeyInv'
  BY KeyInductive
<1>3. TypeOK /\ ListInv /\ KeyInv /\ [Next]_vars => [Sched!Next]_Sched!svars
  <2> SUFFICES ASSUME TypeOK, ListInv, KeyInv, [Next]_vars
               PROVE  Sched!Next \/ UNCHANGED Sched!svars
    OBVIOUS
  <2>1. CASE UNCHANGED vars
    <3>1. UNCHANGED <<p, mode, rq, sleepQ, sleepdiff, pid, waitpid>>
      BY <2>1 DEF vars
    <3> QED
      BY <3>1, StillMaps
  <2>2. CASE Next
    BY <2>2, StepRefines
  <2> QED
    BY <2>1, <2>2
<1>4. Spec => [](TypeOK /\ ListInv /\ WaitInv)
  BY ListsInvariant
<1> QED
  BY <1>1, <1>2, <1>3, <1>4, PTL DEF Spec, ImplementsScheduler, Sched!Spec

\* Under the same hypotheses every sleep lasts as many ticks as were asked for:
\* sleep() puts the caller where the keys before it add up to that number and
\* changes no other countdown (sleep.c).
THEOREM SleepersSleepAsAsked ==
  ASSUME Quiet, WholeTicks
  PROVE  Spec => SleepsAsAsked
<1>1. Init => KeyInv
  BY InitRefines
<1>2. TypeOK /\ ListInv /\ KeyInv /\ [Next]_vars => KeyInv'
  BY KeyInductive
<1> DEFINE Asked == \A ms \in SleepLens : ms >= 1 /\ SysSleep(ms) =>
                      Asleep' = Sched!With(Asleep, p, ms \div MILLISECONDS_TICK)
<1>3. TypeOK /\ ListInv /\ KeyInv /\ [Next]_vars => [Asked]_vars
  <2> SUFFICES ASSUME TypeOK, ListInv, KeyInv,
                      NEW ms \in SleepLens, ms >= 1, SysSleep(ms)
               PROVE  Asleep' = Sched!With(Asleep, p, ms \div MILLISECONDS_TICK)
    OBVIOUS
  <2>1. PICK Q, r : Placed(rq, sleepQ, p, Q, r)
    BY DEF ListInv
  <2>2. PICK q, c : Maps(rq, sleepQ, sleepdiff, Q, SleepersOf(rq), r, q, c)
    BY <2>1, MapsExist
  <2>3. Now(Q, SleepersOf(rq), r, q, c)
    BY <2>1, <2>2 DEF Now
  <2>4. Slept(ms)
    BY <2>3, SleepRefines
  <2> QED
    BY <2>4 DEF Slept, SleptFor
<1>4. Spec => [](TypeOK /\ ListInv /\ WaitInv)
  BY ListsInvariant
<1> QED
  BY <1>1, <1>2, <1>3, <1>4, PTL DEF Spec, SleepsAsAsked

=============================================================================
