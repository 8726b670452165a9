-------------------------- MODULE KernelListsProofs -------------------------
(***************************************************************************)
(* Proofs about the lists of module Kernel, for every value of its         *)
(* constants and every Workload without signals to sleeping processes and  *)
(* without the kill signal to the idle process, both of which break them:  *)
(*   ListsStaySound      the ready list and the sleep list end, are apart  *)
(*                       and hold processes of the state they are for;     *)
(*   SleepersStayListed  every sleeping process is on the sleep list;      *)
(*   ReadyStayQueued     every ready process runs or is queued, as long as *)
(*                       nobody sends the kill signal;                     *)
(*   ReturnsKept         nobody touches the answer of a queued process;    *)
(*   WaitsEnd            a wait ends by a signal or by the kill signal to  *)
(*                       the awaited process, and its answer says which.   *)
(* Sleeps of less than a tick, whose keys wrap, are among the programs:    *)
(* the lists do not depend on the keys.                                    *)
(***************************************************************************)
EXTENDS KernelProofs, Threads

USE DEF NULL

-----------------------------------------------------------------------------
(* Following the links. *)

\* The recursive definition of Chain has a value: the function that follows
\* next.
LEMMA ChainFollows ==
  ASSUME NEW next \in [Slots -> Ptr], NEW start \in Ptr
  PROVE  Follows(Chain(next, start), next, start, NULL)
<1>0. PICK follow : follow = [s \in Ptr |-> IF s = NULL THEN NULL ELSE next[s]]
  OBVIOUS
<1>1. follow \in [Ptr -> Ptr]
  BY <1>0 DEF Ptr
<1>2. PICK f \in [Nat -> Ptr] :
        f[0] = start /\ \A i \in Nat : i # 0 => f[i] = follow[f[i-1]]
  <2>1. Iterable(follow, start, Ptr)
    BY <1>1, Iterate
  <2> QED
    BY <2>1 DEF Iterable
<1> DEFINE at == CHOOSE g : g = [i \in Nat |-> IF i = 0 THEN start ELSE follow[g[i-1]]]
<1>3. at = [i \in Nat |-> IF i = 0 THEN start ELSE follow[at[i-1]]]
  <2>1. f = [i \in Nat |-> IF i = 0 THEN start ELSE follow[f[i-1]]]
    BY <1>2
  <2> QED
    BY <2>1
<1>4. Chain(next, start) = at
  BY <1>0 DEF Chain
<1> HIDE DEF at
<1> DEFINE T == {i \in Nat : at[i] \in Ptr}
<1>5. Nat \subseteq T
  <2>1. 0 \in T
    BY <1>3
  <2>2. ASSUME NEW i \in Nat, i \in T PROVE i + 1 \in T
    <3>1. at[i+1] = follow[at[i]]
      <4>1. i + 1 \in Nat /\ i + 1 # 0 /\ (i + 1) - 1 = i
        OBVIOUS
      <4> QED
        BY <1>3, <4>1
    <3> QED
      BY <1>1, <2>2, <3>1
  <2> HIDE DEF T
  <2> QED
    BY <2>1, <2>2, NatInduct
<1>6. ASSUME NEW i \in Nat
      PROVE  at[i] = IF i = 0 THEN start
                     ELSE IF at[i-1] = NULL THEN NULL ELSE next[at[i-1]]
  <2>1. CASE i = 0
    BY <1>3, <2>1
  <2>2. CASE i # 0
    <3>1. i - 1 \in Nat
      BY <2>2
    <3>2. at[i] = follow[at[i-1]] /\ at[i-1] \in Ptr
      BY <1>3, <1>5, <2>2, <3>1
    <3> QED
      BY <1>0, <2>2, <3>2
  <2> QED
    BY <2>1, <2>2
<1>7. at = [i \in Nat |-> at[i]]
  BY <1>3
<1>8. at = [i \in Nat |-> IF i = 0 THEN start
                          ELSE IF at[i-1] = NULL THEN NULL ELSE next[at[i-1]]]
  BY <1>6, <1>7
<1> QED
  BY <1>4, <1>8 DEF Follows

\* There are MAX_PROC slots.
LEMMA SlotsFinite ==
  ASSUME NEW C \in SUBSET Slots
  PROVE  IsFiniteSet(C) /\ Cardinality(C) <= MAX_PROC
<1>1. MAX_PROC \in Nat /\ MAX_PROC >= 2
  BY TableAssumption
<1>2. IsFiniteSet(Slots) /\ Cardinality(Slots) = MAX_PROC
  <2>1. /\ IsFiniteSet(0..MAX_PROC-1)
        /\ Cardinality(0..MAX_PROC-1) = IF 0 > MAX_PROC-1 THEN 0 ELSE MAX_PROC-1-0+1
    BY <1>1, FS_Interval
  <2> QED
    BY <1>1, <2>1 DEF Slots
<1> QED
  BY <1>2, FS_Subset

\* A list threaded through slots ends within MAX_PROC links, and what is met
\* on the way is its members.
LEMMA ListHolds ==
  ASSUME NEW next \in [Slots -> Ptr], NEW start \in Ptr,
         NEW C \in SUBSET Slots, NEW r, Threads(next, start, NULL, C, r)
  PROVE  /\ Chain(next, start)[MAX_PROC] = NULL
         /\ {Chain(next, start)[i] : i \in 0..MAX_PROC} \ {NULL} = C
<1> DEFINE at == Chain(next, start)
<1>1. Follows(at, next, start, NULL)
  BY ChainFollows
<1> HIDE DEF at
<1>2. NULL \notin C /\ MAX_PROC \in Nat
  BY SlotsAreNat
<1>3. at[MAX_PROC] = NULL
  <2>1. IsFiniteSet(C) /\ Cardinality(C) <= MAX_PROC
    BY SlotsFinite
  <2> HIDE DEF NULL
  <2> QED
    BY <1>1, <1>2, <2>1, ListEnds
<1>4. \A i \in 0..MAX_PROC : at[i] \in C \cup {NULL}
  <2>1. \A i \in Nat : at[i] \in C \cup {NULL}
    BY <1>1, <1>2, OnlyMembers
  <2> QED
    BY <1>2, <2>1
<1>5. \A s \in C : \E i \in 0..MAX_PROC : at[i] = s
  <2> HIDE DEF NULL
  <2> QED
    BY <1>1, <1>2, <1>3, AllMembers
<1>6. {at[i] : i \in 0..MAX_PROC} \ {NULL} = C
  BY <1>2, <1>4, <1>5
<1> QED
  BY <1>3, <1>6 DEF at

-----------------------------------------------------------------------------
(* The two lists of a state: L is a value of rq and sl one of sleepQ. *)

\* Q are the pcbs on the ready list, Z those on the sleep list, and r ranks the
\* members of each.
Shape(L, sl, Q, Z, r) ==
  /\ L \in Lists /\ sl \in Ptr /\ r \in [Slots -> Int]
  /\ Q \in SUBSET Slots /\ Z \in SUBSET Slots /\ Q \cap Z = {}
  /\ Threads(L.next, L.head, NULL, Q, r)
  /\ Threads(L.next, sl, NULL, Z, r)
  /\ L.tail = NULL => Q = {}
  /\ L.tail # NULL => L.tail \in Q /\ L.next[L.tail] = NULL
  /\ \A s \in Q : L.state[s] = "READY"
  /\ \A s \in Z : L.state[s] = "SLEEP"

\* The empty list.
LEMMA ShapeEmpty ==
  ASSUME NEW L, NEW sl, NEW Q, NEW Z, NEW r, Shape(L, sl, Q, Z, r)
  PROVE  /\ Q = {} <=> L.head = NULL
         /\ Q = {} <=> L.tail = NULL
         /\ NULL \notin Q /\ NULL \notin Z
<1>1. NULL \notin Slots
  BY SlotsAreNat
<1> HIDE DEF NULL
<1> QED
  BY <1>1 DEF Shape, Threads

\* A pcb on neither list may change its state and its link.
LEMMA ShapeKept ==
  ASSUME NEW L, NEW sl, NEW Q, NEW Z, NEW r, Shape(L, sl, Q, Z, r),
         NEW M \in Lists, M.head = L.head, M.tail = L.tail,
         \A s \in Q \cup Z : M.next[s] = L.next[s] /\ M.state[s] = L.state[s]
  PROVE  Shape(M, sl, Q, Z, r)
<1>1. Threads(M.next, M.head, NULL, Q, r)
  BY ThreadsKept DEF Shape
<1>2. Threads(M.next, sl, NULL, Z, r)
  BY ThreadsKept DEF Shape
<1> QED
  BY <1>1, <1>2 DEF Shape

\* ready() of a pcb on neither list appends it.
LEMMA ReadyShape ==
  ASSUME NEW L, NEW sl, NEW Q, NEW Z, NEW r, Shape(L, sl, Q, Z, r),
         NEW s \in Slots, s \notin Q \cup Z
  PROVE  \E r2 : Shape(Ready(L, s), sl, Q \cup {s}, Z, r2)
<1> DEFINE M == Ready(L, s)
           r2 == [r EXCEPT ![s] = IF L.tail = NULL THEN 0 ELSE r[L.tail] + 1]
<1>1. /\ L \in Lists /\ r \in [Slots -> Int] /\ Q \subseteq Slots /\ Z \subseteq Slots
      /\ L.tail # NULL => L.tail \in Q /\ L.next[L.tail] = NULL
      /\ NULL \notin Slots
  BY SlotsAreNat DEF Shape
<1>2. M \in Lists
  BY <1>1, ReadyType
<1>3. /\ M.head = IF L.tail = NULL THEN s ELSE L.head
      /\ M.tail = s
      /\ \A i \in Slots :
           /\ M.next[i] = IF i = L.tail THEN s
                          ELSE IF i = s THEN NULL ELSE L.next[i]
           /\ M.state[i] = IF i = s THEN "READY" ELSE L.state[i]
  BY <1>1 DEF Ready, Lists
<1>4. /\ r2 \in [Slots -> Int]
      /\ \A u \in Slots \ {s} : r2[u] = r[u]
      /\ r2[s] = IF L.tail = NULL THEN 0 ELSE r[L.tail] + 1
  BY <1>1
<1> HIDE DEF M, r2
<1>5. Threads(M.next, sl, NULL, Z, r2)
  <2>1. \A u \in Z : M.next[u] = L.next[u] /\ r2[u] = r[u]
    BY <1>1, <1>3, <1>4 DEF Shape
  <2> QED
    BY <2>1, ThreadsKept DEF Shape
<1>6. Threads(M.next, M.head, NULL, Q \cup {s}, r2)
  <2>1. s # L.tail /\ s # NULL
    BY <1>1
  <2>2. M.next[s] = NULL
    BY <1>3, <2>1
  <2>3. Threads(M.next, s, NULL, {s}, r2)
    BY <1>4, <2>1, <2>2 DEF Threads
  <2>4. CASE L.tail = NULL
    <3>1. Q = {} /\ M.head = s
      BY <1>3, <2>4 DEF Shape
    <3> QED
      BY <2>3, <3>1
  <2>5. CASE L.tail # NULL
    <3>1. /\ M.head = L.head /\ L.tail \in Q /\ L.next[L.tail] = NULL
          /\ M.next[L.tail] = s
          /\ \A u \in Q \ {L.tail} : M.next[u] = L.next[u]
      BY <1>1, <1>3, <2>5
    <3>2. Threads(L.next, L.head, NULL, Q, r2)
      <4>1. \A u \in Q : L.next[u] = L.next[u] /\ r2[u] = r[u]
        BY <1>1, <1>4
      <4> QED
        BY <4>1, ThreadsKept DEF Shape
    <3>3. \A u \in Q, v \in {s} : r2[u] < r2[v]
      <4>1. \A u \in Q : r[u] <= r[L.tail]
        BY <3>1 DEF Shape, Threads
      <4>2. r2[s] = r[L.tail] + 1 /\ r[L.tail] \in Int
        BY <1>1, <1>4, <2>5, <3>1
      <4>3. \A u \in Q : r2[u] = r[u] /\ r[u] \in Int
        BY <1>1, <1>4
      <4> QED
        BY <4>1, <4>2, <4>3
    <3>4. Q \cap {s} = {} /\ NULL \notin Q /\ NULL \notin {s}
      BY <1>1, <2>1
    <3> HIDE DEF NULL
    <3>5. Threads(M.next, L.head, NULL, Q \cup {s}, r2)
      BY <2>1, <2>3, <3>1, <3>2, <3>3, <3>4, ThreadsConcat
    <3> QED
      BY <3>1, <3>5
  <2> QED
    BY <2>4, <2>5
<1>7. \A u \in Q \cup {s} : M.state[u] = "READY"
  BY <1>1, <1>3 DEF Shape
<1>8. \A u \in Z : M.state[u] = "SLEEP"
  BY <1>1, <1>3 DEF Shape
<1>9. M.tail \in Q \cup {s} /\ M.next[M.tail] = NULL /\ M.tail # NULL
  BY <1>1, <1>3
<1>10. /\ sl \in Ptr /\ Q \cup {s} \in SUBSET Slots /\ Z \in SUBSET Slots
       /\ (Q \cup {s}) \cap Z = {}
  BY DEF Shape
<1>11. Shape(M, sl, Q \cup {s}, Z, r2)
  BY <1>2, <1>4, <1>5, <1>6, <1>7, <1>8, <1>9, <1>10 DEF Shape
<1> QED
  BY <1>11 DEF M

\* next() with a non-empty ready list takes its head.
LEMMA DispatchShape ==
  ASSUME NEW L, NEW sl, NEW Q, NEW Z, NEW r, Shape(L, sl, Q, Z, r),
         Q # {}, Dispatch(L)
  PROVE  /\ mode' = "user" /\ p' = L.head /\ p' \in Q
         /\ rq'.state = L.state
         /\ Shape(rq', sl, Q \ {p'}, Z, r)
<1>1. L.head # NULL /\ L.head \in Q /\ NULL \notin Slots
  BY ShapeEmpty, SlotsAreNat DEF Shape, Threads
<1>2. /\ mode' = "user"
      /\ p' = L.head
      /\ rq' = [L EXCEPT !.head = L.next[L.head],
                         !.tail = IF L.next[L.head] = NULL THEN NULL ELSE @,
                         !.next[L.head] = NULL]
  BY <1>1 DEF Dispatch
<1>3. L \in Lists /\ Q \subseteq Slots /\ Z \subseteq Slots /\ L.head \in Slots
  BY <1>1 DEF Shape
<1>4. /\ rq'.head = L.next[L.head]
      /\ rq'.tail = IF L.next[L.head] = NULL THEN NULL ELSE L.tail
      /\ rq'.state = L.state
      /\ \A u \in Slots \ {L.head} : rq'.next[u] = L.next[u]
  BY <1>2, <1>3 DEF Lists
<1>5. rq' \in Lists
  BY <1>2, <1>3 DEF Lists, Ptr
<1> DEFINE D == Q \ {L.head}
<1>6. Threads(L.next, L.next[L.head], NULL, D, r)
  BY <1>1, <1>3, ThreadsTail DEF Shape
<1>7. Threads(rq'.next, rq'.head, NULL, D, r)
  <2>1. \A u \in D : rq'.next[u] = L.next[u] /\ r[u] = r[u]
    BY <1>3, <1>4
  <2> HIDE DEF D
  <2> QED
    BY <1>4, <1>6, <2>1, ThreadsKept
<1>8. Threads(rq'.next, sl, NULL, Z, r)
  <2>1. \A u \in Z : rq'.next[u] = L.next[u] /\ r[u] = r[u]
    BY <1>1, <1>3, <1>4 DEF Shape
  <2> QED
    BY <2>1, ThreadsKept DEF Shape
<1>9. /\ rq'.tail = NULL => D = {}
      /\ rq'.tail # NULL => rq'.tail \in D /\ rq'.next[rq'.tail] = NULL
  <2>1. CASE L.next[L.head] = NULL
    <3>1. D = {}
      BY <1>6, <2>1 DEF Threads
    <3> QED
      BY <1>4, <2>1, <3>1
  <2>2. CASE L.next[L.head] # NULL
    <3>1. L.tail # NULL /\ L.tail \in Q /\ L.next[L.tail] = NULL
      BY ShapeEmpty DEF Shape
    <3>2. L.tail \in D
      BY <2>2, <3>1
    <3> QED
      BY <1>3, <1>4, <2>2, <3>1, <3>2
  <2> QED
    BY <2>1, <2>2
<1>10. Shape(rq', sl, D, Z, r)
  BY <1>4, <1>5, <1>7, <1>8, <1>9 DEF Shape
<1> QED
  BY <1>1, <1>2, <1>4, <1>10

\* The pcbs met on the ready list are those of Q, and the search of
\* removeFromReady ends.
LEMMA ShapeHolds ==
  ASSUME NEW L, NEW sl, NEW Q, NEW Z, NEW r, Shape(L, sl, Q, Z, r)
  PROVE  /\ Chain(L.next, L.head)[MAX_PROC] = NULL
         /\ {Chain(L.next, L.head)[i] : i \in 0..MAX_PROC} \ {NULL} = Q
         /\ Chain(L.next, sl)[MAX_PROC] = NULL
         /\ {Chain(L.next, sl)[i] : i \in 0..MAX_PROC} \ {NULL} = Z
         /\ \A t : ~SearchSpins(L, t)
<1>1. L.next \in [Slots -> Ptr] /\ L.head \in Ptr /\ sl \in Ptr
  BY DEF Shape, Lists
<1>2. /\ Chain(L.next, L.head)[MAX_PROC] = NULL
      /\ {Chain(L.next, L.head)[i] : i \in 0..MAX_PROC} \ {NULL} = Q
  BY <1>1, ListHolds DEF Shape
<1>3. /\ Chain(L.next, sl)[MAX_PROC] = NULL
      /\ {Chain(L.next, sl)[i] : i \in 0..MAX_PROC} \ {NULL} = Z
  BY <1>1, ListHolds DEF Shape
<1>4. MAX_PROC \in 0..MAX_PROC
  BY SlotsAreNat
<1> QED
  BY <1>2, <1>3, <1>4 DEF SearchSpins

\* The loop of removeFromReady meets the pcb in front of any member but the
\* first.
LEMMA BeforeExists ==
  ASSUME NEW L, NEW sl, NEW Q, NEW Z, NEW r, Shape(L, sl, Q, Z, r),
         NEW t \in Q, L.head # t
  PROVE  \E s \in Slots : Before(L, s, t)
<1> DEFINE at == Chain(L.next, L.head)
<1>1. Follows(at, L.next, L.head, NULL)
  BY ChainFollows DEF Shape, Lists
<1>2. at[MAX_PROC] = NULL /\ MAX_PROC \in Nat /\ NULL \notin Q /\ Q \subseteq Slots
  BY ShapeHolds, ShapeEmpty, SlotsAreNat DEF Shape
<1> HIDE DEF at, NULL
<1>3. Threads(L.next, L.head, NULL, Q, r)
  BY DEF Shape
<1>4. PICK i \in 0..MAX_PROC : at[i] = t
  BY <1>1, <1>2, <1>3, AllMembers
<1>5. t # NULL
  BY <1>2
<1>6. i # 0 /\ at[0] = L.head
  BY <1>1, <1>4, FollowStep
<1>7. i - 1 \in Nat /\ i - 1 < i /\ (i - 1) + 1 = i /\ i \in Nat
      /\ i - 1 \in 0..MAX_PROC-1
  BY <1>2, <1>6
<1>8. /\ at[i] = IF at[i-1] = NULL THEN NULL ELSE L.next[at[i-1]]
      /\ at[i-1] \in Q \cup {NULL}
  <2>1. /\ \A k \in Nat : at[k+1] = IF at[k] = NULL THEN NULL ELSE L.next[at[k]]
        /\ \A k \in Nat : at[k] \in Q \cup {NULL}
    BY <1>1, <1>2, <1>3, FollowStep, OnlyMembers
  <2> QED
    BY <1>7, <2>1
<1>9. at[i-1] \in Q /\ L.next[at[i-1]] = t
  BY <1>4, <1>5, <1>8
<1>10. ASSUME NEW j \in 0..(i-1) PROVE at[j] # t
  <2>1. j \in Nat /\ j < i
    BY <1>7
  <2>2. at[j] # NULL /\ r[at[j]] < r[at[i]]
    BY <1>1, <1>2, <1>3, <1>4, <1>5, <1>7, <2>1, RanksRise
  <2>3. r[t] \in Int
    BY <1>3 DEF Threads
  <2> QED
    BY <1>4, <2>2, <2>3
<1>11. Before(L, at[i-1], t)
  BY <1>7, <1>9, <1>10 DEF Before, at
<1> QED
  BY <1>2, <1>9, <1>11

\* What Before finds is the member linked to t.
LEMMA BeforeIsMember ==
  ASSUME NEW L, NEW sl, NEW Q, NEW Z, NEW r, Shape(L, sl, Q, Z, r),
         NEW s \in Slots, NEW t \in Slots, Before(L, s, t)
  PROVE  s \in Q /\ t \in Q /\ L.next[s] = t
<1> DEFINE at == Chain(L.next, L.head)
<1>1. {at[i] : i \in 0..MAX_PROC} \ {NULL} = Q
  BY ShapeHolds
<1>2. PICK i \in 0..MAX_PROC-1 : at[i] = s
  BY DEF Before
<1>3. i \in 0..MAX_PROC /\ s # NULL /\ t # NULL
  BY SlotsAreNat
<1> HIDE DEF at, NULL
<1>4. s \in Q
  BY <1>1, <1>2, <1>3
<1>5. L.next[s] = t
  BY DEF Before
<1>6. t \in Q
  BY <1>3, <1>4, <1>5 DEF Shape, Threads
<1> QED
  BY <1>4, <1>5, <1>6

\* removeFromReady() takes a member off the list.
LEMMA RemoveShape ==
  ASSUME NEW L, NEW sl, NEW Q, NEW Z, NEW r, Shape(L, sl, Q, Z, r),
         NEW t \in Q
  PROVE  /\ Shape(RemoveFromReady(L, t), sl, Q \ {t}, Z, r)
         /\ RemoveFromReady(L, t).state = L.state
<1> DEFINE R == RemoveFromReady(L, t)
           D == Q \ {t}
<1>1. /\ L \in Lists /\ Q \subseteq Slots /\ Z \subseteq Slots /\ NULL \notin Slots
      /\ Threads(L.next, L.head, NULL, Q, r)
      /\ Threads(L.next, sl, NULL, Z, r)
      /\ Q \cap Z = {}
      /\ L.tail # NULL /\ L.tail \in Q /\ L.next[L.tail] = NULL
  BY SlotsAreNat, ShapeEmpty DEF Shape
<1>2. CASE L.head = t
  <2>1. R = [L EXCEPT !.head = L.next[t],
                      !.tail = IF L.next[t] = NULL THEN NULL ELSE @]
    BY <1>2 DEF RemoveFromReady
  <2>2. /\ R.head = L.next[t] /\ R.next = L.next /\ R.state = L.state
        /\ R.tail = IF L.next[t] = NULL THEN NULL ELSE L.tail
        /\ R \in Lists
    BY <1>1, <2>1 DEF Lists, Ptr
  <2> HIDE DEF R
  <2>3. Threads(R.next, R.head, NULL, D, r)
    <3>1. t # NULL /\ NULL \notin Q
      BY <1>1
    <3> HIDE DEF NULL
    <3> QED
      BY <1>1, <1>2, <2>2, <3>1, ThreadsTail
  <2>4. /\ R.tail = NULL => D = {}
        /\ R.tail # NULL => R.tail \in D /\ R.next[R.tail] = NULL
    <3>1. CASE L.next[t] = NULL
      BY <2>2, <2>3, <3>1 DEF Threads
    <3>2. CASE L.next[t] # NULL
      BY <1>1, <2>2, <3>2
    <3> QED
      BY <3>1, <3>2
  <2> QED
    BY <2>2, <2>3, <2>4 DEF Shape, R
<1>3. CASE L.head # t
  <2> DEFINE prev == CHOOSE s \in Slots : Before(L, s, t)
             next2 == [[L.next EXCEPT ![prev] = L.next[t]] EXCEPT ![t] = NULL]
  <2>1. \E s \in Slots : Before(L, s, t)
    BY <1>3, BeforeExists
  <2>2. prev \in Slots /\ Before(L, prev, t)
    BY <2>1
  <2>3. R = [L EXCEPT !.next = next2, !.tail = IF @ = t THEN prev ELSE @]
    BY <1>3, <2>1 DEF RemoveFromReady
  <2> HIDE DEF R, prev
  <2>4. prev \in Q /\ L.next[prev] = t
    BY <1>1, <2>2, BeforeIsMember
  <2>5. prev # t
    <3>1. r[prev] < r[t] /\ r[t] \in Int
      BY <1>1, <2>4 DEF Threads
    <3> QED
      BY <3>1
  <2>6. /\ next2 \in [Slots -> Ptr]
        /\ next2[prev] = L.next[t]
        /\ \A s \in Slots \ {prev, t} : next2[s] = L.next[s]
    BY <1>1, <2>4, <2>5 DEF Lists, Ptr
  <2> HIDE DEF next2
  <2>7. /\ R.head = L.head /\ R.next = next2 /\ R.state = L.state
        /\ R.tail = IF L.tail = t THEN prev ELSE L.tail
        /\ R \in Lists
    BY <1>1, <2>2, <2>3, <2>6 DEF Lists, Ptr
  <2>8. Threads(R.next, R.head, NULL, D, r)
    <3>1. t # NULL /\ NULL \notin Q
      BY <1>1
    <3>2. \A s \in Q \ {prev, t} : next2[s] = L.next[s]
      BY <1>1, <2>6
    <3> HIDE DEF NULL
    <3> QED
      BY <1>1, <2>4, <2>6, <2>7, <3>1, <3>2, ThreadsUnlink
  <2>9. Threads(R.next, sl, NULL, Z, r)
    <3>1. \A s \in Z : next2[s] = L.next[s] /\ r[s] = r[s]
      BY <1>1, <2>4, <2>6
    <3> QED
      BY <1>1, <2>7, <3>1, ThreadsKept
  <2>10. R.tail \in D /\ R.next[R.tail] = NULL /\ R.tail # NULL
    <3>1. CASE L.tail = t
      BY <1>1, <2>4, <2>5, <2>6, <2>7, <3>1
    <3>2. CASE L.tail # t
      <4>1. L.tail # prev
        BY <1>1, <2>4
      <4> QED
        BY <1>1, <2>6, <2>7, <3>2, <4>1
    <3> QED
      BY <3>1, <3>2
  <2> QED
    BY <1>1, <2>7, <2>8, <2>9, <2>10 DEF Shape, R
<1> QED
  BY <1>2, <1>3

\* removeFromReady() of a pcb that is not on the list does nothing.
LEMMA RemoveMissing ==
  ASSUME NEW L, NEW sl, NEW Q, NEW Z, NEW r, Shape(L, sl, Q, Z, r),
         NEW t \in Slots, t \notin Q
  PROVE  RemoveFromReady(L, t) = L
<1>1. L.head # t
  <2>1. NULL \notin Slots
    BY SlotsAreNat
  <2> HIDE DEF NULL
  <2> QED
    BY <2>1 DEF Shape, Threads
<1>2. ~ \E s \in Slots : Before(L, s, t)
  BY BeforeIsMember
<1> QED
  BY <1>1, <1>2 DEF RemoveFromReady

\* kill()'s wake-up loop over pcbs on neither list appends them in the order of
\* the table.
LEMMA ReadyAllShape ==
  ASSUME NEW L, NEW sl, NEW Q, NEW Z, NEW r, Shape(L, sl, Q, Z, r),
         NEW W \in SUBSET Slots, W \cap (Q \cup Z) = {}
  PROVE  \E r2 : Shape(ReadyAll(L, W), sl, Q \cup W, Z, r2)
<1>1. CASE W = {}
  <2>1. ReadyAll(L, W) = L /\ Q \cup W = Q
    BY <1>1 DEF ReadyAll
  <2> QED
    BY <2>1
<1>2. CASE W # {}
  <2> DEFINE first == Min(W)
             last == Max(W)
             after(i) == Min({j \in W : j > i})
             M == ReadyAll(L, W)
             base == IF L.tail = NULL THEN 0 ELSE r[L.tail]
             r2 == [u \in Slots |-> IF u \in W THEN base + 1 + u ELSE r[u]]
  <2>1. /\ L \in Lists /\ r \in [Slots -> Int]
        /\ Q \subseteq Slots /\ Z \subseteq Slots /\ Q \cap Z = {}
        /\ L.tail # NULL => L.tail \in Q /\ L.next[L.tail] = NULL
        /\ NULL \notin Slots /\ Slots \subseteq Nat
    BY SlotsAreNat DEF Shape
  <2>2. /\ first \in W /\ \A i \in W : first <= i
        /\ last \in W /\ \A i \in W : i <= last
    BY <1>2, <2>1, Least, Greatest
  <2>3. ASSUME NEW i \in W, i # last
        PROVE  /\ after(i) \in W /\ i < after(i)
               /\ \A u \in W : i < u => after(i) <= u
    <3> DEFINE S == {j \in W : j > i}
    <3>1. i \in Nat /\ last \in Nat /\ i <= last
      BY <2>1, <2>2
    <3>2. last > i
      BY <2>3, <3>1
    <3>3. S \subseteq Nat /\ S # {}
      BY <2>1, <2>2, <3>2
    <3>4. Min(S) \in S /\ \A y \in S : Min(S) <= y
      BY <3>3, Least
    <3>5. \A u \in W : u \in Nat
      BY <2>1
    <3> QED
      BY <3>1, <3>4, <3>5
  <2>4. M = [state |-> [i \in Slots |-> IF i \in W THEN "READY" ELSE L.state[i]],
             next  |-> [i \in Slots |->
                          IF i \in W
                          THEN IF i # last THEN after(i)
                               ELSE IF W = {L.tail} THEN i ELSE NULL
                          ELSE IF i = L.tail THEN first ELSE L.next[i]],
             head  |-> IF L.tail = NULL THEN first ELSE L.head,
             tail  |-> last]
    BY <1>2 DEF ReadyAll
  <2> HIDE DEF first, last, after, M
  <2>5. W # {L.tail}
    BY <2>1
  <2>6. /\ M.head = IF L.tail = NULL THEN first ELSE L.head
        /\ M.tail = last
        /\ \A i \in Slots :
             M.state[i] = IF i \in W THEN "READY" ELSE L.state[i]
        /\ \A i \in W : M.next[i] = IF i # last THEN after(i) ELSE NULL
        /\ \A i \in Slots \ W :
             M.next[i] = IF i = L.tail THEN first ELSE L.next[i]
    <3>1. /\ M.head = IF L.tail = NULL THEN first ELSE L.head
          /\ M.tail = last
          /\ M.state = [i \in Slots |-> IF i \in W THEN "READY" ELSE L.state[i]]
      BY <2>4
    <3>2. M.next = [i \in Slots |->
                      IF i \in W
                      THEN IF i # last THEN after(i)
                           ELSE IF W = {L.tail} THEN i ELSE NULL
                      ELSE IF i = L.tail THEN first ELSE L.next[i]]
      BY <2>4
    <3>3. ASSUME NEW i \in W
          PROVE  M.next[i] = IF i # last THEN after(i) ELSE NULL
      BY <2>5, <3>2
    <3>4. ASSUME NEW i \in Slots \ W
          PROVE  M.next[i] = IF i = L.tail THEN first ELSE L.next[i]
      BY <3>2
    <3> QED
      BY <3>1, <3>3, <3>4
  <2>7. M \in Lists
    <3>1. Sound(L, Slots)
      BY <2>1, AllSlotsSound
    <3>2. Sound(M, Slots)
      BY <3>1, ReadyAllSound DEF M
    <3> QED
      BY <3>2 DEF Sound
  <2>8. base \in Int
    <3>1. L.tail # NULL => r[L.tail] \in Int
      BY <2>1
    <3> QED
      BY <3>1
  <2> HIDE DEF base
  <2>9. /\ r2 \in [Slots -> Int]
        /\ \A u \in W : r2[u] = base + 1 + u
        /\ \A u \in Slots \ W : r2[u] = r[u]
    BY <2>1, <2>8
  <2> HIDE DEF r2
  <2>10. Threads(M.next, sl, NULL, Z, r2)
    <3>1. \A u \in Z : M.next[u] = L.next[u] /\ r2[u] = r[u]
      BY <2>1, <2>6, <2>9
    <3> QED
      BY <3>1, ThreadsKept DEF Shape
  <2>11. Threads(M.next, first, NULL, W, r2)
    <3>1. \A u, v \in W : /\ r2[u] = r2[v] <=> u = v
                          /\ r2[u] < r2[v] <=> u < v
                          /\ r2[u] <= r2[v] <=> u <= v
                          /\ r2[u] \in Int
      BY <2>1, <2>8, <2>9
    <3>2. \A i \in W : i # NULL
      BY <2>1
    <3> HIDE DEF NULL
    <3>3. ASSUME NEW s \in W
          PROVE  /\ M.next[s] = NULL => \A u \in W : r2[u] <= r2[s]
                 /\ M.next[s] # NULL =>
                      /\ M.next[s] \in W /\ r2[s] < r2[M.next[s]]
                      /\ \A u \in W : r2[s] < r2[u] => r2[M.next[s]] <= r2[u]
      <4>1. CASE s = last
        BY <2>2, <2>6, <3>1, <4>1
      <4>2. CASE s # last
        <5>1. M.next[s] = after(s)
          BY <2>6, <4>2
        <5>2. /\ after(s) \in W /\ s < after(s)
              /\ \A u \in W : s < u => after(s) <= u
          BY <2>3, <4>2
        <5> QED
          BY <3>1, <3>2, <5>1, <5>2
      <4> QED
        BY <4>1, <4>2
    <3> QED
      BY <2>2, <3>1, <3>2, <3>3 DEF Threads
  <2>12. Threads(M.next, M.head, NULL, Q \cup W, r2)
    <3>1. CASE L.tail = NULL
      <4>1. Q \cup W = W /\ M.head = first
        BY <2>6, <3>1 DEF Shape
      <4> QED
        BY <2>11, <4>1
    <3>2. CASE L.tail # NULL
      <4>1. /\ M.head = L.head /\ L.tail \in Q /\ L.next[L.tail] = NULL
            /\ M.next[L.tail] = first
            /\ \A u \in Q \ {L.tail} : M.next[u] = L.next[u]
        BY <2>1, <2>6, <3>2
      <4>2. Threads(L.next, L.head, NULL, Q, r2)
        <5>1. \A u \in Q : L.next[u] = L.next[u] /\ r2[u] = r[u]
          BY <2>1, <2>9
        <5> QED
          BY <5>1, ThreadsKept DEF Shape
      <4>3. \A u \in Q, v \in W : r2[u] < r2[v]
        <5>1. \A u \in Q : r[u] <= r[L.tail]
          BY <4>1 DEF Shape, Threads
        <5>2. base = r[L.tail]
          BY <3>2 DEF base
        <5>3. \A u \in Q : r2[u] = r[u] /\ r[u] \in Int
          BY <2>1, <2>9
        <5>4. \A v \in W : v \in Nat
          BY <2>1
        <5> QED
          BY <2>8, <2>9, <5>1, <5>2, <5>3, <5>4
      <4>4. Q \cap W = {} /\ NULL \notin Q /\ NULL \notin W /\ first # NULL
        BY <2>1, <2>2
      <4> HIDE DEF NULL
      <4>5. Threads(M.next, L.head, NULL, Q \cup W, r2)
        BY <2>11, <4>1, <4>2, <4>3, <4>4, ThreadsConcat
      <4> QED
        BY <4>1, <4>5
    <3> QED
      BY <3>1, <3>2
  <2>13. \A u \in Q \cup W : M.state[u] = "READY"
    BY <2>1, <2>6 DEF Shape
  <2>14. \A u \in Z : M.state[u] = "SLEEP"
    BY <2>1, <2>6 DEF Shape
  <2>15. M.tail \in Q \cup W /\ M.next[M.tail] = NULL /\ M.tail # NULL
    BY <2>1, <2>2, <2>6
  <2>16. /\ sl \in Ptr /\ Q \cup W \in SUBSET Slots /\ Z \in SUBSET Slots
         /\ (Q \cup W) \cap Z = {}
    BY DEF Shape
  <2>17. Shape(M, sl, Q \cup W, Z, r2)
    BY <2>7, <2>9, <2>10, <2>12, <2>13, <2>14, <2>15, <2>16 DEF Shape
  <2> QED
    BY <2>17 DEF M
<1> QED
  BY <1>1, <1>2

\* tick() takes the first sleeper off the sleep list.
LEMMA DropSleeper ==
  ASSUME NEW L, NEW sl, NEW Q, NEW Z, NEW r, Shape(L, sl, Q, Z, r), sl # NULL
  PROVE  sl \in Z /\ Shape(L, L.next[sl], Q, Z \ {sl}, r)
<1>1. sl \in Z /\ NULL \notin Z
  BY ShapeEmpty DEF Shape, Threads
<1>2. L.next[sl] \in Ptr
  BY <1>1 DEF Shape, Lists
<1>3. Threads(L.next, L.next[sl], NULL, Z \ {sl}, r)
  BY <1>1, ThreadsTail DEF Shape
<1> QED
  BY <1>1, <1>2, <1>3 DEF Shape

\* sleep() puts a pcb in front of the sleep list, an empty one included.
LEMMA PushSleeper ==
  ASSUME NEW L, NEW sl, NEW Q, NEW Z, NEW r, Shape(L, sl, Q, Z, r),
         NEW s \in Slots, s \notin Q \cup Z,
         NEW M \in Lists, M.head = L.head, M.tail = L.tail,
         M.next[s] = sl, M.state[s] = "SLEEP",
         \A u \in Q \cup Z : M.next[u] = L.next[u] /\ M.state[u] = L.state[u]
  PROVE  \E r2 : Shape(M, s, Q, Z \cup {s}, r2)
<1> DEFINE r2 == [r EXCEPT ![s] = IF sl = NULL THEN 0 ELSE r[sl] - 1]
<1>1. /\ r \in [Slots -> Int] /\ Q \subseteq Slots /\ Z \subseteq Slots
      /\ NULL \notin Slots
      /\ sl # NULL => sl \in Z
      /\ Threads(L.next, sl, NULL, Z, r)
  BY SlotsAreNat DEF Shape, Threads
<1>2. /\ r2 \in [Slots -> Int]
      /\ \A u \in Slots \ {s} : r2[u] = r[u]
      /\ r2[s] = IF sl = NULL THEN 0 ELSE r[sl] - 1
  BY <1>1
<1> HIDE DEF r2
<1>3. Threads(M.next, M.head, NULL, Q, r2)
  <2>1. \A u \in Q : M.next[u] = L.next[u] /\ r2[u] = r[u]
    BY <1>1, <1>2
  <2> QED
    BY <2>1, ThreadsKept DEF Shape
<1>4. \A u \in Z : r2[u] = r[u] /\ r2[s] < r[u]
  <2> SUFFICES ASSUME NEW u \in Z PROVE r2[u] = r[u] /\ r2[s] < r[u]
    OBVIOUS
  <2>1. sl # NULL /\ r[sl] <= r[u]
    BY <1>1 DEF Threads
  <2>2. r[sl] \in Int /\ r[u] \in Int /\ r2[s] = r[sl] - 1 /\ r2[u] = r[u]
    BY <1>1, <1>2, <2>1
  <2> QED
    BY <2>1, <2>2
<1>5. Threads(M.next, s, NULL, Z \cup {s}, r2)
  <2>1. /\ NULL \notin Z /\ s \notin Z /\ s # NULL /\ r2[s] \in Int
        /\ \A u \in Z : M.next[u] = L.next[u]
    BY <1>1, <1>2
  <2> HIDE DEF NULL
  <2> QED
    BY <1>1, <1>4, <2>1, ThreadsPush
<1>6. \A u \in Q : M.state[u] = "READY"
  BY DEF Shape
<1>7. \A u \in Z \cup {s} : M.state[u] = "SLEEP"
  BY DEF Shape
<1>8. Shape(M, s, Q, Z \cup {s}, r2)
  BY <1>2, <1>3, <1>5, <1>6, <1>7 DEF Shape, Ptr
<1> QED
  BY <1>8

\* sleep() puts a pcb behind a sleeper.
LEMMA InsertSleeper ==
  ASSUME NEW L, NEW sl, NEW Q, NEW Z, NEW r, Shape(L, sl, Q, Z, r),
         NEW s \in Slots, s \notin Q \cup Z, NEW spot \in Z,
         NEW M \in Lists, M.head = L.head, M.tail = L.tail,
         M.next[s] = L.next[spot], M.next[spot] = s, M.state[s] = "SLEEP",
         \A u \in (Q \cup Z) \ {spot} : M.next[u] = L.next[u],
         \A u \in Q \cup Z : M.state[u] = L.state[u]
  PROVE  \E r2 : Shape(M, sl, Q, Z \cup {s}, r2)
<1> DEFINE r2 == [u \in Slots |-> IF u = s THEN 2 * r[spot] + 1
                                  ELSE IF u \in Z THEN 2 * r[u] ELSE r[u]]
<1>1. /\ r \in [Slots -> Int] /\ Q \subseteq Slots /\ Z \subseteq Slots
      /\ NULL \notin Slots /\ Q \cap Z = {}
      /\ Threads(L.next, sl, NULL, Z, r)
  BY SlotsAreNat DEF Shape
<1>2. /\ r2 \in [Slots -> Int]
      /\ \A u \in Z : r2[u] = 2 * r[u]
      /\ \A u \in Q : r2[u] = r[u]
      /\ r2[s] = 2 * r[spot] + 1
  <2>1. \A u \in Slots : r[u] \in Int
    BY <1>1
  <2> QED
    BY <1>1, <2>1
<1> HIDE DEF r2
<1>3. Threads(M.next, M.head, NULL, Q, r2)
  <2>1. \A u \in Q : M.next[u] = L.next[u] /\ r2[u] = r[u]
    BY <1>1, <1>2
  <2> QED
    BY <2>1, ThreadsKept DEF Shape
<1>4. Threads(M.next, sl, NULL, Z \cup {s}, r2)
  <2>1. /\ NULL \notin Z /\ s \notin Z /\ s # NULL
        /\ \A u \in Z \ {spot} : M.next[u] = L.next[u]
    BY <1>1
  <2>2. RankedBehind(r2, r, Z, spot, s)
    BY <1>2 DEF RankedBehind
  <2> HIDE DEF NULL
  <2> QED
    BY <1>1, <2>1, <2>2, ThreadsInsert
<1>5. L.tail # NULL => M.next[M.tail] = NULL
  BY <1>1 DEF Shape
<1>6. \A u \in Q : M.state[u] = "READY"
  BY DEF Shape
<1>7. \A u \in Z \cup {s} : M.state[u] = "SLEEP"
  BY DEF Shape
<1>8. Shape(M, sl, Q, Z \cup {s}, r2)
  BY <1>2, <1>3, <1>4, <1>5, <1>6, <1>7 DEF Shape
<1> QED
  BY <1>8

\* One iteration of sleep()'s search.
SearchStep(next, w) ==
  IF Passes(next, w)
  THEN [tmp |-> next[w.tmp], len |-> (w.len - sleepdiff[next[w.tmp]]) % WORD]
  ELSE w

\* at is the search as it goes along the members of Z.
Searches(at, next, len, Z) ==
  /\ at[0] = [tmp |-> sleepQ, len |-> (len - sleepdiff[sleepQ]) % WORD]
  /\ \A i \in Nat : /\ at[i].tmp \in Z /\ at[i].len \in Word
                    /\ at[i+1] = SearchStep(next, at[i])

Searched(next, len, Z) ==
  \E at : Searches(at, next, len, Z) /\ SleepSearch(next, len) = at[WORD * MAX_PROC]

\* The recursive definition of sleep()'s search has a value, and the search
\* stays on the sleep list.
LEMMA SearchRuns ==
  ASSUME TypeOK, NEW L, NEW Q, NEW Z, NEW r, Shape(L, sleepQ, Q, Z, r),
         sleepQ # NULL, NEW len \in Word
  PROVE  Searched(L.next, len, Z)
<1> DEFINE S == [tmp : Z, len : Word]
<1>1. /\ Threads(L.next, sleepQ, NULL, Z, r) /\ sleepQ \in Z
      /\ NULL \notin Z /\ Z \subseteq Slots
  <2>1. sleepQ \in Z
    BY DropSleeper
  <2>2. NULL \notin Z
    BY ShapeEmpty
  <2> QED
    BY <2>1, <2>2 DEF Shape
<1>2. \A s \in Slots : sleepdiff[s] \in Int
  BY TableAssumption DEF TypeOK, Word
<1>3. PICK g : g = [w \in S |-> IF Passes(L.next, w)
                                THEN [tmp |-> L.next[w.tmp],
                                      len |-> (w.len - sleepdiff[L.next[w.tmp]]) % WORD]
                                ELSE w]
  OBVIOUS
<1>4. PICK a : a = [tmp |-> sleepQ, len |-> (len - sleepdiff[sleepQ]) % WORD]
  OBVIOUS
<1>5. a \in S
  <2>1. len - sleepdiff[sleepQ] \in Int
    BY <1>1, <1>2, TableAssumption DEF Word
  <2>2. (len - sleepdiff[sleepQ]) % WORD \in Word
    BY <2>1, Remainder
  <2> QED
    BY <1>1, <1>4, <2>2
<1>6. ASSUME NEW w \in S
      PROVE  /\ g[w] = IF Passes(L.next, w)
                       THEN [tmp |-> L.next[w.tmp],
                             len |-> (w.len - sleepdiff[L.next[w.tmp]]) % WORD]
                       ELSE w
             /\ g[w] \in S
             /\ Passes(L.next, w) => g[w].tmp = L.next[w.tmp] /\ r[w.tmp] < r[g[w].tmp]
  <2> HIDE DEF NULL
  <2>1. g[w] = IF Passes(L.next, w)
               THEN [tmp |-> L.next[w.tmp],
                     len |-> (w.len - sleepdiff[L.next[w.tmp]]) % WORD]
               ELSE w
    BY <1>3
  <2>2. CASE Passes(L.next, w)
    <3>1. L.next[w.tmp] # NULL /\ w.tmp \in Z /\ w.len \in Word
      BY <2>2 DEF Passes
    <3>2. L.next[w.tmp] \in Z /\ r[w.tmp] < r[L.next[w.tmp]]
      BY <1>1, <3>1 DEF Threads
    <3>3. w.len - sleepdiff[L.next[w.tmp]] \in Int
      BY <1>1, <1>2, <3>1, <3>2, TableAssumption DEF Word
    <3>4. (w.len - sleepdiff[L.next[w.tmp]]) % WORD \in Word
      BY <3>3, Remainder
    <3> QED
      BY <2>1, <2>2, <3>2, <3>4
  <2>3. CASE ~Passes(L.next, w)
    BY <2>1, <2>3
  <2> QED
    BY <2>1, <2>2, <2>3
<1>7. g \in [S -> S]
  BY <1>3, <1>6
<1>8. PICK f \in [Nat -> S] :
        f[0] = a /\ \A i \in Nat : i # 0 => f[i] = g[f[i-1]]
  <2>1. Iterable(g, a, S)
    BY <1>5, <1>7, Iterate
  <2> QED
    BY <2>1 DEF Iterable
<1>9. PICK at :
        at = CHOOSE h : h = [i \in Nat |-> IF i = 0 THEN a
               ELSE IF Passes(L.next, h[i-1])
                    THEN [tmp |-> L.next[h[i-1].tmp],
                          len |-> (h[i-1].len - sleepdiff[L.next[h[i-1].tmp]]) % WORD]
                    ELSE h[i-1]]
  OBVIOUS
<1> DEFINE N == WORD * MAX_PROC
<1>10. SleepSearch(L.next, len) = at[N]
  BY <1>4, <1>9 DEF SleepSearch
<1> HIDE DEF S, N
<1>11. ASSUME NEW i \in Nat
       PROVE  at[i] = IF i = 0 THEN a
                ELSE IF Passes(L.next, at[i-1])
                     THEN [tmp |-> L.next[at[i-1].tmp],
                           len |-> (at[i-1].len - sleepdiff[L.next[at[i-1].tmp]]) % WORD]
                     ELSE at[i-1]
  <2>1. ASSUME NEW j \in Nat
        PROVE  f[j] = IF j = 0 THEN a
                 ELSE IF Passes(L.next, f[j-1])
                      THEN [tmp |-> L.next[f[j-1].tmp],
                            len |-> (f[j-1].len - sleepdiff[L.next[f[j-1].tmp]]) % WORD]
                      ELSE f[j-1]
    <3>1. CASE j = 0
      BY <1>8, <3>1
    <3>2. CASE j # 0
      <4>1. j - 1 \in Nat
        BY <3>2
      <4>2. f[j] = g[f[j-1]] /\ f[j-1] \in S
        BY <1>8, <3>2, <4>1
      <4> QED
        BY <1>6, <3>2, <4>2
    <3> QED
      BY <3>1, <3>2
  <2>2. f = [j \in Nat |-> IF j = 0 THEN a
               ELSE IF Passes(L.next, f[j-1])
                    THEN [tmp |-> L.next[f[j-1].tmp],
                          len |-> (f[j-1].len - sleepdiff[L.next[f[j-1].tmp]]) % WORD]
                    ELSE f[j-1]]
    BY <1>8, <2>1
  <2>3. at = [j \in Nat |-> IF j = 0 THEN a
               ELSE IF Passes(L.next, at[j-1])
                    THEN [tmp |-> L.next[at[j-1].tmp],
                          len |-> (at[j-1].len - sleepdiff[L.next[at[j-1].tmp]]) % WORD]
                    ELSE at[j-1]]
    BY <1>9, <2>2
  <2> QED
    BY <2>3
<1>12. at[0] = a /\ \A i \in Nat : at[i] \in S => at[i+1] = g[at[i]]
  <2>1. at[0] = a
    BY <1>11
  <2>2. ASSUME NEW i \in Nat, at[i] \in S PROVE at[i+1] = g[at[i]]
    <3>1. i + 1 \in Nat /\ i + 1 # 0 /\ (i + 1) - 1 = i
      OBVIOUS
    <3>2. at[i+1] = IF Passes(L.next, at[i])
                    THEN [tmp |-> L.next[at[i].tmp],
                          len |-> (at[i].len - sleepdiff[L.next[at[i].tmp]]) % WORD]
                    ELSE at[i]
      BY <1>11, <3>1
    <3> QED
      BY <1>6, <2>2, <3>2
  <2> QED
    BY <2>1, <2>2
<1>13. \A i \in Nat : at[i] \in S
  <2> DEFINE T == {i \in Nat : at[i] \in S}
  <2>1. 0 \in T
    BY <1>5, <1>12
  <2>2. ASSUME NEW i \in Nat, i \in T PROVE i + 1 \in T
    <3>1. at[i] \in S /\ at[i+1] = g[at[i]]
      BY <1>12, <2>2
    <3>2. g[at[i]] \in S
      BY <1>6, <3>1
    <3> QED
      BY <3>1, <3>2
  <2>3. Nat \subseteq T
    <3> HIDE DEF T
    <3> QED
      BY <2>1, <2>2, NatInduct
  <2> QED
    BY <2>3
<1>14. Searches(at, L.next, len, Z)
  <2>1. ASSUME NEW i \in Nat
        PROVE  /\ at[i].tmp \in Z /\ at[i].len \in Word
               /\ at[i+1] = SearchStep(L.next, at[i])
    <3>1. at[i] \in S /\ at[i+1] = g[at[i]]
      BY <1>12, <1>13
    <3>2. g[at[i]] = SearchStep(L.next, at[i])
      BY <1>6, <3>1 DEF SearchStep
    <3> QED
      BY <3>1, <3>2 DEF S
  <2>2. at[0] = [tmp |-> sleepQ, len |-> (len - sleepdiff[sleepQ]) % WORD]
    BY <1>4, <1>12
  <2> QED
    BY <2>1, <2>2 DEF Searches
<1> QED
  BY <1>10, <1>14 DEF N, Searched

\* The search of sleep() stays on the sleep list and ends.
LEMMA SearchEnds ==
  ASSUME TypeOK, NEW L, NEW Q, NEW Z, NEW r, Shape(L, sleepQ, Q, Z, r),
         sleepQ # NULL, NEW len \in Word
  PROVE  /\ SleepSearch(L.next, len).tmp \in Z
         /\ ~Passes(L.next, SleepSearch(L.next, len))
<1> DEFINE N == WORD * MAX_PROC
<1>1. /\ Threads(L.next, sleepQ, NULL, Z, r) /\ Z \subseteq Slots
  BY DEF Shape
<1>2. PICK at : Searches(at, L.next, len, Z) /\ SleepSearch(L.next, len) = at[N]
  <2>1. Searched(L.next, len, Z)
    BY SearchRuns
  <2> QED
    BY <2>1 DEF Searched
<1>3. \A i \in Nat : /\ at[i].tmp \in Z /\ at[i].len \in Word
                    /\ at[i+1] = SearchStep(L.next, at[i])
  BY <1>2 DEF Searches
<1>4. ASSUME NEW i \in Nat
      PROVE  IF Passes(L.next, at[i])
             THEN r[at[i].tmp] < r[at[i+1].tmp]
             ELSE at[i+1] = at[i]
  <2> HIDE DEF NULL
  <2>1. CASE Passes(L.next, at[i])
    <3>1. at[i].tmp \in Z /\ L.next[at[i].tmp] # NULL
      BY <1>3, <2>1 DEF Passes
    <3>2. r[at[i].tmp] < r[L.next[at[i].tmp]]
      BY <1>1, <3>1 DEF Threads
    <3>3. at[i+1].tmp = L.next[at[i].tmp]
      <4>1. at[i+1] = SearchStep(L.next, at[i])
        BY <1>3
      <4> QED
        BY <2>1, <4>1 DEF SearchStep
    <3> QED
      BY <2>1, <3>2, <3>3
  <2>2. CASE ~Passes(L.next, at[i])
    <3>1. at[i+1] = SearchStep(L.next, at[i])
      BY <1>3
    <3> QED
      BY <2>2, <3>1 DEF SearchStep
  <2> QED
    BY <2>1, <2>2
<1> HIDE DEF N
<1>14. N \in Nat /\ MAX_PROC <= N
  <2>1. WORD \in Nat /\ WORD >= 1 /\ MAX_PROC \in Nat
    BY TableAssumption
  <2> QED
    BY <2>1 DEF N
<1>15. at[N].tmp \in Z
  BY <1>3, <1>14
<1>16. ~Passes(L.next, at[N])
  <2> SUFFICES ASSUME Passes(L.next, at[N]) PROVE FALSE
    OBVIOUS
  <2> DEFINE T == {k \in Nat : Passes(L.next, at[k]) =>
                     \A m \in Nat : m < k => /\ Passes(L.next, at[m])
                                             /\ r[at[m].tmp] < r[at[k].tmp]}
  <2>0. \A k \in Nat : at[k].tmp \in Z /\ r[at[k].tmp] \in Int
    BY <1>1, <1>3 DEF Threads
  <2>1. 0 \in T
    OBVIOUS
  <2>2. ASSUME NEW k \in Nat, k \in T PROVE k + 1 \in T
    <3> SUFFICES ASSUME Passes(L.next, at[k+1]), NEW m \in Nat, m < k + 1
                 PROVE  Passes(L.next, at[m]) /\ r[at[m].tmp] < r[at[k+1].tmp]
      OBVIOUS
    <3>2. Passes(L.next, at[k])
      BY <1>4
    <3>3. r[at[k].tmp] < r[at[k+1].tmp]
      BY <1>4, <3>2
    <3>4. CASE m = k
      BY <3>2, <3>3, <3>4
    <3>5. CASE m # k
      <4>1. m < k
        BY <3>5
      <4>2. Passes(L.next, at[m]) /\ r[at[m].tmp] < r[at[k].tmp]
        BY <2>2, <3>2, <4>1
      <4>3. k + 1 \in Nat
        OBVIOUS
      <4>4. r[at[m].tmp] \in Int /\ r[at[k].tmp] \in Int /\ r[at[k+1].tmp] \in Int
        BY <2>0, <4>3
      <4> QED
        BY <3>3, <4>2, <4>4
    <3> QED
      BY <3>4, <3>5
  <2>3. Nat \subseteq T
    <3> HIDE DEF T
    <3> QED
      BY <2>1, <2>2, NatInduct
  <2>4. \A m \in Nat : m < N => Passes(L.next, at[m])
    BY <1>14, <2>3
  <2>5. \A k \in 0..N : k \in Nat /\ Passes(L.next, at[k])
    BY <1>14, <2>4
  <2> DEFINE f1 == [i \in 0..N |-> at[i].tmp]
  <2>6. f1 \in [0..N -> Z]
    BY <2>0, <2>5
  <2>7. ASSUME NEW i \in 0..N, NEW j \in 0..N, i < j
        PROVE  r[f1[i]] < r[f1[j]]
    <3>1. j \in T /\ i \in Nat /\ Passes(L.next, at[j])
      BY <2>3, <2>5
    <3>2. r[at[i].tmp] < r[at[j].tmp]
      BY <2>7, <3>1
    <3> QED
      BY <3>2
  <2>8. IsFiniteSet(Z) /\ Cardinality(Z) <= N
    <3>1. IsFiniteSet(Z) /\ Cardinality(Z) <= MAX_PROC /\ Cardinality(Z) \in Nat
      BY <1>1, SlotsFinite, FS_CardinalityType
    <3> QED
      BY <1>14, <3>1, SlotsAreNat
  <2>9. \A s \in Z : r[s] \in Int
    BY <1>1 DEF Threads
  <2> HIDE DEF f1
  <2> QED
    BY <1>14, <2>6, <2>7, <2>8, <2>9, NoRise
<1> QED
  BY <1>2, <1>15, <1>16

-----------------------------------------------------------------------------
(* The inductive invariant. *)

SleepersOf(L) == {s \in Slots : L.state[s] = "SLEEP"}

\* No program signals a sleeping process or kills the idle process.
Quiet == "killSleeping" \notin Workload /\ "killIdle" \notin Workload

\* The ready list holds Q and the sleep list the sleeping processes; run, the
\* running one, is on neither; the idle process is run or on the ready list,
\* which is therefore never empty when a program gives up the cpu.  Without
\* the kill signal every READY process is run or in Q.
Placed(L, sl, run, Q, r) ==
  /\ Shape(L, sl, Q, SleepersOf(L), r)
  /\ run \notin Q /\ L.state[run] = "READY"
  /\ Idle = run \/ Idle \in Q
  /\ KILL \notin SigArgs =>
       \A s \in Slots : L.state[s] = "READY" => s = run \/ s \in Q

ListInv ==
  /\ mode # "hung"
  /\ \E Q, r : Placed(rq, sleepQ, p, Q, r)

\* initproc() runs the idle process and leaves the first program on the list.
LEMMA InitLists == Init => ListInv
<1> SUFFICES ASSUME Init PROVE ListInv
  OBVIOUS
<1>1. MAX_PROC \in Nat /\ MAX_PROC >= 2
  BY TableAssumption
<1>2. Idle \in Slots /\ Second \in Slots /\ Idle # Second /\ NULL \notin Slots
  BY <1>1 DEF Idle, Second, Slots
<1>3. rq \in Lists /\ p = Idle /\ mode = "user" /\ sleepQ = NULL
  BY InitType DEF TypeOK, Init
<1>4. /\ rq.head = Second /\ rq.tail = Second
      /\ \A s \in Slots : /\ rq.next[s] = NULL
                          /\ rq.state[s] = IF s \in {Idle, Second} THEN "READY"
                                           ELSE "STOPPED"
  BY DEF Init
<1>5. SleepersOf(rq) = {}
  BY <1>4 DEF SleepersOf
<1> DEFINE r == [s \in Slots |-> 0]
<1>6. r \in [Slots -> Int] /\ r[Second] = 0
  BY <1>2
<1> HIDE DEF r
<1>7. Threads(rq.next, rq.head, NULL, {Second}, r)
  BY <1>2, <1>4, <1>6 DEF Threads
<1>8. Threads(rq.next, sleepQ, NULL, {}, r)
  BY <1>3 DEF Threads
<1>9. Shape(rq, sleepQ, {Second}, {}, r)
  BY <1>2, <1>3, <1>4, <1>6, <1>7, <1>8 DEF Shape, Ptr
<1>10. Placed(rq, sleepQ, p, {Second}, r)
  BY <1>2, <1>3, <1>4, <1>5, <1>9 DEF Placed
<1> QED
  BY <1>3, <1>10 DEF ListInv

\* next() on a list with the idle process.
LEMMA RunNext ==
  ASSUME NEW M, NEW Q, NEW r, Shape(M, sleepQ', Q, SleepersOf(M), r),
         Idle \in Q, Dispatch(M),
         KILL \notin SigArgs => \A s \in Slots : M.state[s] = "READY" => s \in Q
  PROVE  /\ mode' = "user" /\ p' \in Q /\ rq'.state = M.state
         /\ Placed(rq', sleepQ', p', Q \ {p'}, r)
<1>1. /\ mode' = "user" /\ p' \in Q /\ rq'.state = M.state
      /\ Shape(rq', sleepQ', Q \ {p'}, SleepersOf(M), r)
  BY DispatchShape
<1>2. SleepersOf(rq') = SleepersOf(M)
  BY <1>1 DEF SleepersOf
<1>3. rq'.state[p'] = "READY"
  BY <1>1 DEF Shape
<1> QED
  BY <1>1, <1>2, <1>3 DEF Placed

\* The running process goes to the end of the ready list: SYS_YIELD, the end of
\* SYS_TIMER and a sleep of no time.
LEMMA YieldLists ==
  ASSUME TypeOK, NEW Q, NEW r, Placed(rq, sleepQ, p, Q, r),
         sleepQ' = sleepQ, Dispatch(Ready(rq, p))
  PROVE  /\ mode' = "user" /\ rq'.state = rq.state
         /\ \E Q2, r2 : Placed(rq', sleepQ', p', Q2, r2)
<1> DEFINE M == Ready(rq, p)
<1>1. /\ p \in Slots /\ rq.state \in [Slots -> States]
      /\ Shape(rq, sleepQ, Q, SleepersOf(rq), r)
      /\ p \notin Q /\ rq.state[p] = "READY" /\ p \notin SleepersOf(rq)
  BY DEF TypeOK, Lists, Placed, SleepersOf
<1>2. M.state = rq.state
  BY <1>1 DEF Ready
<1>3. SleepersOf(M) = SleepersOf(rq)
  BY <1>2 DEF SleepersOf
<1>4. PICK r2 : Shape(M, sleepQ, Q \cup {p}, SleepersOf(rq), r2)
  BY <1>1, ReadyShape
<1>5. Idle \in Q \cup {p}
  BY DEF Placed
<1>6. KILL \notin SigArgs =>
        \A s \in Slots : M.state[s] = "READY" => s \in Q \cup {p}
  BY <1>2 DEF Placed
<1> HIDE DEF M
<1>7. /\ mode' = "user" /\ rq'.state = M.state
      /\ Placed(rq', sleepQ', p', (Q \cup {p}) \ {p'}, r2)
  <2>1. Dispatch(M) /\ Shape(M, sleepQ', Q \cup {p}, SleepersOf(M), r2)
    BY <1>3, <1>4 DEF M
  <2> QED
    BY <1>5, <1>6, <2>1, RunNext
<1> QED
  BY <1>2, <1>7

\* A program that stops or waits leaves the cpu to the ready list.
LEMMA LeaveLists ==
  ASSUME TypeOK, NEW Q, NEW r, Placed(rq, sleepQ, p, Q, r), p # Idle,
         sleepQ' = sleepQ,
         NEW st \in {"STOPPED", "WAIT"}, Dispatch([rq EXCEPT !.state[p] = st])
  PROVE  /\ mode' = "user" /\ rq'.state = [rq.state EXCEPT ![p] = st]
         /\ \E Q2, r2 : Placed(rq', sleepQ', p', Q2, r2)
<1> DEFINE M == [rq EXCEPT !.state[p] = st]
<1>1. /\ p \in Slots /\ rq \in Lists
      /\ Shape(rq, sleepQ, Q, SleepersOf(rq), r)
      /\ p \notin Q /\ rq.state[p] = "READY" /\ p \notin SleepersOf(rq)
      /\ Idle \in Q /\ Q \subseteq Slots
  BY DEF TypeOK, Placed, SleepersOf, Shape
<1>2. /\ M \in Lists /\ M.head = rq.head /\ M.tail = rq.tail
      /\ M.next = rq.next /\ M.state = [rq.state EXCEPT ![p] = st]
  BY <1>1 DEF Lists, States
<1>3. \A s \in Slots : M.state[s] = IF s = p THEN st ELSE rq.state[s]
  BY <1>1, <1>2 DEF Lists
<1> HIDE DEF M
<1>4. SleepersOf(M) = SleepersOf(rq)
  BY <1>1, <1>3 DEF SleepersOf
<1>5. Shape(M, sleepQ, Q, SleepersOf(rq), r)
  <2>1. \A s \in Q \cup SleepersOf(rq) :
          M.next[s] = rq.next[s] /\ M.state[s] = rq.state[s]
    BY <1>1, <1>2, <1>3 DEF SleepersOf
  <2> QED
    BY <1>1, <1>2, <2>1, ShapeKept
<1>6. KILL \notin SigArgs => \A s \in Slots : M.state[s] = "READY" => s \in Q
  BY <1>3 DEF Placed
<1>7. /\ mode' = "user" /\ rq'.state = M.state
      /\ Placed(rq', sleepQ', p', Q \ {p'}, r)
  <2>1. Dispatch(M) /\ Shape(M, sleepQ', Q, SleepersOf(M), r)
    BY <1>4, <1>5 DEF M
  <2> QED
    BY <1>1, <1>6, <2>1, RunNext
<1> QED
  BY <1>2, <1>7

\* The slot and the pid that create() takes.
LEMMA FirstFreeProbe ==
  ASSUME TypeOK, FreeProbes # {}
  PROVE  /\ SlotOf(Min(FreeProbes)) \in Slots
         /\ rq.state[SlotOf(Min(FreeProbes))] = "STOPPED"
         /\ Proposed(Min(FreeProbes)) \in Word
<1>1. FreeProbes \subseteq 1..MAX_PROC /\ 1..MAX_PROC \subseteq Nat
  BY TableAssumption DEF FreeProbes
<1>2. Min(FreeProbes) \in FreeProbes
  BY <1>1, Least
<1>3. ASSUME NEW i \in 1..MAX_PROC PROVE SlotOf(i) \in Slots /\ Proposed(i) \in Word
  <2>1. nextpid + i \in Int
    BY TableAssumption DEF TypeOK, Word
  <2>2. Proposed(i) \in Word
    BY <2>1, Remainder DEF Proposed
  <2> QED
    BY <2>2, TableAssumption DEF SlotOf, Slots, Word
<1> QED
  BY <1>1, <1>2, <1>3 DEF FreeProbes

\* create() appends a stopped slot.
LEMMA CreateLists ==
  ASSUME TypeOK, NEW Q, NEW r, Placed(rq, sleepQ, p, Q, r),
         NEW gotStack \in BOOLEAN, SysCreate(gotStack)
  PROVE  /\ mode' = mode
         /\ \E Q2, r2 : Placed(rq', sleepQ', p', Q2, r2)
         /\ \A s \in Slots : rq.state[s] = "WAIT" <=> rq'.state[s] = "WAIT"
<1>1. \/ UNCHANGED <<rq, p, sleepQ, mode>>
      \/ \E s \in Slots : /\ rq.state[s] = "STOPPED" /\ rq' = Ready(rq, s)
                          /\ UNCHANGED <<p, sleepQ, mode>>
  <2> QED
    BY FirstFreeProbe DEF SysCreate
<1>2. CASE UNCHANGED <<rq, p, sleepQ, mode>>
  BY <1>2
<1>3. ASSUME NEW s \in Slots, rq.state[s] = "STOPPED", rq' = Ready(rq, s),
             UNCHANGED <<p, sleepQ, mode>>
      PROVE  /\ mode' = mode
             /\ \E Q2, r2 : Placed(rq', sleepQ', p', Q2, r2)
             /\ \A u \in Slots : rq.state[u] = "WAIT" <=> rq'.state[u] = "WAIT"
  <2>1. /\ rq \in Lists /\ p \in Slots
        /\ Shape(rq, sleepQ, Q, SleepersOf(rq), r)
        /\ s \notin Q \cup SleepersOf(rq) /\ s # p
    BY <1>3 DEF TypeOK, Placed, Shape, SleepersOf
  <2>2. PICK r2 : Shape(rq', sleepQ, Q \cup {s}, SleepersOf(rq), r2)
    BY <1>3, <2>1, ReadyShape
  <2>3. \A u \in Slots : rq'.state[u] = IF u = s THEN "READY" ELSE rq.state[u]
    BY <1>3, <2>1 DEF Ready, Lists
  <2>4. SleepersOf(rq') = SleepersOf(rq)
    BY <1>3, <2>3 DEF SleepersOf
  <2>5. Placed(rq', sleepQ', p', Q \cup {s}, r2)
    BY <1>3, <2>1, <2>2, <2>3, <2>4 DEF Placed
  <2> QED
    BY <1>3, <2>3, <2>5
<1> QED
  BY <1>1, <1>2, <1>3

\* An iteration of tick()'s loop moves the first sleeper to the ready list.
LEMMA TickWakeLists ==
  ASSUME TypeOK, NEW Q, NEW r, Placed(rq, sleepQ, p, Q, r), TickWake
  PROVE  /\ mode' = mode
         /\ \E Q2, r2 : Placed(rq', sleepQ', p', Q2, r2)
         /\ rq.state[sleepQ] = "SLEEP"
         /\ \A s \in Slots : rq.state[s] = "WAIT" <=> rq'.state[s] = "WAIT"
<1> DEFINE Z == SleepersOf(rq)
<1>1. /\ sleepQ # NULL /\ rq' = Ready(rq, sleepQ) /\ sleepQ' = rq.next[sleepQ]
      /\ p' = p /\ mode' = mode
  BY DEF TickWake, Expired
<1>2. Shape(rq, sleepQ, Q, Z, r) /\ rq \in Lists
  BY DEF Placed, TypeOK
<1>3. sleepQ \in Z /\ Shape(rq, sleepQ', Q, Z \ {sleepQ}, r)
  BY <1>1, <1>2, DropSleeper
<1>4. sleepQ \in Slots /\ rq.state[sleepQ] = "SLEEP"
  BY <1>3 DEF SleepersOf
<1>5. sleepQ \notin Q \cup (Z \ {sleepQ})
  BY <1>2, <1>3 DEF Shape
<1> HIDE DEF Z
<1>6. PICK r2 : Shape(rq', sleepQ', Q \cup {sleepQ}, Z \ {sleepQ}, r2)
  BY <1>1, <1>3, <1>4, <1>5, ReadyShape
<1>7. \A u \in Slots : rq'.state[u] = IF u = sleepQ THEN "READY" ELSE rq.state[u]
  BY <1>1, <1>2, <1>4 DEF Ready, Lists
<1>8. SleepersOf(rq') = Z \ {sleepQ}
  BY <1>4, <1>7 DEF SleepersOf, Z
<1>9. p \in Slots /\ p # sleepQ
  BY <1>4 DEF TypeOK, Placed
<1>10. Placed(rq', sleepQ', p', Q \cup {sleepQ}, r2)
  BY <1>1, <1>4, <1>6, <1>7, <1>8, <1>9 DEF Placed
<1> QED
  BY <1>1, <1>4, <1>7, <1>10

\* A program that is on the sleep list leaves the cpu to the ready list.
LEMMA AsleepRuns ==
  ASSUME TypeOK, NEW Q, NEW r, Placed(rq, sleepQ, p, Q, r), p # Idle,
         NEW M, NEW r2, Shape(M, sleepQ', Q, SleepersOf(rq) \cup {p}, r2),
         M.state = [rq.state EXCEPT ![p] = "SLEEP"], Dispatch(M)
  PROVE  /\ mode' = "user" /\ rq'.state = [rq.state EXCEPT ![p] = "SLEEP"]
         /\ \E Q3, r3 : Placed(rq', sleepQ', p', Q3, r3)
<1>1. /\ p \in Slots /\ rq.state \in [Slots -> States] /\ Idle \in Q
  BY DEF TypeOK, Lists, Placed
<1>2. \A s \in Slots : M.state[s] = IF s = p THEN "SLEEP" ELSE rq.state[s]
  BY <1>1
<1>3. SleepersOf(M) = SleepersOf(rq) \cup {p}
  BY <1>1, <1>2 DEF SleepersOf
<1>4. KILL \notin SigArgs => \A s \in Slots : M.state[s] = "READY" => s \in Q
  BY <1>2 DEF Placed
<1>5. /\ mode' = "user" /\ rq'.state = M.state
      /\ Placed(rq', sleepQ', p', Q \ {p'}, r2)
  BY <1>1, <1>3, <1>4, RunNext
<1> QED
  BY <1>5

\* syssleep() with a positive time puts its caller on the sleep list, and its
\* search for the place ends; with no time it yields.
LEMMA SleepLists ==
  ASSUME TypeOK, NEW Q, NEW r, Placed(rq, sleepQ, p, Q, r),
         NEW ms \in SleepLens, SysSleep(ms)
  PROVE  /\ mode' = "user"
         /\ \E Q2, r2 : Placed(rq', sleepQ', p', Q2, r2)
         /\ \A s \in Slots : rq.state[s] = "WAIT" <=> rq'.state[s] = "WAIT"
<1>1. PICK len : len = ms \div MILLISECONDS_TICK
  OBVIOUS
<1>2. PICK L : L = [rq EXCEPT !.state[p] = "SLEEP", !.next[p] = NULL]
  OBVIOUS
<1> DEFINE Z == SleepersOf(rq)
<1>3. /\ p \in Slots /\ rq \in Lists /\ p # Idle /\ NULL \notin Slots
      /\ Shape(rq, sleepQ, Q, Z, r) /\ Q \subseteq Slots /\ Z \subseteq Slots
      /\ rq.state[p] = "READY" /\ p \notin Q \cup Z /\ sleepQ \in Ptr
  BY SlotsAreNat DEF TypeOK, Placed, SleepersOf, Shape, SysSleep, UserTrap
<1>4. len \in Word
  BY <1>1, ArgumentAssumption DEF Word
<1>5. /\ L \in Lists /\ L.head = rq.head /\ L.tail = rq.tail
      /\ L.next = [rq.next EXCEPT ![p] = NULL]
      /\ L.state = [rq.state EXCEPT ![p] = "SLEEP"]
  BY <1>2, <1>3 DEF Lists, States, Ptr
<1>6. /\ \A s \in Slots \ {p} : L.next[s] = rq.next[s] /\ L.state[s] = rq.state[s]
      /\ L.next[p] = NULL /\ L.state[p] = "SLEEP"
  BY <1>3, <1>5 DEF Lists
<1> HIDE DEF Z
<1> DEFINE Done == /\ mode' = "user"
                   /\ rq'.state = [rq.state EXCEPT ![p] = "SLEEP"]
                   /\ \E Q2, r2 : Placed(rq', sleepQ', p', Q2, r2)
<1>0. Done => \A s \in Slots : rq.state[s] = "WAIT" <=> rq'.state[s] = "WAIT"
  BY <1>3 DEF Lists
<1>7. \/ Dispatch(Ready(rq, p)) /\ sleepQ' = sleepQ
      \/ sleepQ = NULL /\ sleepQ' = p /\ Dispatch(L)
      \/ /\ sleepQ # NULL /\ sleepQ' = p
         /\ Dispatch([L EXCEPT !.next[p] = sleepQ])
      \/ /\ sleepQ # NULL /\ sleepQ' = sleepQ
         /\ InsertAfter(L, SleepSearch(L.next, len).tmp,
                           SleepSearch(L.next, len).len)
      \/ sleepQ # NULL /\ Passes(L.next, SleepSearch(L.next, len))
  BY <1>1, <1>2 DEF SysSleep
<1>8. CASE Dispatch(Ready(rq, p)) /\ sleepQ' = sleepQ
  BY <1>8, YieldLists
<1>9. CASE sleepQ = NULL /\ sleepQ' = p /\ Dispatch(L)
  <2>1. PICK r2 : Shape(L, p, Q, Z \cup {p}, r2)
    <3>1. L.next[p] = sleepQ
      BY <1>6, <1>9
    <3>2. \A u \in Q \cup Z : L.next[u] = rq.next[u] /\ L.state[u] = rq.state[u]
      BY <1>3, <1>6
    <3>3. L.state[p] = "SLEEP" /\ L \in Lists /\ L.head = rq.head /\ L.tail = rq.tail
      BY <1>5, <1>6
    <3> QED
      BY <1>3, <3>1, <3>2, <3>3, PushSleeper
  <2>2. Done
    BY <1>3, <1>5, <1>9, <2>1, AsleepRuns DEF Z
  <2> QED
    BY <1>0, <2>2
<1>10. CASE /\ sleepQ # NULL /\ sleepQ' = p
            /\ Dispatch([L EXCEPT !.next[p] = sleepQ])
  <2>0. PICK M : M = [L EXCEPT !.next[p] = sleepQ]
    OBVIOUS
  <2>1. /\ M \in Lists /\ M.head = rq.head /\ M.tail = rq.tail
        /\ M.next[p] = sleepQ /\ M.state = L.state
        /\ \A s \in Slots \ {p} : M.next[s] = L.next[s]
    BY <1>3, <1>5, <2>0 DEF Lists
  <2>2. PICK r2 : Shape(M, p, Q, Z \cup {p}, r2)
    <3>1. \A u \in Q \cup Z : M.next[u] = rq.next[u] /\ M.state[u] = rq.state[u]
      BY <1>3, <1>6, <2>1
    <3>2. M.state[p] = "SLEEP"
      BY <1>6, <2>1
    <3> QED
      BY <1>3, <2>1, <3>1, <3>2, PushSleeper
  <2>3. Dispatch(M) /\ M.state = [rq.state EXCEPT ![p] = "SLEEP"]
    BY <1>5, <1>10, <2>0, <2>1
  <2>4. Done
    BY <1>3, <1>10, <2>2, <2>3, AsleepRuns DEF Z
  <2> QED
    BY <1>0, <2>4
<1>11. CASE sleepQ # NULL
  <2>1. Shape(L, sleepQ, Q, Z, r)
    <3>1. \A u \in Q \cup Z : L.next[u] = rq.next[u] /\ L.state[u] = rq.state[u]
      BY <1>3, <1>6
    <3> QED
      BY <1>3, <1>5, <3>1, ShapeKept
  <2>2. PICK w : w = SleepSearch(L.next, len)
    OBVIOUS
  <2>3. w.tmp \in Z /\ ~Passes(L.next, w)
    BY <1>4, <1>11, <2>1, <2>2, SearchEnds
  <2>4. ASSUME sleepQ' = sleepQ, InsertAfter(L, w.tmp, w.len) PROVE Done
    <3>1. PICK spot : spot = w.tmp
      OBVIOUS
    <3>2. PICK next : next = [[L.next EXCEPT ![p] = L.next[spot]] EXCEPT ![spot] = p]
      OBVIOUS
    <3>3. spot \in Z /\ spot \in Slots /\ spot # p
      BY <1>3, <2>3, <3>1
    <3>4. PICK M : M = [L EXCEPT !.next = next]
      OBVIOUS
    <3>5. next \in [Slots -> Ptr] /\ next[p] = L.next[spot] /\ next[spot] = p
          /\ \A u \in Slots \ {p, spot} : next[u] = L.next[u]
      BY <1>3, <1>5, <3>2, <3>3 DEF Lists, Ptr
    <3>6. /\ M \in Lists /\ M.head = L.head /\ M.tail = L.tail
          /\ M.next = next /\ M.state = L.state
      BY <1>5, <3>4, <3>5 DEF Lists
    <3>7. Dispatch(M)
      BY <2>4, <3>1, <3>2, <3>4 DEF InsertAfter
    <3>8. PICK r2 : Shape(M, sleepQ, Q, Z \cup {p}, r2)
      <4>1. /\ \A u \in (Q \cup Z) \ {spot} : M.next[u] = L.next[u]
            /\ \A u \in Q \cup Z : M.state[u] = L.state[u]
            /\ M.next[p] = L.next[spot] /\ M.next[spot] = p
            /\ M.state[p] = "SLEEP"
        BY <1>3, <1>6, <3>5, <3>6
      <4> QED
        BY <1>3, <2>1, <3>3, <3>6, <4>1, InsertSleeper
    <3>9. M.state = [rq.state EXCEPT ![p] = "SLEEP"]
      BY <1>5, <3>6
    <3> QED
      BY <1>3, <2>4, <3>7, <3>8, <3>9, AsleepRuns DEF Z
  <2>5. CASE sleepQ' = sleepQ /\ InsertAfter(L, w.tmp, w.len)
    BY <1>0, <2>4, <2>5
  <2>6. \/ Dispatch(Ready(rq, p)) /\ sleepQ' = sleepQ
        \/ sleepQ' = p /\ Dispatch([L EXCEPT !.next[p] = sleepQ])
        \/ sleepQ' = sleepQ /\ InsertAfter(L, w.tmp, w.len)
    BY <1>7, <1>11, <2>2, <2>3
  <2> QED
    BY <1>8, <1>10, <1>11, <2>5, <2>6
<1>12. CASE sleepQ = NULL
  BY <1>7, <1>8, <1>9, <1>12
<1> QED
  BY <1>11, <1>12

\* kill() of a process that does not sleep: a waiting target is put on the
\* ready list, the kill signal takes the target off it and appends the
\* processes that wait for the target.
LEMMA PostLists ==
  ASSUME TypeOK, NEW Q, NEW r, Placed(rq, sleepQ, p, Q, r),
         NEW t \in Slots, NEW sig \in SigArgs, Post(t, sig),
         rq.state[t] # "SLEEP", sig = KILL => t # Idle
  PROVE  /\ mode' = mode
         /\ ret' = [[ret EXCEPT ![t] = Interrupted(t)] EXCEPT ![p] = 0]
         /\ \E Q2, r2 : /\ Placed(rq', sleepQ, p, Q2, r2)
                        /\ sig = KILL => t \notin Q2
         /\ \A s \in Slots :
              rq'.state[s] =
                IF /\ rq.state[s] = "WAIT"
                   /\ s = t \/ (sig = KILL /\ waitpid[s] = pid[t])
                THEN "READY" ELSE rq.state[s]
<1> DEFINE Z == SleepersOf(rq)
<1>1. /\ p \in Slots /\ rq \in Lists
      /\ Shape(rq, sleepQ, Q, Z, r) /\ Q \subseteq Slots /\ Z \subseteq Slots
      /\ rq.state[p] = "READY" /\ p \notin Q \cup Z /\ t \notin Z
      /\ \A s \in Q : rq.state[s] = "READY"
      /\ \A s \in Z : rq.state[s] = "SLEEP"
  BY DEF TypeOK, Placed, SleepersOf, Shape
<1>2. PICK L1 : L1 = IF rq.state[t] \in {"WAIT", "SLEEP"} THEN Ready(rq, t) ELSE rq
  OBVIOUS
<1>3. PICK unlink : unlink = (sig = KILL /\ L1.state[t] = "READY")
  OBVIOUS
<1>4. PICK L2 : L2 = IF unlink THEN RemoveFromReady(L1, t) ELSE L1
  OBVIOUS
<1>5. PICK W : W = IF sig = KILL THEN Waiters(L2, t) ELSE {}
  OBVIOUS
<1>6. \/ /\ rq' = ReadyAll(L2, W)
         /\ ret' = [[ret EXCEPT ![t] = Interrupted(t)] EXCEPT ![p] = 0]
         /\ UNCHANGED mode
      \/ SearchSpins(L1, t)
  BY <1>2, <1>3, <1>4, <1>5 DEF Post
<1> HIDE DEF Z
<1>7. PICK Q1 : Q1 = IF rq.state[t] = "WAIT" THEN Q \cup {t} ELSE Q
  OBVIOUS
<1>8. PICK r1 : Shape(L1, sleepQ, Q1, Z, r1)
  <2>1. CASE rq.state[t] = "WAIT"
    <3>1. t \notin Q \cup Z
      BY <1>1, <2>1
    <3>2. L1 = Ready(rq, t) /\ Q1 = Q \cup {t}
      BY <1>2, <1>7, <2>1
    <3> QED
      BY <1>1, <3>1, <3>2, ReadyShape
  <2>2. CASE rq.state[t] # "WAIT"
    BY <1>1, <1>2, <1>7, <2>2
  <2> QED
    BY <2>1, <2>2
<1>9. \A s \in Slots : L1.state[s] = IF s = t /\ rq.state[t] = "WAIT"
                                     THEN "READY" ELSE rq.state[s]
  BY <1>1, <1>2 DEF Ready, Lists
<1>10. PICK Q2 : Q2 = IF sig = KILL THEN Q1 \ {t} ELSE Q1
  OBVIOUS
<1>11. Shape(L2, sleepQ, Q2, Z, r1) /\ L2.state = L1.state
  <2>1. CASE unlink /\ t \in Q1
    <3>1. L2 = RemoveFromReady(L1, t) /\ Q2 = Q1 \ {t}
      BY <1>3, <1>4, <1>10, <2>1
    <3> QED
      BY <1>8, <2>1, <3>1, RemoveShape
  <2>2. CASE unlink /\ t \notin Q1
    <3>1. L2 = RemoveFromReady(L1, t) /\ Q2 = Q1
      BY <1>3, <1>4, <1>10, <2>2
    <3> QED
      BY <1>8, <2>2, <3>1, RemoveMissing
  <2>3. CASE ~unlink
    <3>1. sig = KILL => t \notin Q1
      BY <1>3, <1>8, <2>3 DEF Shape
    <3> QED
      BY <1>4, <1>8, <1>10, <2>3, <3>1
  <2> QED
    BY <2>1, <2>2, <2>3
<1>12. /\ W \in SUBSET Slots
       /\ \A s \in W : L2.state[s] = "WAIT"
       /\ \A s \in Slots : s \in W <=>
            /\ sig = KILL /\ s # t /\ rq.state[s] = "WAIT" /\ waitpid[s] = pid[t]
  BY <1>5, <1>9, <1>11 DEF Waiters
<1>13. W \cap (Q2 \cup Z) = {}
  BY <1>11, <1>12 DEF Shape
<1>14. ~SearchSpins(L1, t)
  BY <1>8, ShapeHolds
<1>15. /\ rq' = ReadyAll(L2, W) /\ mode' = mode
       /\ ret' = [[ret EXCEPT ![t] = Interrupted(t)] EXCEPT ![p] = 0]
  BY <1>6, <1>14
<1>16. PICK r2 : Shape(rq', sleepQ, Q2 \cup W, Z, r2)
  BY <1>11, <1>12, <1>13, <1>15, ReadyAllShape
<1>17. \A s \in Slots : rq'.state[s] = IF s \in W THEN "READY" ELSE L1.state[s]
  BY <1>11, <1>15 DEF ReadyAll
<1>18. \A s \in Slots :
         rq'.state[s] =
           IF /\ rq.state[s] = "WAIT"
              /\ s = t \/ (sig = KILL /\ waitpid[s] = pid[t])
           THEN "READY" ELSE rq.state[s]
  BY <1>9, <1>12, <1>17
<1>19. SleepersOf(rq') = Z
  BY <1>18 DEF SleepersOf, Z
<1>20. p \notin Q2 \cup W /\ rq'.state[p] = "READY"
  <2>1. p \notin W
    BY <1>1, <1>12
  <2>2. p \notin Q1
    BY <1>1, <1>7
  <2> QED
    BY <1>1, <1>10, <1>18, <2>1, <2>2
<1>21. Idle = p \/ Idle \in Q2 \cup W
  BY <1>7, <1>10 DEF Placed
<1>22. KILL \notin SigArgs =>
         \A s \in Slots : rq'.state[s] = "READY" => s = p \/ s \in Q2 \cup W
  <2> SUFFICES ASSUME KILL \notin SigArgs, NEW s \in Slots, rq'.state[s] = "READY"
               PROVE  s = p \/ s \in Q2 \cup W
    OBVIOUS
  <2>1. sig # KILL /\ Q2 = Q1
    BY <1>10
  <2>2. rq.state[s] = "READY" \/ (s = t /\ rq.state[t] = "WAIT")
    BY <1>18, <2>1
  <2> QED
    BY <1>7, <2>1, <2>2 DEF Placed
<1>23. Placed(rq', sleepQ, p, Q2 \cup W, r2)
  BY <1>16, <1>19, <1>20, <1>21, <1>22 DEF Placed
<1>24. sig = KILL => t \notin Q2 \cup W
  BY <1>10, <1>12
<1> QED
  BY <1>15, <1>18, <1>23, <1>24

-----------------------------------------------------------------------------
(* Every step. *)

\* The step is a signal to s, or the kill signal to whom s waits for.
Signalled(s) == \E sig \in SigArgs : SysKill(pid[s], sig)
AwaitedKilled(s) == SysKill(waitpid[s], KILL)

\* What a step that leaves the ready list D does to the processes that are
\* ready or wait: the value a ready process will return stays, and a wait goes
\* on, ends with -666, or ends with 0 because the process awaited was killed.
Effect(D) ==
  /\ \A s \in Slots \ {p} :
       /\ rq.state[s] = "READY" => ret'[s] = ret[s]
       /\ rq.state[s] = "WAIT" =>
            \/ rq'.state[s] = "WAIT" /\ ret'[s] = ret[s]
            \/ ret'[s] = -666 /\ rq'.state[s] = "READY" /\ Signalled(s)
            \/ /\ ret'[s] = ret[s] /\ rq'.state[s] = "READY"
               /\ AwaitedKilled(s) /\ FindPCB(waitpid[s]) \notin D
       /\ rq.state[s] # "WAIT" => rq'.state[s] # "WAIT"
  /\ rq'.state[p] = "WAIT" => ret'[p] = 0

Moved ==
  /\ mode' # "hung"
  /\ \E Q2, r2 : Placed(rq', sleepQ', p', Q2, r2) /\ Effect(Q2)

\* A step that ends no wait.
LEMMA PlainStep ==
  ASSUME mode' # "hung", \E Q2, r2 : Placed(rq', sleepQ', p', Q2, r2),
         \A s \in Slots \ {p} :
           /\ rq.state[s] = "WAIT" <=> rq'.state[s] = "WAIT"
           /\ rq.state[s] \in {"READY", "WAIT"} => ret'[s] = ret[s],
         rq'.state[p] = "WAIT" => ret'[p] = 0
  PROVE  Moved
<1>1. PICK Q2, r2 : Placed(rq', sleepQ', p', Q2, r2)
  OBVIOUS
<1>2. Effect(Q2)
  BY DEF Effect
<1> QED
  BY <1>1, <1>2 DEF Moved

\* Steps that leave the lists alone and change the return value of the caller
\* at most.
LEMMA AnswerMoves ==
  ASSUME TypeOK, NEW Q, NEW r, Placed(rq, sleepQ, p, Q, r),
         UNCHANGED <<p, rq, sleepQ>>, mode' # "hung",
         NEW v, ret' = [ret EXCEPT ![p] = v]
  PROVE  Moved
<1>1. /\ rq.state[p] = "READY" /\ rq' = rq
      /\ \A s \in Slots \ {p} : ret'[s] = ret[s]
  BY DEF TypeOK, Placed
<1>2. \E Q2, r2 : Placed(rq', sleepQ', p', Q2, r2)
  OBVIOUS
<1> QED
  BY <1>1, <1>2, PlainStep

\* SYS_CREATE keeps the lists and answers only its caller: it ends no wait
\* and changes the answer of no queued process.
LEMMA CreateMoves ==
  ASSUME TypeOK, NEW Q, NEW r, Placed(rq, sleepQ, p, Q, r),
         NEW gotStack \in BOOLEAN, SysCreate(gotStack)
  PROVE  Moved
<1>1. /\ mode' = mode /\ mode = "user"
      /\ \E Q2, r2 : Placed(rq', sleepQ', p', Q2, r2)
      /\ \A s \in Slots : rq.state[s] = "WAIT" <=> rq'.state[s] = "WAIT"
  BY CreateLists DEF SysCreate, UserTrap, Trap
<1>2. \E v : ret' = [ret EXCEPT ![p] = v]
  BY DEF SysCreate
<1>3. \A s \in Slots \ {p} : ret'[s] = ret[s]
  BY <1>2 DEF TypeOK
<1>4. p \in Slots /\ rq.state[p] = "READY"
  BY DEF TypeOK, Placed
<1> QED
  BY <1>1, <1>3, <1>4, PlainStep

\* So do SYS_YIELD and the end of the timer trap, which queue the caller and
\* change no answer.
LEMMA YieldMoves ==
  ASSUME TypeOK, NEW Q, NEW r, Placed(rq, sleepQ, p, Q, r),
         SysYield \/ TimerDone
  PROVE  Moved
<1>1. sleepQ' = sleepQ /\ ret' = ret /\ Dispatch(Ready(rq, p))
  BY DEF SysYield, TimerDone
<1>2. /\ mode' = "user" /\ rq'.state = rq.state
      /\ \E Q2, r2 : Placed(rq', sleepQ', p', Q2, r2)
  BY <1>1, YieldLists
<1>3. rq.state[p] = "READY"
  BY DEF Placed
<1> QED
  BY <1>1, <1>2, <1>3, PlainStep

\* So does SYS_STOP, which leaves its caller off both lists.
LEMMA StopMoves ==
  ASSUME TypeOK, NEW Q, NEW r, Placed(rq, sleepQ, p, Q, r), SysStop
  PROVE  Moved
<1>1. /\ sleepQ' = sleepQ /\ ret' = ret /\ p # Idle
      /\ Dispatch([rq EXCEPT !.state[p] = "STOPPED"])
  BY DEF SysStop, UserTrap
<1>2. /\ mode' = "user" /\ rq'.state = [rq.state EXCEPT ![p] = "STOPPED"]
      /\ \E Q2, r2 : Placed(rq', sleepQ', p', Q2, r2)
  BY <1>1, LeaveLists
<1>3. /\ rq'.state[p] = "STOPPED"
      /\ \A s \in Slots \ {p} : rq'.state[s] = rq.state[s]
  BY <1>2 DEF TypeOK, Lists
<1> QED
  BY <1>1, <1>2, <1>3, PlainStep

\* So does SYS_WAIT: it answers -1 or starts a wait with the answer 0.
LEMMA WaitMoves ==
  ASSUME TypeOK, NEW Q, NEW r, Placed(rq, sleepQ, p, Q, r), NEW n, SysWait(n)
  PROVE  Moved
<1>1. \/ /\ ret' = [ret EXCEPT ![p] = -1] /\ UNCHANGED <<p, mode, rq>>
      \/ /\ ret' = [ret EXCEPT ![p] = 0]
         /\ Dispatch([rq EXCEPT !.state[p] = "WAIT"])
  BY DEF SysWait
<1>2. sleepQ' = sleepQ /\ p # Idle /\ mode = "user"
  BY DEF SysWait, UserTrap, Trap
<1>3. CASE ret' = [ret EXCEPT ![p] = -1] /\ UNCHANGED <<p, mode, rq>>
  BY <1>2, <1>3, AnswerMoves
<1>4. CASE /\ ret' = [ret EXCEPT ![p] = 0]
           /\ Dispatch([rq EXCEPT !.state[p] = "WAIT"])
  <2>1. /\ mode' = "user" /\ rq'.state = [rq.state EXCEPT ![p] = "WAIT"]
        /\ \E Q2, r2 : Placed(rq', sleepQ', p', Q2, r2)
    BY <1>2, <1>4, LeaveLists
  <2>2. /\ ret'[p] = 0
        /\ \A s \in Slots \ {p} : rq'.state[s] = rq.state[s] /\ ret'[s] = ret[s]
    BY <1>4, <2>1 DEF TypeOK, Lists
  <2> QED
    BY <2>1, <2>2, PlainStep
<1> QED
  BY <1>1, <1>3, <1>4

\* So does SYS_SLEEP, wherever it inserts its caller.
LEMMA SleepMoves ==
  ASSUME TypeOK, NEW Q, NEW r, Placed(rq, sleepQ, p, Q, r),
         NEW ms \in SleepLens, SysSleep(ms)
  PROVE  Moved
<1>1. /\ mode' = "user"
      /\ \E Q2, r2 : Placed(rq', sleepQ', p', Q2, r2)
      /\ \A s \in Slots : rq.state[s] = "WAIT" <=> rq'.state[s] = "WAIT"
  BY SleepLists
<1>2. ret' = ret /\ p \in Slots /\ rq.state[p] = "READY"
  BY DEF SysSleep, TypeOK, Placed
<1> QED
  BY <1>1, <1>2, PlainStep

\* So does an iteration of tick's loop, which answers a process that is only
\* now queued.
LEMMA TickWakeMoves ==
  ASSUME TypeOK, NEW Q, NEW r, Placed(rq, sleepQ, p, Q, r), TickWake
  PROVE  Moved
<1>1. /\ mode' = mode /\ mode = "tick" /\ ret' = [ret EXCEPT ![sleepQ] = 0]
      /\ \E Q2, r2 : Placed(rq', sleepQ', p', Q2, r2)
      /\ rq.state[sleepQ] = "SLEEP"
      /\ \A s \in Slots : rq.state[s] = "WAIT" <=> rq'.state[s] = "WAIT"
  BY TickWakeLists DEF TickWake
<1>2. p \in Slots /\ rq.state[p] = "READY"
  BY DEF TypeOK, Placed
<1>3. \A s \in Slots : rq.state[s] \in {"READY", "WAIT"} => ret'[s] = ret[s]
  BY <1>1 DEF TypeOK
<1> QED
  BY <1>1, <1>2, <1>3, PlainStep

\* A signal to a process that does not sleep.
LEMMA KillMoves ==
  ASSUME TypeOK, NEW Q, NEW r, Placed(rq, sleepQ, p, Q, r), Quiet,
         NEW n, NEW sig \in SigArgs, MayKill(n, sig), SysKill(n, sig)
  PROVE  Moved
<1>1. PICK t : t = FindPCB(n)
  OBVIOUS
<1>2. UNCHANGED <<p, sleepQ>> /\ mode = "user"
  BY DEF SysKill, UserTrap, Trap
<1>3. \/ UNCHANGED <<rq, mode>> /\ \E v : ret' = [ret EXCEPT ![p] = v]
      \/ t # NULL /\ Post(t, sig)
  BY <1>1 DEF SysKill
<1>4. CASE UNCHANGED <<rq, mode>> /\ \E v : ret' = [ret EXCEPT ![p] = v]
  BY <1>2, <1>4, AnswerMoves
<1>5. CASE t # NULL /\ Post(t, sig)
  <2>1. t \in Slots /\ pid[t] = n
    BY <1>1, <1>5, FindPCBType
  <2>2. rq.state[t] # "SLEEP" /\ (sig = KILL => t # Idle)
    BY <1>1, <1>5 DEF MayKill, Quiet
  <2>3. /\ mode' = mode
        /\ ret' = [[ret EXCEPT ![t] = Interrupted(t)] EXCEPT ![p] = 0]
        /\ \A s \in Slots :
             rq'.state[s] =
               IF /\ rq.state[s] = "WAIT"
                  /\ s = t \/ (sig = KILL /\ waitpid[s] = pid[t])
               THEN "READY" ELSE rq.state[s]
    BY <1>5, <2>1, <2>2, PostLists
  <2>4. PICK Q2, r2 : Placed(rq', sleepQ, p, Q2, r2) /\ (sig = KILL => t \notin Q2)
    BY <1>5, <2>1, <2>2, PostLists
  <2>5. p \in Slots /\ rq.state[p] = "READY" /\ rq'.state[p] = "READY"
    BY <2>3 DEF TypeOK, Placed
  <2>6. \A s \in Slots \ {p} : ret'[s] = IF s = t THEN Interrupted(t) ELSE ret[s]
    BY <2>1, <2>3 DEF TypeOK
  <2>7. /\ rq.state[t] = "READY" => Interrupted(t) = ret[t]
        /\ rq.state[t] = "WAIT" => Interrupted(t) = -666
    BY DEF Interrupted
  <2>8. Effect(Q2)
    <3> SUFFICES ASSUME NEW s \in Slots \ {p}
                 PROVE  /\ rq.state[s] = "READY" => ret'[s] = ret[s]
                        /\ rq.state[s] = "WAIT" =>
                             \/ rq'.state[s] = "WAIT" /\ ret'[s] = ret[s]
                             \/ /\ ret'[s] = -666 /\ rq'.state[s] = "READY"
                                /\ Signalled(s)
                             \/ /\ ret'[s] = ret[s] /\ rq'.state[s] = "READY"
                                /\ AwaitedKilled(s) /\ FindPCB(waitpid[s]) \notin Q2
                        /\ rq.state[s] # "WAIT" => rq'.state[s] # "WAIT"
      BY <2>5 DEF Effect
    <3>1. CASE s = t
      <4>1. /\ ret'[s] = Interrupted(t)
            /\ rq'.state[s] = IF rq.state[s] = "WAIT" THEN "READY" ELSE rq.state[s]
        BY <2>3, <2>6, <3>1
      <4>2. Signalled(s)
        BY <2>1, <3>1 DEF Signalled
      <4> QED
        BY <2>7, <3>1, <4>1, <4>2
    <3>2. CASE s # t
      <4>1. ret'[s] = ret[s]
        BY <2>6, <3>2
      <4>2. ASSUME rq.state[s] = "WAIT", rq'.state[s] # "WAIT"
            PROVE  /\ rq'.state[s] = "READY" /\ AwaitedKilled(s)
                   /\ FindPCB(waitpid[s]) \notin Q2
        <5>1. sig = KILL /\ waitpid[s] = pid[t] /\ rq'.state[s] = "READY"
          BY <2>3, <3>2, <4>2
        <5>2. AwaitedKilled(s)
          BY <2>1, <5>1 DEF AwaitedKilled
        <5> QED
          BY <1>1, <2>1, <2>4, <5>1, <5>2
      <4> QED
        BY <2>3, <4>1, <4>2
    <3> QED
      BY <3>1, <3>2
  <2> QED
    BY <1>2, <2>3, <2>4, <2>8 DEF Moved
<1> QED
  BY <1>3, <1>4, <1>5

\* Every step.
LEMMA QuietStep ==
  ASSUME TypeOK, Quiet, NEW Q, NEW r, Placed(rq, sleepQ, p, Q, r), Next
  PROVE  Moved
<1>1. CASE \E gotStack \in BOOLEAN : SysCreate(gotStack)
  BY <1>1, CreateMoves
<1>2. CASE SysStop
  BY <1>2, StopMoves
<1>3. CASE SysGetpid \/ SysPuts \/ SysCpuTimes
  <2>1. PICK v : Answer(v)
    BY <1>3 DEF SysGetpid, SysPuts, SysCpuTimes
  <2>2. UNCHANGED <<p, rq, sleepQ>> /\ mode' # "hung" /\ ret' = [ret EXCEPT ![p] = v]
    BY <2>1 DEF Answer, UserTrap, Trap
  <2> QED
    BY <2>2, AnswerMoves
<1>4. CASE \E n \in PidArgs : SysWait(n)
  BY <1>4, WaitMoves
<1>5. CASE \E ms \in SleepLens : SysSleep(ms)
  BY <1>5, SleepMoves
<1>6. CASE \E n \in PidArgs, sig \in SigArgs : MayKill(n, sig) /\ SysKill(n, sig)
  BY <1>6, KillMoves
<1>7. CASE \E sig \in SigArgs, h \in Handlers \cup BadHandlers \cup {0} :
             SysSighandler(sig, h)
  <2>1. UNCHANGED <<p, rq, sleepQ>> /\ mode' # "hung"
    BY <1>7 DEF SysSighandler, UserTrap, Trap
  <2>2. PICK v : ret' = [ret EXCEPT ![p] = v]
    BY <1>7 DEF SysSighandler
  <2> QED
    BY <2>1, <2>2, AnswerMoves
<1>8. CASE SysSigreturn \/ SysTimer
  <2>1. UNCHANGED <<p, rq, sleepQ>> /\ mode' # "hung"
    BY <1>8 DEF SysSigreturn, SysTimer, UserTrap, Trap
  <2>2. PICK v : ret' = [ret EXCEPT ![p] = v]
    BY <1>8 DEF SysSigreturn, SysTimer
  <2> QED
    BY <2>1, <2>2, AnswerMoves
<1>9. CASE SysYield \/ TimerDone
  BY <1>9, YieldMoves
<1>10. CASE TickWake
  BY <1>10, TickWakeMoves
<1> QED
  BY <1>1, <1>2, <1>3, <1>4, <1>5, <1>6, <1>7, <1>8, <1>9, <1>10 DEF Next, Calls

\* A process that waits will return 0 unless a signal ends the wait.
WaitInv == \A s \in Slots : rq.state[s] = "WAIT" => ret[s] = 0

\* ListInv and WaitInv are inductive.
LEMMA ListsInductive ==
  ASSUME Quiet
  PROVE  TypeOK /\ ListInv /\ WaitInv /\ [Next]_vars => ListInv' /\ WaitInv'
<1> SUFFICES ASSUME TypeOK, ListInv, WaitInv, [Next]_vars
             PROVE  ListInv' /\ WaitInv'
  OBVIOUS
<1>1. CASE Next
  <2>1. PICK Q, r : Placed(rq, sleepQ, p, Q, r)
    BY DEF ListInv
  <2>2. Moved
    BY <1>1, <2>1, QuietStep
  <2>3. PICK Q2, r2 : Placed(rq', sleepQ', p', Q2, r2) /\ Effect(Q2)
    BY <2>2 DEF Moved
  <2>4. ListInv'
    BY <2>2, <2>3 DEF ListInv, Moved
  <2>5. WaitInv'
    <3> SUFFICES ASSUME NEW s \in Slots, rq'.state[s] = "WAIT" PROVE ret'[s] = 0
      BY DEF WaitInv
    <3>1. CASE s = p
      BY <2>3, <3>1 DEF Effect
    <3>2. CASE s # p
      <4>1. rq.state[s] = "WAIT" /\ ret'[s] = ret[s]
        BY <2>3, <3>2 DEF Effect
      <4> QED
        BY <4>1 DEF WaitInv
    <3> QED
      BY <3>1, <3>2
  <2> QED
    BY <2>4, <2>5
<1>2. CASE UNCHANGED vars
  BY <1>2 DEF vars, ListInv, WaitInv
<1> QED
  BY <1>1, <1>2

\* The shape of the lists and the answers of the waiting processes are kept
\* by every step of programs that do not signal sleepers or kill idle.
LEMMA ListsInvariant ==
  ASSUME Quiet
  PROVE  Spec => [](TypeOK /\ ListInv /\ WaitInv)
<1>1. Init => ListInv /\ WaitInv
  BY InitLists DEF Init, WaitInv
<1>2. TypeOK /\ ListInv /\ WaitInv /\ [Next]_vars => ListInv' /\ WaitInv'
  BY ListsInductive
<1> QED
  BY <1>1, <1>2, TypeCorrect, PTL DEF Spec

\* What the invariant says of the lists as the code walks them.
LEMMA OnLists ==
  ASSUME NEW Q, NEW r, Placed(rq, sleepQ, p, Q, r)
  PROVE  /\ Ends(rq.head) /\ Ends(sleepQ)
         /\ OnList(rq.head) = Q /\ OnList(sleepQ) = SleepersOf(rq)
<1>1. Shape(rq, sleepQ, Q, SleepersOf(rq), r)
  BY DEF Placed
<1> HIDE DEF NULL
<1> QED
  BY <1>1, ShapeHolds DEF Ends, OnList

\* The ready list and the sleep list end, share no pcb although they share the
\* next field, hold processes of the state they are for and not the running
\* process, and tail is the end of the ready list (disp.c: ready, next,
\* removeFromReady; sleep.c: sleep, tick), for every size of the table, as long
\* as no program signals a sleeping process or kills the idle process.
THEOREM ListsStaySound ==
  ASSUME Quiet
  PROVE  Spec => []ListsSound
<1>1. TypeOK /\ ListInv => ListsSound
  <2> SUFFICES ASSUME TypeOK, ListInv PROVE ListsSound
    OBVIOUS
  <2>1. PICK Q, r : Placed(rq, sleepQ, p, Q, r)
    BY DEF ListInv
  <2>2. /\ Ends(rq.head) /\ Ends(sleepQ)
        /\ OnList(rq.head) = Q /\ OnList(sleepQ) = SleepersOf(rq)
    BY <2>1, OnLists
  <2>3. Shape(rq, sleepQ, Q, SleepersOf(rq), r)
    BY <2>1 DEF Placed
  <2>4. rq.head = NULL <=> rq.tail = NULL
    BY <2>3, ShapeEmpty
  <2>5. p \notin SleepersOf(rq)
    BY <2>1 DEF Placed, SleepersOf
  <2> QED
    BY <2>1, <2>2, <2>3, <2>4, <2>5 DEF ListsSound, Shape, Placed
<1> QED
  BY <1>1, ListsInvariant, PTL

\* Every sleeping process is on the sleep list (sleep.c: sleep, tick), so that
\* the panic of removeFromSleep about a corrupt sleep queue is out of reach,
\* as long as no program signals a sleeping process or kills the idle process.
THEOREM SleepersStayListed ==
  ASSUME Quiet
  PROVE  Spec => []SleepersListed
<1>1. ListInv => SleepersListed
  BY OnLists DEF ListInv, SleepersListed, SleepersOf
<1> QED
  BY <1>1, ListsInvariant, PTL

\* As long as moreover no program sends the kill signal, which takes a process
\* off the ready list and leaves it READY, a READY process runs or is on the
\* ready list (disp.c: ready, next).
THEOREM ReadyStayQueued ==
  ASSUME Quiet, KILL \notin SigArgs
  PROVE  Spec => []ReadyMeansQueued
<1>1. ListInv => ReadyMeansQueued
  <2> SUFFICES ASSUME ListInv, NEW s \in Slots, rq.state[s] = "READY"
               PROVE  s = p \/ s \in OnList(rq.head)
    BY DEF ReadyMeansQueued
  <2>1. PICK Q, r : Placed(rq, sleepQ, p, Q, r)
    BY DEF ListInv
  <2>2. OnList(rq.head) = Q
    BY <2>1, OnLists
  <2> QED
    BY <2>1, <2>2 DEF Placed
<1> QED
  BY <1>1, ListsInvariant, PTL

\* No step changes the value that a process on the ready list will return from
\* its interrupted call: neither a signal posted to it nor the timer that wakes
\* others (disp.c: kill; sleep.c: tick; ctsw.c), as long as no program signals a
\* sleeping process or kills the idle process.
THEOREM ReturnsKept ==
  ASSUME Quiet
  PROVE  Spec => ReturnKept
<1>1. TypeOK /\ ListInv /\ WaitInv /\ [Next]_vars =>
        [\A s \in OnList(rq.head) \cap OnList(rq.head)' : ret'[s] = ret[s]]_vars
  <2> SUFFICES ASSUME TypeOK, ListInv, Next,
                      NEW s \in OnList(rq.head) \cap OnList(rq.head)'
               PROVE  ret'[s] = ret[s]
    OBVIOUS
  <2>1. PICK Q, r : Placed(rq, sleepQ, p, Q, r)
    BY DEF ListInv
  <2>2. s \in Q
    BY <2>1, OnLists
  <2>3. s \in Slots \ {p} /\ rq.state[s] = "READY"
    BY <2>1, <2>2 DEF Placed, Shape
  <2>4. Moved
    BY <2>1, QuietStep
  <2> QED
    BY <2>3, <2>4 DEF Moved, Effect
<1> QED
  BY <1>1, ListsInvariant, PTL DEF Spec, ReturnKept

\* A wait ends in one of two ways: a signal to the waiter's own pid ends it, with
\* -666, or the kill signal to the awaited pid, with 0, and the process that is
\* found by that pid is off the ready list (disp.c: SYS_WAIT, kill), as long as
\* no program signals a sleeping process or kills the idle process.
THEOREM WaitsEnd ==
  ASSUME Quiet
  PROVE  Spec => WaitEnds
<1>1. TypeOK /\ ListInv /\ WaitInv /\ [Next]_vars =>
        [\A s \in Slots :
           rq.state[s] = "WAIT" /\ rq'.state[s] # "WAIT" =>
             \/ ret'[s] = -666 /\ Signalled(s)
             \/ /\ ret'[s] = 0 /\ AwaitedKilled(s)
                /\ FindPCB(waitpid[s]) \notin OnList(rq.head)']_vars
  <2> SUFFICES ASSUME TypeOK, ListInv, WaitInv, Next, NEW s \in Slots,
                      rq.state[s] = "WAIT", rq'.state[s] # "WAIT"
               PROVE  \/ ret'[s] = -666 /\ Signalled(s)
                      \/ /\ ret'[s] = 0 /\ AwaitedKilled(s)
                         /\ FindPCB(waitpid[s]) \notin OnList(rq.head)'
    OBVIOUS
  <2>1. PICK Q, r : Placed(rq, sleepQ, p, Q, r)
    BY DEF ListInv
  <2>2. PICK Q2, r2 : Placed(rq', sleepQ', p', Q2, r2) /\ Effect(Q2)
    BY <2>1, QuietStep DEF Moved
  <2>3. OnList(rq.head)' = Q2
    <3>1. Shape(rq', sleepQ', Q2, SleepersOf(rq'), r2)
      BY <2>2 DEF Placed
    <3>2. {Chain(rq'.next, rq'.head)[i] : i \in 0..MAX_PROC} \ {NULL} = Q2
      BY <3>1, ShapeHolds
    <3> QED
      BY <3>2 DEF OnList
  <2>4. s # p
    BY <2>1 DEF Placed
  <2>5. ret[s] = 0
    BY DEF WaitInv
  <2> QED
    BY <2>2, <2>3, <2>4, <2>5 DEF Effect
<1> QED
  BY <1>1, ListsInvariant, PTL DEF Spec, WaitEnds, Signalled, AwaitedKilled

=============================================================================
