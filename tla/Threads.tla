------------------------------- MODULE Threads ------------------------------
(***************************************************************************)
(* What a linked list holds, proved from the links.  The kernel's lists    *)
(* are fields next of its pcbs; the specifications follow them with a      *)
(* function on the naturals.  Here a list is a set of members and a rank   *)
(* that says in which order the links meet them.                           *)
(***************************************************************************)
EXTENDS Integers, FiniteSets, TLAPS, FiniteSetTheorems, WellFoundedInduction

\* A set of naturals that holds 0 and, with each number, the next holds all.
LEMMA NatInduct ==
  ASSUME NEW S, 0 \in S, \A n \in Nat : n \in S => n + 1 \in S
  PROVE  Nat \subseteq S
<1> SUFFICES ASSUME Nat \ S # {} PROVE FALSE
  OBVIOUS
<1>1. PICK x \in Nat \ S : \A y \in Nat \ S : ~(<<y, x>> \in OpToRel(<, Nat))
  BY WFMin, NatLessThanWellFounded
<1>2. x \in Nat /\ x # 0 /\ x \notin S
  OBVIOUS
<1>3. x - 1 \in Nat /\ x - 1 < x /\ (x - 1) + 1 = x
  BY <1>2
<1>4. x - 1 \in S
  BY <1>1, <1>3 DEF OpToRel
<1> QED
  BY <1>2, <1>3, <1>4

\* A non-empty set of naturals has a least element.
LEMMA LeastNat ==
  ASSUME NEW S, S \subseteq Nat, S # {}
  PROVE  \E x \in S : \A y \in S : x <= y
<1> SUFFICES ASSUME \A x \in S : \E y \in S : ~(x <= y) PROVE FALSE
  OBVIOUS
<1> DEFINE T == {k \in Nat : \A y \in S : k <= y}
<1>1. 0 \in T
  OBVIOUS
<1>2. ASSUME NEW k \in Nat, k \in T PROVE k + 1 \in T
  <2>1. k \notin S
    BY <1>2
  <2>2. \A y \in S : k + 1 <= y
    BY <1>2, <2>1
  <2> QED
    BY <2>2
<1>3. Nat \subseteq T
  <2> HIDE DEF T
  <2> QED
    BY <1>1, <1>2, NatInduct
<1>4. PICK y \in S : TRUE
  OBVIOUS
<1>5. y \in Nat /\ y + 1 \in Nat
  OBVIOUS
<1>6. y + 1 <= y
  BY <1>3, <1>5
<1> QED
  BY <1>5, <1>6

\* The first n + 1 values of the iteration of g from a.
Approx(g, a, S, n) ==
  {h \in [0..n -> S] : h[0] = a /\ \A i \in 1..n : h[i] = g[h[i-1]]}

\* They exist for every n.
LEMMA ApproxExists ==
  ASSUME NEW S, NEW g \in [S -> S], NEW a \in S, NEW n \in Nat
  PROVE  Approx(g, a, S, n) # {}
<1> DEFINE T == {m \in Nat : Approx(g, a, S, m) # {}}
<1>1. 0 \in T
  <2> DEFINE h == [i \in 0..0 |-> a]
  <2>1. h \in Approx(g, a, S, 0)
    BY DEF Approx
  <2> QED
    BY <2>1
<1>2. ASSUME NEW m \in Nat, m \in T PROVE m + 1 \in T
  <2>1. PICK h : h \in Approx(g, a, S, m)
    BY <1>2
  <2>2. /\ h \in [0..m -> S] /\ h[0] = a
        /\ \A i \in 1..m : h[i] = g[h[i-1]]
    BY <2>1 DEF Approx
  <2> DEFINE k == [i \in 0..m+1 |-> IF i = m + 1 THEN g[h[m]] ELSE h[i]]
  <2>3. k \in [0..m+1 -> S] /\ k[0] = a
    BY <2>2
  <2>4. ASSUME NEW i \in 1..m+1 PROVE k[i] = g[k[i-1]]
    <3>1. CASE i = m + 1
      BY <3>1
    <3>2. CASE i # m + 1
      BY <2>2, <3>2
    <3> QED
      BY <3>1, <3>2
  <2>5. k \in Approx(g, a, S, m + 1)
    BY <2>3, <2>4 DEF Approx
  <2> QED
    BY <2>5
<1>3. Nat \subseteq T
  <2> HIDE DEF T
  <2> QED
    BY <1>1, <1>2, NatInduct
<1> QED
  BY <1>3

\* Two of them agree where both are defined.
LEMMA ApproxAgree ==
  ASSUME NEW S, NEW g, NEW a, NEW m \in Nat, NEW n \in Nat,
         NEW h \in Approx(g, a, S, m), NEW k \in Approx(g, a, S, n),
         NEW i \in Nat, i <= m, i <= n
  PROVE  h[i] = k[i]
<1> DEFINE T == {j \in Nat : j <= m /\ j <= n => h[j] = k[j]}
<1>1. 0 \in T
  BY DEF Approx
<1>2. ASSUME NEW j \in Nat, j \in T PROVE j + 1 \in T
  <2> SUFFICES ASSUME j + 1 <= m, j + 1 <= n PROVE h[j+1] = k[j+1]
    OBVIOUS
  <2>1. j + 1 \in 1..m /\ j + 1 \in 1..n /\ (j + 1) - 1 = j
    OBVIOUS
  <2>2. h[j+1] = g[h[j]] /\ k[j+1] = g[k[j]]
    BY <2>1 DEF Approx
  <2> QED
    BY <1>2, <2>1, <2>2
<1>3. Nat \subseteq T
  <2> HIDE DEF T
  <2> QED
    BY <1>1, <1>2, NatInduct
<1> QED
  BY <1>3

\* Some function iterates g from a.
Iterable(g, a, S) ==
  \E f \in [Nat -> S] : f[0] = a /\ \A i \in Nat : i # 0 => f[i] = g[f[i-1]]

\* Every function from a set to itself can be iterated, so that the recursive
\* definition of a function on the naturals has a value.
LEMMA Iterate ==
  ASSUME NEW S, NEW g \in [S -> S], NEW a \in S
  PROVE  Iterable(g, a, S)
<1> DEFINE pick(n) == CHOOSE h : h \in Approx(g, a, S, n)
           f == [i \in Nat |-> pick(i)[i]]
<1>1. ASSUME NEW n \in Nat PROVE pick(n) \in Approx(g, a, S, n)
  BY ApproxExists
<1> HIDE DEF pick
<1>2. f \in [Nat -> S]
  BY <1>1 DEF Approx
<1>3. ASSUME NEW i \in Nat
      PROVE  f[i] = IF i = 0 THEN a ELSE g[f[i-1]]
  <2>1. CASE i = 0
    BY <1>1, <2>1 DEF Approx
  <2>2. CASE i # 0
    <3>1. i - 1 \in Nat /\ i - 1 <= i /\ i \in 1..i
      BY <2>2
    <3>2. pick(i)[i] = g[pick(i)[i-1]]
      BY <1>1, <3>1 DEF Approx
    <3>3. pick(i)[i-1] = pick(i-1)[i-1]
      <4>1. i - 1 <= i - 1
        BY <3>1
      <4> QED
        BY <1>1, <3>1, <4>1, ApproxAgree
    <3>4. f[i-1] = pick(i-1)[i-1] /\ f[i] = pick(i)[i]
      BY <3>1
    <3> QED
      BY <2>2, <3>2, <3>3, <3>4
  <2> QED
    BY <2>1, <2>2
<1> HIDE DEF f
<1>4. f[0] = a /\ \A i \in Nat : i # 0 => f[i] = g[f[i-1]]
  BY <1>3
<1> QED
  BY <1>2, <1>4 DEF Iterable

-----------------------------------------------------------------------------
(* Lists. *)

\* From start on, the links meet the members of C in the order of rank r and
\* then null.
Threads(next, start, null, C, r) ==
  /\ \A s \in C : r[s] \in Int
  /\ \A s, u \in C : r[s] = r[u] => s = u
  /\ start = null => C = {}
  /\ start # null => start \in C /\ \A u \in C : r[start] <= r[u]
  /\ \A s \in C :
       /\ next[s] = null => \A u \in C : r[u] <= r[s]
       /\ next[s] # null => /\ next[s] \in C /\ r[s] < r[next[s]]
                            /\ \A u \in C : r[s] < r[u] => r[next[s]] <= r[u]

\* at follows the links from start.
Follows(at, next, start, null) ==
  at = [i \in Nat |-> IF i = 0 THEN start
                      ELSE IF at[i-1] = null THEN null ELSE next[at[i-1]]]

\* Links within a set and null can be followed.
LEMMA Followed ==
  ASSUME NEW S, NEW null, NEW next \in [S -> S \cup {null}], null \notin S,
         NEW start \in S \cup {null}
  PROVE  \E at : Follows(at, next, start, null)
<1>1. PICK g : g = [s \in S \cup {null} |-> IF s = null THEN null ELSE next[s]]
  OBVIOUS
<1>2. g \in [S \cup {null} -> S \cup {null}]
  BY <1>1
<1>3. PICK f \in [Nat -> S \cup {null}] :
        f[0] = start /\ \A i \in Nat : i # 0 => f[i] = g[f[i-1]]
  <2>1. Iterable(g, start, S \cup {null})
    BY <1>2, Iterate
  <2> QED
    BY <2>1 DEF Iterable
<1>4. ASSUME NEW i \in Nat
      PROVE  f[i] = IF i = 0 THEN start
                    ELSE IF f[i-1] = null THEN null ELSE next[f[i-1]]
  <2>1. CASE i # 0
    <3>1. i - 1 \in Nat
      BY <2>1
    <3>2. f[i] = g[f[i-1]] /\ f[i-1] \in S \cup {null}
      BY <1>3, <2>1, <3>1
    <3> QED
      BY <1>1, <2>1, <3>2
  <2> QED
    BY <1>3, <2>1
<1>5. f = [i \in Nat |-> IF i = 0 THEN start
                         ELSE IF f[i-1] = null THEN null ELSE next[f[i-1]]]
  BY <1>4
<1> QED
  BY <1>5 DEF Follows

\* One step along the links.
LEMMA FollowStep ==
  ASSUME NEW at, NEW next, NEW start, NEW null, Follows(at, next, start, null)
  PROVE  /\ at[0] = start
         /\ \A i \in Nat : at[i+1] = IF at[i] = null THEN null ELSE next[at[i]]
<1>1. \A i \in Nat : at[i] = IF i = 0 THEN start
                             ELSE IF at[i-1] = null THEN null ELSE next[at[i-1]]
  BY DEF Follows
<1>2. ASSUME NEW i \in Nat
      PROVE  at[i+1] = IF at[i] = null THEN null ELSE next[at[i]]
  <2>1. i + 1 \in Nat /\ i + 1 # 0 /\ (i + 1) - 1 = i
    OBVIOUS
  <2> QED
    BY <1>1, <2>1
<1> QED
  BY <1>1, <1>2

\* Only members are met.
LEMMA OnlyMembers ==
  ASSUME NEW at, NEW next, NEW start, NEW null, Follows(at, next, start, null),
         NEW C, NEW r, null \notin C, Threads(next, start, null, C, r)
  PROVE  \A i \in Nat : at[i] \in C \cup {null}
<1> DEFINE T == {i \in Nat : at[i] \in C \cup {null}}
<1>1. 0 \in T
  BY FollowStep DEF Threads
<1>2. ASSUME NEW i \in Nat, i \in T PROVE i + 1 \in T
  <2>1. at[i+1] = IF at[i] = null THEN null ELSE next[at[i]]
    BY FollowStep
  <2> QED
    BY <1>2, <2>1 DEF Threads
<1>3. Nat \subseteq T
  <2> HIDE DEF T
  <2> QED
    BY <1>1, <1>2, NatInduct
<1> QED
  BY <1>3

\* The ranks rise along the links.
LEMMA RanksRise ==
  ASSUME NEW at, NEW next, NEW start, NEW null, Follows(at, next, start, null),
         NEW C, NEW r, null \notin C, Threads(next, start, null, C, r),
         NEW i \in Nat, at[i] # null, NEW j \in Nat, j < i
  PROVE  at[j] # null /\ r[at[j]] < r[at[i]]
<1> DEFINE T == {k \in Nat : at[k] # null =>
                   \A m \in Nat : m < k => at[m] # null /\ r[at[m]] < r[at[k]]}
<1>1. 0 \in T
  OBVIOUS
<1>2. ASSUME NEW k \in Nat, k \in T PROVE k + 1 \in T
  <2> SUFFICES ASSUME at[k+1] # null, NEW m \in Nat, m < k + 1
               PROVE  at[m] # null /\ r[at[m]] < r[at[k+1]]
    OBVIOUS
  <2>1. at[k] # null /\ at[k+1] = next[at[k]]
    BY FollowStep
  <2>2. at[k] \in C /\ at[m] \in C \cup {null}
    BY <2>1, OnlyMembers
  <2>3. at[k+1] \in C /\ r[at[k]] < r[at[k+1]] /\ r[at[k]] \in Int /\ r[at[k+1]] \in Int
    BY <2>1, <2>2 DEF Threads
  <2>4. CASE m = k
    BY <2>1, <2>3, <2>4
  <2>5. CASE m # k
    <3>1. m < k
      BY <2>5
    <3>2. at[m] # null /\ r[at[m]] < r[at[k]]
      BY <1>2, <2>1, <3>1
    <3>3. r[at[m]] \in Int
      BY <2>2, <3>2 DEF Threads
    <3> QED
      BY <2>3, <3>2, <3>3
  <2> QED
    BY <2>4, <2>5
<1>3. Nat \subseteq T
  <2> HIDE DEF T
  <2> QED
    BY <1>1, <1>2, NatInduct
<1> QED
  BY <1>3

\* No n + 1 members of a set of n have rising ranks.
LEMMA NoRise ==
  ASSUME NEW C, IsFiniteSet(C), NEW n \in Nat, Cardinality(C) <= n,
         NEW r, \A s \in C : r[s] \in Int,
         NEW f \in [0..n -> C],
         \A i, j \in 0..n : i < j => r[f[i]] < r[f[j]]
  PROVE  FALSE
<1>1. ASSUME NEW i \in 0..n, NEW j \in 0..n, f[i] = f[j] PROVE i = j
  <2>1. i \in Int /\ j \in Int /\ f[i] \in C /\ f[j] \in C
    OBVIOUS
  <2>2. r[f[i]] \in Int /\ r[f[i]] = r[f[j]]
    BY <1>1, <2>1
  <2>3. ~(r[f[i]] < r[f[j]]) /\ ~(r[f[j]] < r[f[i]])
    BY <2>2
  <2>4. ~(i < j) /\ ~(j < i)
    BY <2>3
  <2> QED
    BY <2>1, <2>4
<1>2. f \in Injection(0..n, C)
  BY <1>1 DEF Injection, IsInjective
<1>3. Cardinality(0..n) <= Cardinality(C)
  BY <1>2, FS_Injection
<1>4. Cardinality(0..n) = n + 1
  BY FS_Interval
<1>5. Cardinality(C) \in Nat
  BY FS_CardinalityType
<1> QED
  BY <1>3, <1>4, <1>5

\* A list of at most n members has ended after n links.
LEMMA ListEnds ==
  ASSUME NEW at, NEW next, NEW start, NEW null, Follows(at, next, start, null),
         NEW C, NEW r, null \notin C, Threads(next, start, null, C, r),
         NEW n \in Nat, IsFiniteSet(C), Cardinality(C) <= n
  PROVE  at[n] = null
<1> SUFFICES ASSUME at[n] # null PROVE FALSE
  OBVIOUS
<1> DEFINE f == [i \in 0..n |-> at[i]]
<1>1. ASSUME NEW i \in 0..n PROVE at[i] # null /\ at[i] \in C
  <2>1. at[i] # null
    BY RanksRise
  <2> QED
    BY <2>1, OnlyMembers
<1>2. f \in [0..n -> C]
  BY <1>1
<1>3. ASSUME NEW i \in 0..n, NEW j \in 0..n, i < j
      PROVE  r[f[i]] < r[f[j]]
  <2>1. r[at[i]] < r[at[j]]
    BY <1>1, <1>3, RanksRise
  <2> QED
    BY <2>1
<1>4. \A s \in C : r[s] \in Int
  BY DEF Threads
<1> HIDE DEF f
<1> QED
  BY <1>2, <1>3, <1>4, NoRise

\* Every member is met before the list ends.
LEMMA AllMembers ==
  ASSUME NEW at, NEW next, NEW start, NEW null, Follows(at, next, start, null),
         NEW C, NEW r, null \notin C, Threads(next, start, null, C, r),
         NEW n \in Nat, at[n] = null, NEW s \in C
  PROVE  \E i \in 0..n : at[i] = s
<1> SUFFICES ASSUME \A i \in 0..n : at[i] # s PROVE FALSE
  OBVIOUS
<1> DEFINE T == {i \in Nat : i <= n => at[i] # null /\ r[at[i]] < r[s]}
<1>1. r[s] \in Int
  BY DEF Threads
<1>2. 0 \in T
  <2>1. at[0] = start /\ start # null /\ start \in C /\ r[start] <= r[s]
    BY FollowStep DEF Threads
  <2>2. at[0] # s
    OBVIOUS
  <2>3. r[start] # r[s] /\ r[start] \in Int
    BY <2>1, <2>2 DEF Threads
  <2> QED
    BY <1>1, <2>1, <2>3
<1>3. ASSUME NEW i \in Nat, i \in T PROVE i + 1 \in T
  <2> SUFFICES ASSUME i + 1 <= n PROVE at[i+1] # null /\ r[at[i+1]] < r[s]
    OBVIOUS
  <2>1. at[i] # null /\ r[at[i]] < r[s]
    BY <1>3
  <2>2. at[i] \in C
    BY <2>1, OnlyMembers
  <2>3. at[i+1] = next[at[i]]
    BY <2>1, FollowStep
  <2>4. r[at[i]] \in Int
    BY <2>2 DEF Threads
  <2>5. next[at[i]] # null
    BY <1>1, <2>1, <2>2, <2>4 DEF Threads
  <2>6. at[i+1] \in C /\ r[at[i+1]] <= r[s] /\ r[at[i+1]] \in Int
    BY <2>1, <2>2, <2>3, <2>5 DEF Threads
  <2>7. at[i+1] # s
    OBVIOUS
  <2>8. r[at[i+1]] # r[s]
    BY <2>6, <2>7 DEF Threads
  <2> QED
    BY <1>1, <2>3, <2>5, <2>6, <2>8
<1>4. Nat \subseteq T
  <2> HIDE DEF T
  <2> QED
    BY <1>2, <1>3, NatInduct
<1>5. n \in T
  BY <1>4
<1> QED
  BY <1>5

-----------------------------------------------------------------------------
(* Changing a list. *)

\* A list depends on its members' links and ranks alone.
LEMMA ThreadsKept ==
  ASSUME NEW next, NEW start, NEW null, NEW C, NEW r,
         Threads(next, start, null, C, r),
         NEW next2, NEW r2, \A s \in C : next2[s] = next[s] /\ r2[s] = r[s]
  PROVE  Threads(next2, start, null, C, r2)
BY DEF Threads

\* Taking off the first member.
LEMMA ThreadsTail ==
  ASSUME NEW next, NEW start, NEW null, NEW C, NEW r, null \notin C,
         Threads(next, start, null, C, r), start # null
  PROVE  Threads(next, next[start], null, C \ {start}, r)
<1> DEFINE D == C \ {start}
<1>1. start \in C /\ \A u \in C : r[u] \in Int /\ r[start] <= r[u]
  BY DEF Threads
<1>2. \A u \in D : r[start] < r[u]
  <2> SUFFICES ASSUME NEW u \in D PROVE r[start] < r[u]
    OBVIOUS
  <2>1. r[start] # r[u]
    BY <1>1 DEF Threads
  <2> QED
    BY <1>1, <2>1
<1>3. next[start] = null => D = {}
  <2> SUFFICES ASSUME next[start] = null, NEW u \in D PROVE FALSE
    OBVIOUS
  <2>1. r[u] <= r[start]
    BY <1>1 DEF Threads
  <2> QED
    BY <1>1, <1>2, <2>1
<1>4. next[start] # null => /\ next[start] \in D
                            /\ \A u \in D : r[next[start]] <= r[u]
  BY <1>1, <1>2 DEF Threads
<1>5. \A s \in D : next[s] # null => next[s] \in D
  BY <1>1, <1>2 DEF Threads
<1> QED
  BY <1>3, <1>4, <1>5 DEF Threads

\* Taking out the member t behind prev.
LEMMA ThreadsUnlink ==
  ASSUME NEW next, NEW start, NEW null, NEW C, NEW r, null \notin C,
         Threads(next, start, null, C, r),
         NEW t \in C, NEW prev \in C, next[prev] = t,
         NEW next2, next2[prev] = next[t],
         \A s \in C \ {prev, t} : next2[s] = next[s]
  PROVE  Threads(next2, start, null, C \ {t}, r)
<1> DEFINE D == C \ {t}
<1>1. \A u \in C : r[u] \in Int
  BY DEF Threads
<1>2. r[prev] < r[t] /\ \A u \in C : r[prev] < r[u] => r[t] <= r[u]
  BY DEF Threads
<1>3. start # t /\ start # null /\ start \in D
  <2>1. start # null /\ start \in C /\ r[start] <= r[prev]
    BY DEF Threads
  <2> QED
    BY <1>1, <1>2, <2>1
<1>4. ASSUME NEW s \in D, s # prev
      PROVE  /\ next2[s] = next[s]
             /\ next[s] # t
  <2>1. next2[s] = next[s]
    BY <1>4
  <2>2. ASSUME next[s] = t PROVE FALSE
    <3>1. r[s] < r[t] /\ \A u \in C : r[s] < r[u] => r[t] <= r[u]
      BY <2>2 DEF Threads
    <3>2. ~(r[s] < r[prev]) /\ ~(r[prev] < r[s])
      BY <1>1, <1>2, <3>1
    <3>3. r[s] = r[prev]
      BY <1>1, <3>2
    <3> QED
      BY <1>4, <3>3 DEF Threads
  <2> QED
    BY <2>1, <2>2
<1>5. prev \in D
  BY <1>1, <1>2
<1>6. ASSUME NEW s \in D
      PROVE  /\ next2[s] = null => \A u \in D : r[u] <= r[s]
             /\ next2[s] # null =>
                  /\ next2[s] \in D /\ r[s] < r[next2[s]]
                  /\ \A u \in D : r[s] < r[u] => r[next2[s]] <= r[u]
  <2>1. CASE s # prev
    BY <1>4, <2>1 DEF Threads
  <2>2. CASE s = prev
    <3>1. next2[s] = next[t]
      BY <2>2
    <3>2. CASE next[t] = null
      <4>1. \A u \in C : r[u] <= r[t]
        BY <3>2 DEF Threads
      <4>2. ASSUME NEW u \in D PROVE r[u] <= r[s]
        <5>1. r[u] # r[t] /\ r[u] <= r[t] /\ r[u] \in Int /\ r[t] \in Int /\ r[prev] \in Int
          BY <1>1, <4>1 DEF Threads
        <5> QED
          BY <1>2, <2>2, <5>1
      <4> QED
        BY <3>1, <3>2, <4>2
    <3>3. CASE next[t] # null
      <4>1. /\ next[t] \in C /\ r[t] < r[next[t]]
            /\ \A u \in C : r[t] < r[u] => r[next[t]] <= r[u]
        BY <3>3 DEF Threads
      <4>2. next[t] \in D /\ r[s] < r[next[t]]
        BY <1>1, <1>2, <2>2, <4>1
      <4>3. ASSUME NEW u \in D, r[s] < r[u] PROVE r[next[t]] <= r[u]
        <5>1. r[t] <= r[u]
          BY <1>2, <2>2, <4>3
        <5>2. r[t] # r[u]
          BY DEF Threads
        <5>3. r[t] < r[u]
          BY <1>1, <5>1, <5>2
        <5> QED
          BY <4>1, <5>3
      <4> QED
        BY <3>1, <3>3, <4>2, <4>3
    <3> QED
      BY <3>2, <3>3
  <2> QED
    BY <2>1, <2>2
<1>7. \A u \in D : r[start] <= r[u]
  BY <1>3 DEF Threads
<1>8. \A s, u \in D : r[s] = r[u] => s = u
  BY DEF Threads
<1> QED
  BY <1>1, <1>3, <1>6, <1>7, <1>8 DEF Threads

\* A new first member.
LEMMA ThreadsPush ==
  ASSUME NEW next, NEW start, NEW null, NEW C, NEW r, null \notin C,
         Threads(next, start, null, C, r),
         NEW x, x \notin C, x # null,
         NEW next2, next2[x] = start, \A s \in C : next2[s] = next[s],
         NEW r2, \A s \in C : r2[s] = r[s] /\ r2[x] < r[s], r2[x] \in Int
  PROVE  Threads(next2, x, null, C \cup {x}, r2)
<1> DEFINE D == C \cup {x}
<1>1. \A u \in C : r2[u] = r[u] /\ r2[u] \in Int /\ r2[x] < r2[u] /\ next2[u] = next[u]
  BY DEF Threads
<1>2. \A s, u \in D : r2[s] = r2[u] => s = u
  <2> SUFFICES ASSUME NEW s \in D, NEW u \in D, r2[s] = r2[u] PROVE s = u
    OBVIOUS
  <2>1. CASE s \in C /\ u \in C
    BY <1>1, <2>1 DEF Threads
  <2>2. CASE s = x \/ u = x
    BY <1>1, <2>2
  <2> QED
    BY <2>1, <2>2
<1>3. \A u \in D : r2[x] <= r2[u] /\ r2[u] \in Int
  BY <1>1
<1>4. ASSUME NEW s \in C
      PROVE  /\ next2[s] = null => \A u \in D : r2[u] <= r2[s]
             /\ next2[s] # null =>
                  /\ next2[s] \in D /\ r2[s] < r2[next2[s]]
                  /\ \A u \in D : r2[s] < r2[u] => r2[next2[s]] <= r2[u]
  <2>1. next2[s] = next[s] /\ r2[s] = r[s] /\ r2[x] < r2[s]
    BY <1>1
  <2>2. CASE next[s] = null
    <3>1. \A u \in C : r[u] <= r[s]
      BY <2>2 DEF Threads
    <3> QED
      BY <1>1, <2>1, <2>2, <3>1
  <2>3. CASE next[s] # null
    <3>1. /\ next[s] \in C /\ r[s] < r[next[s]]
          /\ \A u \in C : r[s] < r[u] => r[next[s]] <= r[u]
      BY <2>3 DEF Threads
    <3> QED
      BY <1>1, <2>1, <2>3, <3>1
  <2> QED
    BY <2>2, <2>3
<1>5. /\ next2[x] = null => \A u \in D : r2[u] <= r2[x]
      /\ next2[x] # null =>
           /\ next2[x] \in D /\ r2[x] < r2[next2[x]]
           /\ \A u \in D : r2[x] < r2[u] => r2[next2[x]] <= r2[u]
  BY <1>1 DEF Threads
<1> QED
  BY <1>2, <1>3, <1>4, <1>5 DEF Threads

\* The ranks of C doubled, to make room for x right behind spot.
RankedBehind(r2, r, C, spot, x) ==
  (\A s \in C : r2[s] = 2 * r[s]) /\ r2[x] = 2 * r[spot] + 1

\* A new member behind spot.
LEMMA ThreadsInsert ==
  ASSUME NEW next, NEW start, NEW null, NEW C, NEW r, null \notin C,
         Threads(next, start, null, C, r), NEW spot \in C,
         NEW x, x \notin C, x # null,
         NEW next2, next2[x] = next[spot], next2[spot] = x,
         \A s \in C \ {spot} : next2[s] = next[s],
         NEW r2, RankedBehind(r2, r, C, spot, x)
  PROVE  Threads(next2, start, null, C \cup {x}, r2)
<1> DEFINE D == C \cup {x}
<1>1. /\ \A u \in C : r[u] \in Int /\ r2[u] = 2 * r[u]
      /\ r2[x] = 2 * r[spot] + 1
  BY DEF Threads, RankedBehind
<1>2. \A u \in D : r2[u] \in Int
  BY <1>1
<1>3. \A s, u \in C : /\ r2[s] = r2[u] <=> r[s] = r[u]
                      /\ r2[s] < r2[u] <=> r[s] < r[u]
                      /\ r2[s] <= r2[u] <=> r[s] <= r[u]
  BY <1>1
<1>4. \A s \in C : /\ r2[s] # r2[x]
                   /\ r2[s] < r2[x] <=> r[s] <= r[spot]
                   /\ r2[s] <= r2[x] <=> r[s] <= r[spot]
                   /\ r2[x] < r2[s] <=> r[spot] < r[s]
                   /\ r2[x] <= r2[s] <=> r[spot] < r[s]
  BY <1>1
<1>5. \A s, u \in D : r2[s] = r2[u] => s = u
  <2>1. \A s, u \in C : r[s] = r[u] => s = u
    BY DEF Threads
  <2> QED
    BY <1>3, <1>4, <2>1
<1>6. start # null /\ start \in D /\ \A u \in D : r2[start] <= r2[u]
  <2>1. start # null /\ start \in C /\ \A u \in C : r[start] <= r[u]
    BY DEF Threads
  <2> QED
    BY <1>3, <1>4, <2>1
<1>7. ASSUME NEW s \in D
      PROVE  /\ next2[s] = null => \A u \in D : r2[u] <= r2[s]
             /\ next2[s] # null =>
                  /\ next2[s] \in D /\ r2[s] < r2[next2[s]]
                  /\ \A u \in D : r2[s] < r2[u] => r2[next2[s]] <= r2[u]
  <2>1. CASE s = spot
    <3>1. next2[s] = x /\ x # null /\ r2[s] < r2[x]
      BY <1>1, <1>4, <2>1
    <3>2. ASSUME NEW u \in D, r2[s] < r2[u] PROVE r2[x] <= r2[u]
      BY <1>1, <1>2, <1>3, <1>4, <2>1, <3>2
    <3> QED
      BY <3>1, <3>2
  <2>2. CASE s = x
    <3>1. next2[s] = next[spot]
      BY <2>2
    <3>2. CASE next[spot] = null
      <4>1. \A u \in C : r[u] <= r[spot]
        BY <3>2 DEF Threads
      <4> QED
        BY <1>2, <1>4, <2>2, <3>1, <3>2, <4>1
    <3>3. CASE next[spot] # null
      <4>1. /\ next[spot] \in C /\ r[spot] < r[next[spot]]
            /\ \A u \in C : r[spot] < r[u] => r[next[spot]] <= r[u]
        BY <3>3 DEF Threads
      <4> QED
        BY <1>2, <1>3, <1>4, <2>2, <3>1, <3>3, <4>1
    <3> QED
      BY <3>2, <3>3
  <2>3. CASE s # spot /\ s # x
    <3>1. next2[s] = next[s] /\ s \in C
      BY <2>3
    <3>2. r[s] # r[spot]
      BY <2>3, <3>1 DEF Threads
    <3>3. CASE next[s] = null
      <4>1. \A u \in C : r[u] <= r[s]
        BY <3>1, <3>3 DEF Threads
      <4>2. r[spot] < r[s]
        BY <1>1, <3>1, <3>2, <4>1
      <4> QED
        BY <1>3, <1>4, <3>1, <3>3, <4>1, <4>2
    <3>4. CASE next[s] # null
      <4>1. /\ next[s] \in C /\ r[s] < r[next[s]]
            /\ \A u \in C : r[s] < r[u] => r[next[s]] <= r[u]
        BY <3>1, <3>4 DEF Threads
      <4>2. r[s] < r[spot] => r[next[s]] <= r[spot]
        BY <4>1
      <4>3. ASSUME NEW u \in D, r2[s] < r2[u] PROVE r2[next[s]] <= r2[u]
        <5>1. CASE u = x
          <6>1. r[s] <= r[spot]
            BY <1>4, <3>1, <4>3, <5>1
          <6>2. r[s] < r[spot]
            BY <1>1, <3>1, <3>2, <6>1
          <6> QED
            BY <1>4, <4>1, <4>2, <5>1, <6>2
        <5>2. CASE u # x
          BY <1>3, <3>1, <4>1, <4>3, <5>2
        <5> QED
          BY <5>1, <5>2
      <4> QED
        BY <1>3, <3>1, <3>4, <4>1, <4>3
    <3> QED
      BY <3>3, <3>4
  <2> QED
    BY <2>1, <2>2, <2>3
<1> QED
  BY <1>2, <1>5, <1>6, <1>7 DEF Threads

\* Linking the end of one list to the start of another one.
LEMMA ThreadsConcat ==
  ASSUME NEW next, NEW start, NEW null, NEW C, NEW r, null \notin C,
         Threads(next, start, null, C, r),
         NEW tail \in C, next[tail] = null,
         NEW next2, NEW start2, NEW D, null \notin D, start2 # null,
         Threads(next2, start2, null, D, r),
         C \cap D = {}, \A u \in C, v \in D : r[u] < r[v],
         NEW next3, next3[tail] = start2,
         \A s \in C \ {tail} : next3[s] = next[s],
         \A s \in D : next3[s] = next2[s]
  PROVE  Threads(next3, start, null, C \cup D, r)
<1> DEFINE E == C \cup D
<1>1. \A u \in E : r[u] \in Int
  BY DEF Threads
<1>2. \A s, u \in E : r[s] = r[u] => s = u
  <2> SUFFICES ASSUME NEW s \in E, NEW u \in E, r[s] = r[u] PROVE s = u
    OBVIOUS
  <2>1. CASE s \in C /\ u \in C
    BY <2>1 DEF Threads
  <2>2. CASE s \in D /\ u \in D
    BY <2>2 DEF Threads
  <2>3. CASE s \in C /\ u \in D
    BY <1>1, <2>3
  <2>4. CASE s \in D /\ u \in C
    BY <1>1, <2>4
  <2> QED
    BY <2>1, <2>2, <2>3, <2>4
<1>3. start # null /\ start \in E /\ \A u \in E : r[start] <= r[u]
  <2>1. start # null /\ start \in C /\ \A u \in C : r[start] <= r[u]
    BY DEF Threads
  <2>2. \A u \in D : r[start] < r[u]
    BY <2>1
  <2> QED
    BY <1>1, <2>1, <2>2
<1>4. \A u \in C : r[u] <= r[tail]
  BY DEF Threads
<1>5. start2 \in D /\ \A v \in D : r[start2] <= r[v]
  BY DEF Threads
<1>6. ASSUME NEW s \in E
      PROVE  /\ next3[s] = null => \A u \in E : r[u] <= r[s]
             /\ next3[s] # null =>
                  /\ next3[s] \in E /\ r[s] < r[next3[s]]
                  /\ \A u \in E : r[s] < r[u] => r[next3[s]] <= r[u]
  <2>1. CASE s = tail
    <3>1. ASSUME NEW u \in E, r[tail] < r[u] PROVE r[start2] <= r[u]
      BY <1>1, <1>4, <1>5, <3>1
    <3> QED
      BY <1>5, <2>1, <3>1
  <2>2. CASE s \in C /\ s # tail
    <3>1. next3[s] = next[s]
      BY <2>2
    <3>2. next[s] # null
      <4>1. r[s] # r[tail] /\ r[s] <= r[tail]
        BY <1>2, <1>4, <2>2
      <4>2. ~(r[tail] <= r[s])
        BY <1>1, <4>1
      <4> QED
        BY <2>2, <4>2 DEF Threads
    <3>3. /\ next[s] \in C /\ r[s] < r[next[s]]
          /\ \A u \in C : r[s] < r[u] => r[next[s]] <= r[u]
      BY <2>2, <3>2 DEF Threads
    <3>4. \A u \in D : r[next[s]] <= r[u]
      BY <1>1, <3>3
    <3> QED
      BY <3>1, <3>2, <3>3, <3>4
  <2>3. CASE s \in D
    <3>1. next3[s] = next2[s]
      BY <2>3
    <3>2. \A u \in C : r[u] <= r[s] /\ ~(r[s] < r[u])
      BY <1>1, <2>3
    <3>3. CASE next2[s] = null
      <4>1. \A u \in D : r[u] <= r[s]
        BY <2>3, <3>3 DEF Threads
      <4> QED
        BY <3>1, <3>2, <3>3, <4>1
    <3>4. CASE next2[s] # null
      <4>1. /\ next2[s] \in D /\ r[s] < r[next2[s]]
            /\ \A u \in D : r[s] < r[u] => r[next2[s]] <= r[u]
        BY <2>3, <3>4 DEF Threads
      <4> QED
        BY <3>1, <3>2, <3>4, <4>1
    <3> QED
      BY <3>3, <3>4
  <2> QED
    BY <2>1, <2>2, <2>3
<1> QED
  BY <1>1, <1>2, <1>3, <1>6 DEF Threads

\* A new member at the end.
LEMMA ThreadsAppend ==
  ASSUME NEW next, NEW start, NEW null, NEW C, NEW r, null \notin C,
         Threads(next, start, null, C, r), NEW tail \in C, next[tail] = null,
         NEW x, x \notin C, x # null,
         NEW next2, next2[tail] = x, next2[x] = null,
         \A s \in C \ {tail} : next2[s] = next[s],
         NEW r2, r2[x] \in Int, r[tail] < r2[x], \A s \in C : r2[s] = r[s]
  PROVE  Threads(next2, start, null, C \cup {x}, r2)
<1>1. Threads(next, start, null, C, r2)
  BY ThreadsKept
<1>2. Threads(next2, x, null, {x}, r2)
  BY DEF Threads
<1>3. \A u \in C, v \in {x} : r2[u] < r2[v]
  <2>1. \A u \in C : r[u] <= r[tail] /\ r[u] \in Int /\ r[tail] \in Int
    BY DEF Threads
  <2> QED
    BY <2>1
<1>4. C \cap {x} = {} /\ null \notin {x} /\ \A s \in {x} : next2[s] = next2[s]
  OBVIOUS
<1> QED
  BY <1>1, <1>2, <1>3, <1>4, ThreadsConcat

\* Every member but the first has exactly one in front of it.
LEMMA OneBefore ==
  ASSUME NEW at, NEW next, NEW start, NEW null, Follows(at, next, start, null),
         NEW C, NEW r, null \notin C, Threads(next, start, null, C, r),
         NEW n \in Nat, at[n] = null, NEW t \in C, t # start
  PROVE  \E prev \in C : /\ next[prev] = t
                         /\ \A s \in C : next[s] = t => s = prev
<1>1. PICK i \in 0..n : at[i] = t
  BY AllMembers
<1>2. at[0] = start /\ t # null
  BY FollowStep
<1>3. i - 1 \in Nat /\ (i - 1) + 1 = i
  BY <1>1, <1>2
<1>4. at[i] = IF at[i-1] = null THEN null ELSE next[at[i-1]]
  <2>1. \A k \in Nat : at[k+1] = IF at[k] = null THEN null ELSE next[at[k]]
    BY FollowStep
  <2> QED
    BY <1>3, <2>1
<1>5. at[i-1] \in C
  BY <1>1, <1>2, <1>3, <1>4, OnlyMembers
<1>6. next[at[i-1]] = t
  BY <1>1, <1>2, <1>4
<1>7. ASSUME NEW s \in C, NEW u \in C, next[s] = t, next[u] = t PROVE s = u
  <2>1. /\ r[s] \in Int /\ r[u] \in Int /\ r[t] \in Int
        /\ r[s] < r[t] /\ r[u] < r[t]
        /\ r[s] < r[u] => r[t] <= r[u]
        /\ r[u] < r[s] => r[t] <= r[s]
    BY <1>2, <1>7 DEF Threads
  <2>2. r[s] = r[u]
    BY <2>1
  <2> QED
    BY <2>2 DEF Threads
<1> QED
  BY <1>5, <1>6, <1>7

\* The walk over a finite list has as many steps as the list has members, and
\* ends at the one linked to null.
LEMMA WalkLength ==
  ASSUME NEW at, NEW next, NEW start, NEW null, Follows(at, next, start, null),
         NEW C, NEW r, null \notin C, Threads(next, start, null, C, r),
         NEW n \in Nat, IsFiniteSet(C), Cardinality(C) <= n
  PROVE  \E m \in 0..n :
           /\ {i \in 0..n : at[i] # null} = 0..m-1
           /\ Cardinality(0..m-1) = m
           /\ {at[i-1] : i \in 1..m} = C /\ Cardinality(C) = m
           /\ m # 0 => at[m-1] \in C /\ next[at[m-1]] = null
<1>1. at[n] = null
  BY ListEnds
<1>2. PICK m \in Nat : at[m] = null /\ \A k \in Nat : k < m => at[k] # null
  <2> DEFINE S == {k \in Nat : at[k] = null}
  <2>1. S \subseteq Nat /\ S # {}
    BY <1>1
  <2>2. PICK x \in S : \A y \in S : x <= y
    <3> HIDE DEF S
    <3> QED
      BY <2>1, LeastNat
  <2>3. ASSUME NEW k \in Nat, k < x PROVE at[k] # null
    BY <2>2, <2>3
  <2> QED
    BY <2>2, <2>3
<1>3. m \in 0..n
  BY <1>1, <1>2
<1>4. ASSUME NEW i \in 0..n, at[i] # null PROVE i \in 0..m-1
  <2> SUFFICES ASSUME m <= i PROVE FALSE
    BY <1>2
  <2>1. m < i
    BY <1>2, <1>4
  <2> QED
    BY <1>2, <1>4, <2>1, RanksRise
<1>5. {i \in 0..n : at[i] # null} = 0..m-1
  BY <1>2, <1>3, <1>4
<1>6. IsFiniteSet(0..m-1) /\ Cardinality(0..m-1) = m
  BY <1>2, FS_Interval
<1>7. \A i \in 1..m : i - 1 \in Nat /\ i - 1 < m /\ at[i-1] \in C
  <2>1. \A k \in Nat : at[k] \in C \cup {null}
    BY OnlyMembers
  <2> QED
    BY <1>2, <2>1
<1>8. ASSUME NEW s \in C PROVE \E i \in 1..m : at[i-1] = s
  <2>1. PICK k \in 0..m : at[k] = s
    BY <1>2, AllMembers
  <2>2. k # m
    BY <1>2, <2>1
  <2>3. k + 1 \in 1..m /\ (k + 1) - 1 = k
    BY <1>2, <2>2
  <2> QED
    BY <2>1, <2>3
<1>9. {at[i-1] : i \in 1..m} = C
  BY <1>7, <1>8
<1>10. Cardinality(C) = m
  <2> DEFINE f == [k \in 0..m-1 |-> at[k]]
  <2>1. \A k \in 0..m-1 : k \in Nat /\ k + 1 \in 1..m /\ at[k] \in C
    <3>1. \A k \in Nat : at[k] \in C \cup {null}
      BY OnlyMembers
    <3> QED
      BY <1>2, <3>1
  <2>2. ASSUME NEW k \in 0..m-1, NEW j \in 0..m-1, f[k] = f[j] PROVE k = j
    <3>1. ASSUME NEW x \in 0..m-1, NEW y \in 0..m-1, x < y PROVE at[x] # at[y]
      <4>1. r[at[x]] < r[at[y]] /\ r[at[x]] \in Int
        <5>1. x \in Nat /\ y \in Nat /\ at[y] # null /\ at[x] \in C
          BY <2>1
        <5> QED
          BY <3>1, <5>1, RanksRise DEF Threads
      <4> QED
        BY <4>1
    <3> QED
      BY <2>2, <3>1
  <2>3. \A s \in C : \E k \in 0..m-1 : f[k] = s
    <3> SUFFICES ASSUME NEW s \in C PROVE \E k \in 0..m-1 : f[k] = s
      OBVIOUS
    <3>1. PICK i \in 1..m : at[i-1] = s
      BY <1>8
    <3>2. i - 1 \in 0..m-1
      BY <1>2
    <3> QED
      BY <3>1, <3>2
  <2>4. f \in [0..m-1 -> C]
    BY <2>1
  <2> HIDE DEF f
  <2>6. f \in Bijection(0..m-1, C)
    BY <2>2, <2>3, <2>4 DEF Bijection, Injection, IsInjective, Surjection
  <2>5. ExistsBijection(0..m-1, C)
    BY <2>6 DEF ExistsBijection
  <2> QED
    BY <1>6, <2>5, FS_Bijection
<1>11. m # 0 => at[m-1] \in C /\ next[at[m-1]] = null
  <2> SUFFICES ASSUME m # 0 PROVE at[m-1] \in C /\ next[at[m-1]] = null
    OBVIOUS
  <2>1. m \in 1..m /\ m - 1 \in Nat /\ (m - 1) + 1 = m
    BY <1>2
  <2>2. \A k \in Nat : at[k+1] = IF at[k] = null THEN null ELSE next[at[k]]
    BY FollowStep
  <2> QED
    BY <1>2, <1>7, <2>1, <2>2
<1> QED
  BY <1>3, <1>5, <1>6, <1>9, <1>10, <1>11

=============================================================================
