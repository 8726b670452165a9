---------------------------- MODULE MemoryProofs ----------------------------
(***************************************************************************)
(* kmalloc, called with interrupts off and without releases, never gives   *)
(* out memory that is in use, for every layout and every sequence of       *)
(* requests.  With releases the same holds up to the first split of a      *)
(* chunk that has something behind it or the first merge to the left, and  *)
(* fails afterwards: TLC has the counterexample.                           *)
(*                                                                         *)
(* The argument is about a set F of free chunks, the ones kmalloc can      *)
(* still reach.  Linked: prev and next thread F in the order of addresses, *)
(* so that taking a chunk leaves no pointer to it behind.  Apart: every    *)
(* chunk and every block ends, by the size in its header, before the next  *)
(* one starts.  Bounded: a chunk reaches past the end of its region by at  *)
(* most one header per call of kmalloc, which is why the hole must be      *)
(* large enough for all of them.  Open, without releases: every chunk is   *)
(* the last of its region, so that what it grows by is nobody's.           *)
(***************************************************************************)
EXTENDS Memory, TLAPS

\* The kernel's own use of the heap: one call at a time, requests that do not
\* wrap, and room for the headers that splits do not pay for.
KernelUse(k) ==
  /\ Callers = {k}
  /\ \A size \in Sizes : size + 2 * HDR <= WORD
  /\ HOLESTART + HDR * MaxMallocs < HOLEEND
  /\ maxaddr + HDR * MaxMallocs < WORD

Headers == [Cells -> [size : Nat, prev : Nat, next : Nat, sanityCheck : Nat]]

-----------------------------------------------------------------------------
(* Arithmetic. *)

LEMMA SmallMod ==
  ASSUME NEW m \in Nat, NEW x \in 0..m-1
  PROVE  x % m = x
<1>1. m > 0
  OBVIOUS
<1>2. x = m * (x \div m) + (x % m) /\ x % m \in 0..m-1 /\ x \div m \in Int
  BY <1>1
<1>3. PICK q \in Int : x = m * q + (x % m)
  BY <1>2
<1> DEFINE r == x % m
<1>4. r \in 0..m-1 /\ x = m * q + r
  BY <1>2, <1>3
<1> HIDE DEF r
<1>5. q = 0
  <2>1. ASSUME q >= 1 PROVE FALSE
    <3>1. m * q >= m
      BY <2>1, <1>1
    <3> QED BY <3>1, <1>4
  <2>2. ASSUME q <= -1 PROVE FALSE
    <3>1. m * q <= -m
      BY <2>2, <1>1
    <3> QED BY <3>1, <1>4
  <2> QED BY <2>1, <2>2
<1>6. m * q = 0
  BY <1>5
<1>7. x = r
  BY <1>4, <1>6
<1> QED BY <1>7 DEF r

\* A request that is two headers short of the word size is aligned without
\* a wrap.
LEMMA AlignedSmall ==
  ASSUME NEW n \in Nat, n + 2 * HDR <= WORD, WORD \in Nat
  PROVE  /\ Aligned(n) \in Nat /\ Aligned(n) % 16 = 0
         /\ Aligned(n) + HDR < WORD
<1>1. CASE n % 16 = 0
  BY <1>1 DEF Aligned, HDR
<1>2. CASE n % 16 # 0
  <2> DEFINE a == n + 16 - (n % 16)
  <2>1. a \in 0..WORD-1 /\ a % 16 = 0 /\ a + HDR < WORD
    BY <1>2 DEF HDR
  <2>2. a % WORD = a
    BY <2>1, SmallMod
  <2> QED BY <1>2, <2>1, <2>2 DEF Aligned
<1> QED BY <1>1, <1>2

\* The layout of the heap, as the assumption and the alignment give it.
LEMMA Layout ==
  /\ Start \in Nat /\ Start % 16 = 0 /\ Start > 0
  /\ HOLESTART \in Nat /\ HOLEEND \in Nat /\ maxaddr \in Nat /\ WORD \in Nat
  /\ HOLESTART % 16 = 0 /\ HOLEEND % 16 = 0
  /\ Start + HDR <= HOLESTART /\ HOLESTART < HOLEEND /\ HOLEEND + HDR <= maxaddr
  /\ maxaddr < WORD /\ MaxMallocs \in Nat
<1>1. freemem \in Nat /\ freemem + 2 * HDR <= WORD
  <2>1. freemem <= Start /\ Start + HDR <= HOLESTART
    BY LayoutAssumption
  <2>2. Start \in Int
    BY LayoutAssumption DEF Start, Aligned
  <2> QED BY <2>1, <2>2, LayoutAssumption DEF HDR
<1>2. Start \in Nat /\ Start % 16 = 0
  BY <1>1, AlignedSmall, LayoutAssumption DEF Start
<1> QED BY <1>1, <1>2, LayoutAssumption

\* A cell is an aligned address of one of the regions.
LEMMA CellFacts ==
  ASSUME NEW x \in Cells
  PROVE  /\ x \in Nat /\ x > 0 /\ x # NULL /\ x % 16 = 0 /\ x >= Start
         /\ x < HOLESTART \/ x >= HOLEEND
         /\ x + HDR <= maxaddr + 1
BY Layout DEF Cells, HDR, NULL

\* No cell is at address 0.
LEMMA NoNullCell == NULL \notin Cells
BY Layout DEF Cells, NULL

-----------------------------------------------------------------------------
(* What each kind of store does to each cell. *)

LEMMA Complete ==
  ASSUME NEW H \in Headers, NEW a \in Cells, NEW size \in Nat, NEW prev \in Nat,
         NEW next \in Nat
  PROVE  /\ CompleteHeader(H, a, size, prev, next) \in Headers
         /\ CompleteHeader(H, a, size, prev, next)[a] = Header(size, prev, next)
         /\ \A x \in Cells : x # a =>
              CompleteHeader(H, a, size, prev, next)[x] = H[x]
<1>1. Header(size, prev, next) \in [size : Nat, prev : Nat, next : Nat, sanityCheck : Nat]
  BY DEF Header, HDR
<1> QED BY <1>1 DEF CompleteHeader, Headers

\* Storing a size leaves the links of the header and all other headers.
LEMMA Resize ==
  ASSUME NEW H \in Headers, NEW a \in Cells, NEW size \in Nat
  PROVE  /\ SetSize(H, a, size) \in Headers
         /\ SetSize(H, a, size)[a] = Header(size, H[a].prev, H[a].next)
         /\ \A x \in Cells : x # a => SetSize(H, a, size)[x] = H[x]
<1>1. H[a].prev \in Nat /\ H[a].next \in Nat
  BY DEF Headers
<1>2. Header(size, H[a].prev, H[a].next)
        \in [size : Nat, prev : Nat, next : Nat, sanityCheck : Nat]
  BY <1>1 DEF Header, HDR
<1> QED BY <1>2 DEF SetSize, Headers

\* Storing prev, also through a pointer that leads to no cell.
LEMMA Prev ==
  ASSUME NEW H \in Headers, NEW a, NEW prev \in Nat
  PROVE  /\ SetPrev(H, a, prev) \in Headers
         /\ \A x \in Cells :
              /\ SetPrev(H, a, prev)[x].size = H[x].size
              /\ SetPrev(H, a, prev)[x].next = H[x].next
              /\ SetPrev(H, a, prev)[x].prev = IF x = a THEN prev ELSE H[x].prev
BY DEF SetPrev, Headers

\* Storing next, also through a pointer that leads to no cell.
LEMMA Next ==
  ASSUME NEW H \in Headers, NEW a, NEW next \in Nat
  PROVE  /\ SetNext(H, a, next) \in Headers
         /\ \A x \in Cells :
              /\ SetNext(H, a, next)[x].size = H[x].size
              /\ SetNext(H, a, next)[x].prev = H[x].prev
              /\ SetNext(H, a, next)[x].next = IF x = a THEN next ELSE H[x].next
BY DEF SetNext, Headers

-----------------------------------------------------------------------------
(* The free list. *)

\* prev and next lead to the nearest chunks of F below and above, and are
\* NULL where there is none.
Linked(F, H) ==
  /\ \A x \in F : H[x].next # NULL =>
       H[x].next \in F /\ x < H[x].next /\ H[H[x].next].prev = x
  /\ \A x \in F : H[x].prev # NULL =>
       H[x].prev \in F /\ H[x].prev < x /\ H[H[x].prev].next = x
  /\ \A x, y \in F : x < y => H[x].next # NULL /\ H[x].next <= y

\* n takes the place of c, between the same neighbours.
LEMMA Replace ==
  ASSUME NEW F \in SUBSET Cells, NEW H \in Headers, NEW G \in Headers,
         NEW c \in F, NEW n \in Cells, Linked(F, H), n \notin F,
         \A y \in F \ {c} : y < c <=> y < n,
         G[n].next = H[c].next, G[n].prev = H[c].prev,
         \A x \in F \ {c} :
           /\ G[x].next = IF x = H[c].prev THEN n ELSE H[x].next
           /\ G[x].prev = IF x = H[c].next THEN n ELSE H[x].prev
  PROVE  Linked((F \ {c}) \cup {n}, G)
<1> DEFINE E == (F \ {c}) \cup {n}
<1>1. \A x \in F : x \in Nat /\ x # NULL /\ H[x].next \in Nat /\ H[x].prev \in Nat
  BY CellFacts DEF Headers
<1>2. n \in Nat /\ n # NULL
  BY CellFacts
<1>3. \A x \in E : G[x].next # NULL =>
        G[x].next \in E /\ x < G[x].next /\ G[G[x].next].prev = x
  BY <1>1, <1>2 DEF Linked
<1>4. \A x \in E : G[x].prev # NULL =>
        G[x].prev \in E /\ G[x].prev < x /\ G[G[x].prev].next = x
  BY <1>1, <1>2 DEF Linked
<1>5. ASSUME NEW x \in E, NEW y \in E, x < y
      PROVE  G[x].next # NULL /\ G[x].next <= y
  <2>1. CASE x = n
    BY <1>1, <1>2, <1>5, <2>1 DEF Linked
  <2>2. CASE x # n /\ y = n
    BY <1>1, <1>2, <1>5, <2>2 DEF Linked
  <2>3. CASE x # n /\ y # n
    BY <1>1, <1>2, <1>5, <2>3 DEF Linked
  <2> QED BY <2>1, <2>2, <2>3
<1> QED BY <1>3, <1>4, <1>5 DEF Linked

\* n is inserted behind c.
LEMMA InsertAfterChunk ==
  ASSUME NEW F \in SUBSET Cells, NEW H \in Headers, NEW G \in Headers,
         NEW c \in F, NEW n \in Cells, Linked(F, H), n \notin F,
         c < n, H[c].next = NULL \/ n < H[c].next,
         G[n].next = H[c].next, G[n].prev = c,
         \A x \in F :
           /\ G[x].next = IF x = c THEN n ELSE H[x].next
           /\ G[x].prev = IF x = H[c].next THEN n ELSE H[x].prev
  PROVE  Linked(F \cup {n}, G)
<1> DEFINE E == F \cup {n}
<1>1. \A x \in F : x \in Nat /\ x # NULL /\ H[x].next \in Nat /\ H[x].prev \in Nat
  BY CellFacts DEF Headers
<1>2. n \in Nat /\ n # NULL
  BY CellFacts
<1>3. \A x \in E : G[x].next # NULL =>
        G[x].next \in E /\ x < G[x].next /\ G[G[x].next].prev = x
  BY <1>1, <1>2 DEF Linked
<1>4. \A x \in E : G[x].prev # NULL =>
        G[x].prev \in E /\ G[x].prev < x /\ G[G[x].prev].next = x
  BY <1>1, <1>2 DEF Linked
<1>5. ASSUME NEW x \in E, NEW y \in E, x < y
      PROVE  G[x].next # NULL /\ G[x].next <= y
  <2>1. CASE x = n
    <3>1. y \in F /\ c < y
      BY <1>1, <1>2, <1>5, <2>1
    <3>2. H[c].next # NULL /\ H[c].next <= y
      BY <3>1 DEF Linked
    <3> QED BY <2>1, <3>2
  <2>2. CASE x # n /\ y = n
    BY <1>1, <1>2, <1>5, <2>2 DEF Linked
  <2>3. CASE x # n /\ y # n
    BY <1>1, <1>2, <1>5, <2>3 DEF Linked
  <2> QED BY <2>1, <2>2, <2>3
<1> QED BY <1>3, <1>4, <1>5 DEF Linked

\* n becomes the front of the list from c on.
LEMMA Front ==
  ASSUME NEW F \in SUBSET Cells, NEW H \in Headers, NEW G \in Headers,
         NEW c \in F, NEW n \in Cells, Linked(F, H), n \notin F,
         n < c, G[n].next = c, G[n].prev = NULL,
         \A x \in F : x >= c =>
           /\ G[x].next = H[x].next
           /\ G[x].prev = IF x = c THEN n ELSE H[x].prev
  PROVE  Linked({x \in F : x >= c} \cup {n}, G)
<1> DEFINE E == {x \in F : x >= c} \cup {n}
<1>1. \A x \in F : x \in Nat /\ x # NULL /\ H[x].next \in Nat /\ H[x].prev \in Nat
  BY CellFacts DEF Headers
<1>2. n \in Nat /\ n # NULL
  BY CellFacts
<1>3. \A x \in E : G[x].next # NULL =>
        G[x].next \in E /\ x < G[x].next /\ G[G[x].next].prev = x
  BY <1>1, <1>2 DEF Linked
<1>4. \A x \in E : G[x].prev # NULL =>
        G[x].prev \in E /\ G[x].prev < x /\ G[G[x].prev].next = x
  BY <1>1, <1>2 DEF Linked
<1>5. ASSUME NEW x \in E, NEW y \in E, x < y
      PROVE  G[x].next # NULL /\ G[x].next <= y
  <2>1. CASE x = n
    <3>1. y \in F /\ y >= c
      BY <1>2, <1>5, <2>1
    <3>2. c # NULL
      BY <1>1
    <3> QED BY <2>1, <3>1, <3>2
  <2>2. CASE x # n /\ y = n
    BY <1>1, <1>2, <1>5, <2>2 DEF Linked
  <2>3. CASE x # n /\ y # n
    BY <1>1, <1>2, <1>5, <2>3 DEF Linked
  <2> QED BY <2>1, <2>2, <2>3
<1> QED BY <1>3, <1>4, <1>5 DEF Linked

\* n takes in c and becomes the front of what follows c.
LEMMA FrontMerge ==
  ASSUME NEW F \in SUBSET Cells, NEW H \in Headers, NEW G \in Headers,
         NEW c \in F, NEW n \in Cells, Linked(F, H), n \notin F,
         n < c, G[n].next = H[c].next, G[n].prev = NULL,
         \A x \in F : x > c =>
           /\ G[x].next = H[x].next
           /\ G[x].prev = IF x = H[c].next THEN n ELSE H[x].prev
  PROVE  Linked({x \in F : x > c} \cup {n}, G)
<1> DEFINE E == {x \in F : x > c} \cup {n}
<1>1. \A x \in F : x \in Nat /\ x # NULL /\ H[x].next \in Nat /\ H[x].prev \in Nat
  BY CellFacts DEF Headers
<1>2. n \in Nat /\ n # NULL
  BY CellFacts
<1>3. \A x \in E : G[x].next # NULL =>
        G[x].next \in E /\ x < G[x].next /\ G[G[x].next].prev = x
  BY <1>1, <1>2 DEF Linked
<1>4. \A x \in E : G[x].prev # NULL =>
        G[x].prev \in E /\ G[x].prev < x /\ G[G[x].prev].next = x
  BY <1>1, <1>2 DEF Linked
<1>5. ASSUME NEW x \in E, NEW y \in E, x < y
      PROVE  G[x].next # NULL /\ G[x].next <= y
  <2>1. CASE x = n
    BY <1>1, <1>2, <1>5, <2>1 DEF Linked
  <2>2. CASE x # n /\ y = n
    BY <1>1, <1>2, <1>5, <2>2 DEF Linked
  <2>3. CASE x # n /\ y # n
    BY <1>1, <1>2, <1>5, <2>3 DEF Linked
  <2> QED BY <2>1, <2>2, <2>3
<1> QED BY <1>3, <1>4, <1>5 DEF Linked

\* c is taken off the list.
LEMMA Remove ==
  ASSUME NEW F \in SUBSET Cells, NEW H \in Headers, NEW G \in Headers,
         NEW c \in F, Linked(F, H),
         \A x \in F \ {c} :
           /\ G[x].next = IF x = H[c].prev THEN H[c].next ELSE H[x].next
           /\ G[x].prev = IF x = H[c].next THEN H[c].prev ELSE H[x].prev
  PROVE  Linked(F \ {c}, G)
<1> DEFINE E == F \ {c}
<1>1. \A x \in F : x \in Nat /\ x # NULL /\ H[x].next \in Nat /\ H[x].prev \in Nat
  BY CellFacts DEF Headers
<1>2. \A x \in E : G[x].next # NULL =>
        G[x].next \in E /\ x < G[x].next /\ G[G[x].next].prev = x
  BY <1>1 DEF Linked
<1>3. \A x \in E : G[x].prev # NULL =>
        G[x].prev \in E /\ G[x].prev < x /\ G[G[x].prev].next = x
  BY <1>1 DEF Linked
<1>4. \A x, y \in E : x < y => G[x].next # NULL /\ G[x].next <= y
  BY <1>1 DEF Linked
<1> QED BY <1>2, <1>3, <1>4 DEF Linked

-----------------------------------------------------------------------------
(* Where chunks and blocks lie. *)

Stop(H, x) == x + HDR + H[x].size

Limit(x) == IF x < HOLESTART THEN HOLESTART ELSE maxaddr

Apart(A, H) == \A x, y \in A : x < y => Stop(H, x) <= y

Bounded(A, H, n) == \A x \in A : Stop(H, x) <= Limit(x) + HDR * n

\* Fewer chunks and blocks of the same sizes are as far apart.
LEMMA ApartSub ==
  ASSUME NEW A \in SUBSET Cells, NEW E \in SUBSET A, NEW H \in Headers,
         NEW G \in Headers, NEW n \in Nat, Apart(A, H), Bounded(A, H, n),
         \A x \in E : G[x].size = H[x].size
  PROVE  Apart(E, G) /\ Bounded(E, G, n)
<1>1. \A x \in E : Stop(G, x) = Stop(H, x)
  BY DEF Stop
<1> QED BY <1>1 DEF Apart, Bounded

\* The chunk a took in m, which starts where a ended.
MergedAt(A, E, H, G, a, m, n) ==
  /\ A \in SUBSET Cells /\ E \in SUBSET A /\ H \in Headers /\ G \in Headers
  /\ n \in Nat /\ a \in E /\ m \in A /\ m \notin E
  /\ Apart(A, H) /\ Bounded(A, H, n)
  /\ HOLESTART + HDR * n < HOLEEND
  /\ Stop(H, a) = m
  /\ G[a].size = H[a].size + H[m].size + HDR
  /\ \A x \in E \ {a} : G[x].size = H[x].size

\* A chunk that took in the neighbour it ends at stays apart from the rest.
LEMMA ApartMerge ==
  ASSUME NEW A, NEW E, NEW H, NEW G, NEW a, NEW m, NEW n,
         MergedAt(A, E, H, G, a, m, n)
  PROVE  Apart(E, G) /\ Bounded(E, G, n)
<1> USE DEF MergedAt
<1>1. \A x \in A : x \in Nat /\ H[x].size \in Nat /\ (x < HOLESTART \/ x >= HOLEEND)
  BY CellFacts DEF Headers
<1>2. Stop(G, a) = Stop(H, m) /\ a < m
  BY <1>1 DEF Stop, HDR
<1>3. \A x \in E \ {a} : Stop(G, x) = Stop(H, x)
  BY DEF Stop
<1>4. Limit(m) = Limit(a)
  BY <1>1, <1>2, Layout DEF Limit, Bounded, HDR
<1>5. \A y \in E : a < y => m < y
  BY <1>1 DEF Apart
<1>6. Apart(E, G)
  BY <1>1, <1>2, <1>3, <1>5 DEF Apart
<1> QED BY <1>2, <1>3, <1>4, <1>6 DEF Bounded

\* The chunk c, which reaches the end of its region, was split at r.
SplitAt(A, H, G, c, req, r, n) ==
  /\ A \in SUBSET Cells /\ H \in Headers /\ G \in Headers /\ n \in Nat
  /\ c \in A /\ req \in Nat /\ r \in Cells
  /\ Apart(A, H) /\ Bounded(A, H, n)
  /\ HOLESTART + HDR * (n + 1) < HOLEEND
  /\ r = c + HDR + req
  /\ req + HDR < H[c].size /\ Stop(H, c) >= Limit(c)
  /\ G[c].size = req /\ G[r].size = H[c].size - req
  /\ \A x \in A \ {c} : G[x].size = H[x].size

\* The rest of a split chunk is a new cell and apart from the others, with
\* one header more past the region's end.
LEMMA ApartSplit ==
  ASSUME NEW A, NEW H, NEW G, NEW c, NEW req, NEW r, NEW n,
         SplitAt(A, H, G, c, req, r, n)
  PROVE  /\ r \notin A
         /\ \A y \in A \ {c} : y < c <=> y < r
         /\ Apart(A \cup {r}, G) /\ Bounded(A \cup {r}, G, n + 1)
         /\ Stop(G, r) >= Limit(r)
         /\ \A x \in A \ {c} : Stop(G, x) = Stop(H, x)
<1> USE DEF SplitAt
<1>1. \A x \in A \cup {r} : x \in Nat /\ (x < HOLESTART \/ x >= HOLEEND)
                           /\ x + HDR <= maxaddr + 1
  BY CellFacts
<1>2. \A x \in A : H[x].size \in Nat
  BY DEF Headers
<1>3. Stop(G, c) = r /\ Stop(G, r) = Stop(H, c) + HDR /\ r < Stop(H, c) /\ c < r
  BY <1>1, <1>2 DEF Stop, HDR
<1>4. \A x \in A \ {c} : Stop(G, x) = Stop(H, x)
  BY DEF Stop
<1>5. Stop(H, c) \in Nat
  BY <1>1, <1>2 DEF Stop, HDR
<1>6. \A y \in A : c < y => Stop(H, c) <= y
  BY DEF Apart
<1>7. \A y \in A : y < c => Stop(H, y) <= c /\ Stop(H, y) \in Nat
  BY <1>1, <1>2 DEF Apart, Stop, HDR
<1>8. r \notin A /\ \A y \in A \ {c} : y < c <=> y < r
  BY <1>1, <1>3, <1>5, <1>6
<1>9. \A y \in A : c < y => Stop(H, c) + HDR <= y
  <2> SUFFICES ASSUME NEW y \in A, c < y PROVE Stop(H, c) + HDR <= y
    OBVIOUS
  <2>1. Stop(H, c) <= y /\ Stop(H, c) >= Limit(c) /\ Stop(H, c) <= Limit(c) + HDR * n
    BY <1>6 DEF Bounded
  <2>2. CASE c < HOLESTART
    BY <1>1, <1>5, <2>1, <2>2, Layout DEF Limit, HDR
  <2>3. CASE c >= HOLEEND
    BY <1>1, <1>5, <2>1, <2>3, Layout DEF Limit, HDR
  <2> QED BY <1>1, <2>2, <2>3
<1>10. Limit(r) = Limit(c)
  BY <1>1, <1>3, <1>5, Layout DEF Limit, Bounded, HDR
<1>11. Apart(A \cup {r}, G)
  <2> SUFFICES ASSUME NEW x \in A \cup {r}, NEW y \in A \cup {r}, x < y
               PROVE  Stop(G, x) <= y
    BY DEF Apart
  <2>1. CASE x = r
    BY <1>1, <1>3, <1>8, <1>9, <2>1
  <2>2. CASE x = c
    BY <1>1, <1>3, <1>5, <1>6, <2>2
  <2>3. CASE x \in A \ {c}
    BY <1>1, <1>3, <1>4, <1>7, <1>8, <2>3 DEF Apart
  <2> QED BY <2>1, <2>2, <2>3
<1>12. Bounded(A \cup {r}, G, n + 1)
  <2> SUFFICES ASSUME NEW x \in A \cup {r}
               PROVE  Stop(G, x) <= Limit(x) + HDR * (n + 1)
    BY DEF Bounded
  <2>1. \A z \in A : Stop(H, z) \in Nat /\ Stop(H, z) <= Limit(z) + HDR * n
    BY <1>1, <1>2 DEF Bounded, Stop, HDR
  <2>2. \A z \in A \cup {r} : Limit(z) \in Nat
    BY Layout DEF Limit
  <2>3. CASE x = r
    BY <1>3, <1>10, <2>1, <2>2, <2>3 DEF HDR
  <2>4. CASE x = c
    BY <1>1, <1>3, <1>5, <2>1, <2>2, <2>4 DEF HDR
  <2>5. CASE x \in A \ {c}
    BY <1>4, <2>1, <2>2, <2>5 DEF HDR
  <2> QED BY <2>3, <2>4, <2>5
<1>13. Stop(G, r) >= Limit(r)
  <2>1. Limit(c) \in Nat
    BY Layout DEF Limit
  <2> QED BY <1>3, <1>5, <1>10, <2>1 DEF HDR
<1> QED BY <1>4, <1>8, <1>11, <1>12, <1>13

-----------------------------------------------------------------------------
(* The inductive invariant. *)

Ops == {"none", "kmalloc", "kfree"}

Ats == {b.at : b \in blocks}

\* The headers of the blocks are no free chunks and cover what was asked for.
Held(F) ==
  /\ \A b \in blocks : /\ b.at \in Cells /\ b.at \notin F
                        /\ b.size \in Nat /\ b.id \in Nat
                        /\ b.size <= hdr[b.at].size
  /\ \A b, c \in blocks : b.at = c.at => b = c

\* A call in progress stands at a free chunk; that of kfree is not in front of
\* memSlot, and its block is still held and lies behind it.
CallSound(k, F) ==
  /\ mallocs \in 0..MaxMallocs
  /\ call \in [{k} -> [op : Ops, arg : Nat, curr : Nat, id : Nat]]
  /\ call[k].op = "kmalloc" =>
       /\ mallocs >= 1
       /\ call[k].arg % 16 = 0 /\ call[k].arg + HDR < WORD
       /\ call[k].curr # NULL => call[k].curr \in F
  /\ call[k].op = "kfree" =>
       /\ call[k].curr \in F /\ call[k].curr < call[k].arg
       /\ memSlot # NULL /\ memSlot <= call[k].curr
       /\ \E b \in blocks : b.at = call[k].arg /\ b.id = call[k].id

\* The calls of kmalloc that may have split a chunk.
Splits(k) == IF call[k].op = "kmalloc" THEN mallocs - 1 ELSE mallocs

Sound(k, F) ==
  /\ hdr \in Headers
  /\ memSlot # NULL => memSlot \in F
  /\ Linked(F, hdr)
  /\ Held(F)
  /\ Apart(F \cup Ats, hdr)
  /\ Bounded(F \cup Ats, hdr, Splits(k))
  /\ CallSound(k, F)

\* Every free chunk reaches the end of its region.
Open(F) == \A x \in F : Stop(hdr, x) >= Limit(x)

\* use is "allocate" where the kernel never calls kfree.
MemInv(k, use) ==
  \/ use # "allocate" /\ overgrown
  \/ lost /\ BlocksDisjoint
  \/ \E F \in SUBSET Cells : Sound(k, F) /\ (use = "allocate" => Open(F))

\* Blocks whose headers cover them and are apart do not overlap.
LEMMA SoundDisjoint ==
  ASSUME NEW H \in Headers, NEW F \in SUBSET Cells, NEW B,
         \A b \in B : b.at \in Cells /\ b.size \in Nat /\ b.size <= H[b.at].size,
         \A b, c \in B : b.at = c.at => b = c,
         \A x, y \in {b.at : b \in B} : x < y => Stop(H, x) <= y
  PROVE  \A b, c \in B :
           b = c \/ b.at + HDR + b.size <= c.at \/ c.at + HDR + c.size <= b.at
<1> SUFFICES ASSUME NEW b \in B, NEW c \in B, b # c
             PROVE  b.at + HDR + b.size <= c.at \/ c.at + HDR + c.size <= b.at
  OBVIOUS
<1>1. b.at # c.at /\ b.at \in Nat /\ c.at \in Nat
  BY CellFacts
<1>2. H[b.at].size \in Nat /\ H[c.at].size \in Nat
  BY DEF Headers
<1>3. CASE b.at < c.at
  BY <1>1, <1>2, <1>3 DEF Stop, HDR
<1>4. CASE c.at < b.at
  BY <1>1, <1>2, <1>4 DEF Stop, HDR
<1> QED BY <1>1, <1>3, <1>4

\* The invariant gives the property.
LEMMA InvImplies ==
  ASSUME NEW k, NEW use, MemInv(k, use)
  PROVE  BlocksDisjoint \/ (use # "allocate" /\ overgrown)
<1>1. ASSUME NEW F \in SUBSET Cells, Sound(k, F) PROVE BlocksDisjoint
  <2>1. \A x, y \in Ats : x < y => Stop(hdr, x) <= y
    BY <1>1 DEF Sound, Apart
  <2> QED BY <1>1, <2>1, SoundDisjoint DEF Sound, Held, Ats, BlocksDisjoint
<1> QED BY <1>1 DEF MemInv

\* What kmeminit sets up satisfies the invariant: two chunks, no block.
LEMMA InitInv ==
  ASSUME NEW k, KernelUse(k), NEW use, MemInit
  PROVE  MemInv(k, use)
<1> DEFINE F == {Start, HOLEEND}
<1>1. Start \in Cells /\ HOLEEND \in Cells /\ Start # HOLEEND
  BY Layout DEF Cells, HDR
<1>2. /\ HOLESTART - Start - HDR \in Nat /\ maxaddr - HOLEEND - HDR \in Nat
      /\ NULL \in Nat /\ Start # NULL /\ HOLEEND # NULL
  BY Layout DEF HDR, NULL
<1>3. /\ hdr[Start] = Header(HOLESTART - Start - HDR, NULL, HOLEEND)
      /\ hdr[HOLEEND] = Header(maxaddr - HOLEEND - HDR, Start, NULL)
  BY <1>1 DEF MemInit
<1>4. hdr \in Headers
  <2>1. \A z \in {Header(HOLESTART - Start - HDR, NULL, HOLEEND),
                   Header(maxaddr - HOLEEND - HDR, Start, NULL), Blank} :
          z \in [size : Nat, prev : Nat, next : Nat, sanityCheck : Nat]
    BY <1>2, Layout DEF Header, Blank, HDR, NULL
  <2> QED BY <2>1 DEF MemInit, Headers
<1>5. Linked(F, hdr)
  BY <1>1, <1>2, <1>3, Layout DEF Linked, Header, HDR
<1>6. Ats = {} /\ Held(F)
  BY DEF MemInit, Ats, Held
<1>7. CallSound(k, F)
  <2>1. Idle \in [op : Ops, arg : Nat, curr : Nat, id : Nat] /\ Idle.op = "none"
    BY DEF Idle, NULL, Ops
  <2>2. call = [q \in {k} |-> Idle] /\ mallocs = 0
    BY DEF MemInit, KernelUse
  <2> QED BY <2>1, <2>2, Layout DEF CallSound
<1>8. Splits(k) = 0
  BY DEF MemInit, Splits, KernelUse, Idle
<1>9. Stop(hdr, Start) = HOLESTART /\ Stop(hdr, HOLEEND) = maxaddr
  BY <1>3, Layout DEF Stop, Header, HDR
<1>10. Apart(F, hdr) /\ Bounded(F, hdr, 0)
  BY <1>9, Layout DEF Apart, Bounded, Limit, HDR
<1>11. memSlot \in F
  BY DEF MemInit
<1>12. Sound(k, F)
  BY <1>4, <1>5, <1>6, <1>7, <1>8, <1>10, <1>11 DEF Sound
<1>13. Open(F)
  BY <1>9, Layout DEF Open, Limit, HDR
<1> QED BY <1>1, <1>12, <1>13 DEF MemInv

-----------------------------------------------------------------------------
(* The steps of kmalloc. *)

LEMMA IdleIsCall ==
  Idle \in [op : Ops, arg : Nat, curr : Nat, id : Nat] /\ Idle.op = "none"
BY DEF Idle, NULL, Ops

\* A bound on the bytes not paid for may be raised.
LEMMA BoundedMore ==
  ASSUME NEW A \in SUBSET Cells, NEW H \in Headers, NEW n \in Nat,
         NEW m \in Nat, n <= m, Bounded(A, H, n)
  PROVE  Bounded(A, H, m)
<1>1. \A x \in A : Stop(H, x) \in Nat /\ Limit(x) \in Nat
  BY CellFacts, Layout DEF Stop, Limit, Headers, HDR
<1> QED BY <1>1 DEF Bounded, HDR

\* A call that has returned is sound, whatever F is now.
LEMMA ReturnSound ==
  ASSUME NEW k, KernelUse(k), NEW F \in SUBSET Cells, Sound(k, F),
         NEW E, NEW a, Return(k, a), mallocs' = mallocs
  PROVE  CallSound(k, E)' /\ Splits(k)' = mallocs
<1>1. call' = [call EXCEPT ![k] = Idle]
  BY DEF Return
<1>2. call' \in [{k} -> [op : Ops, arg : Nat, curr : Nat, id : Nat]] /\ call'[k] = Idle
  BY <1>1, IdleIsCall DEF Sound, CallSound
<1> QED BY <1>2, IdleIsCall DEF Sound, CallSound, Splits

\* The splits so far are at most the calls so far.
LEMMA SplitsNat ==
  ASSUME NEW k, KernelUse(k), NEW F \in SUBSET Cells, Sound(k, F)
  PROVE  Splits(k) \in Nat /\ Splits(k) <= mallocs /\ mallocs \in Nat
         /\ mallocs <= MaxMallocs
BY Layout DEF Sound, CallSound, Splits

\* Free chunks and blocks in use start at cells.
LEMMA AtsAreCells ==
  ASSUME NEW k, KernelUse(k), NEW F \in SUBSET Cells, Sound(k, F)
  PROVE  F \cup Ats \subseteq Cells
BY DEF Sound, Held, Ats

\* Entering kmalloc keeps the invariant: the call stands at memSlot.
LEMMA KmallocInv ==
  ASSUME NEW k, KernelUse(k), NEW F \in SUBSET Cells, Sound(k, F),
         NEW size \in Sizes, Kmalloc(k, size)
  PROVE  Sound(k, F)'
<1> DEFINE req == Aligned(size)
           new == [op |-> "kmalloc", arg |-> req, id |-> mallocs',
                   curr |-> IF req = 0 THEN NULL ELSE memSlot]
<1>1. req \in Nat /\ req % 16 = 0 /\ req + HDR < WORD
  BY AlignedSmall, LayoutAssumption DEF KernelUse
<1> HIDE DEF req
<1>2. call[k].op = "none" /\ mallocs < MaxMallocs /\ mallocs' = mallocs + 1
      /\ call' = [call EXCEPT ![k] = new] /\ mallocs \in Nat
  BY IdleIsCall DEF Kmalloc, req, Sound, CallSound
<1>3. memSlot \in Nat /\ (memSlot # NULL => memSlot \in F)
  BY CellFacts DEF Sound, NULL
<1>4. new \in [op : Ops, arg : Nat, curr : Nat, id : Nat]
  BY <1>1, <1>2, <1>3 DEF NULL, Ops
<1>5. call' \in [{k} -> [op : Ops, arg : Nat, curr : Nat, id : Nat]] /\ call'[k] = new
  BY <1>2, <1>4 DEF Sound, CallSound
<1>6. CallSound(k, F)'
  BY <1>1, <1>2, <1>3, <1>5, Layout DEF CallSound
<1>7. Splits(k)' = Splits(k)
  BY <1>2, <1>5 DEF Splits
<1>8. UNCHANGED <<memSlot, hdr, blocks>>
  BY DEF Kmalloc
<1> QED BY <1>6, <1>7, <1>8 DEF Sound, Held, Ats

\* Going on to the next chunk keeps the invariant.
LEMMA KmallocNextInv ==
  ASSUME NEW k, KernelUse(k), NEW F \in SUBSET Cells, Sound(k, F),
         KmallocNext(k)
  PROVE  Sound(k, F)'
<1> DEFINE c == call[k].curr
           new == [call[k] EXCEPT !.curr = hdr[c].next]
<1>1. call[k].op = "kmalloc" /\ c \in F /\ call' = [call EXCEPT ![k].curr = hdr[c].next]
      /\ UNCHANGED <<memSlot, hdr, blocks, mallocs>>
  BY DEF KmallocNext, Looping, Sound, CallSound
<1>2. hdr[c].next \in Nat /\ (hdr[c].next # NULL => hdr[c].next \in F)
  BY <1>1 DEF Sound, Headers, Linked
<1>3. /\ call' \in [{k} -> [op : Ops, arg : Nat, curr : Nat, id : Nat]]
      /\ call'[k].op = "kmalloc" /\ call'[k].arg = call[k].arg
      /\ call'[k].curr = hdr[c].next
  BY <1>1, <1>2 DEF Sound, CallSound
<1>4. CallSound(k, F)'
  BY <1>1, <1>2, <1>3 DEF Sound, CallSound
<1>5. Splits(k)' = Splits(k)
  BY <1>1, <1>3 DEF Splits
<1> QED BY <1>1, <1>4, <1>5 DEF Sound, Held, Ats

\* A step that only returns.
LEMMA OnlyReturns ==
  ASSUME NEW k, KernelUse(k), NEW F \in SUBSET Cells, Sound(k, F),
         NEW a, Return(k, a), UNCHANGED <<memSlot, hdr, blocks, mallocs>>
  PROVE  Sound(k, F)'
<1>1. CallSound(k, F)' /\ Splits(k)' = mallocs
  BY ReturnSound
<1>2. Bounded(F \cup Ats, hdr, mallocs)
  BY SplitsNat, BoundedMore, AtsAreCells DEF Sound
<1> QED BY <1>1, <1>2 DEF Sound, Held, Ats

\* The block that a step of kmalloc gives was a free chunk.
LEMMA GiveHeld ==
  ASSUME NEW k, KernelUse(k), NEW F \in SUBSET Cells, Sound(k, F),
         NEW c \in F, c = call[k].curr, Give(k), call[k].arg <= hdr[c].size
  PROVE  /\ Ats' = Ats \cup {c} /\ c \notin Ats
         /\ \A b \in blocks' : b \in blocks \/ (b.at = c /\ b.size = call[k].arg)
         /\ \A b \in blocks' : b.at \in Cells /\ b.size \in Nat /\ b.id \in Nat
                              /\ b.size <= hdr[b.at].size
         /\ \A b, d \in blocks' : b.at = d.at => b = d
<1> DEFINE new == [id |-> call[k].id, at |-> c, size |-> call[k].arg]
<1>1. blocks' = blocks \cup {new} /\ new.at = c /\ new.size = call[k].arg
      /\ new.id = call[k].id
  BY DEF Give
<1> HIDE DEF new
<1>2. call[k].arg \in Nat /\ call[k].id \in Nat
  BY DEF Sound, CallSound
<1>3. c \notin Ats
  BY DEF Sound, Held, Ats
<1>4. Ats' = Ats \cup {c}
  BY <1>1 DEF Ats
<1>5. \A b \in blocks : b.at # c
  BY <1>3 DEF Ats
<1> QED BY <1>1, <1>2, <1>3, <1>4, <1>5 DEF Sound, Held

\* Taking a chunk whole keeps the invariant for the chunks without it.
LEMMA KmallocTakeInv ==
  ASSUME NEW k, KernelUse(k), NEW F \in SUBSET Cells, Sound(k, F),
         NEW use, use = "allocate" => Open(F), KmallocTake(k)
  PROVE  MemInv(k, use)'
<1>1. PICK c : c = call[k].curr
  OBVIOUS
<1>2. PICK p, n : p = hdr[c].prev /\ n = hdr[c].next
  OBVIOUS
<1> DEFINE E == F \ {c}
           H1 == SetNext(hdr, p, n)
<1>3. /\ c \in F /\ call[k].arg <= hdr[c].size /\ Give(k) /\ mallocs' = mallocs
      /\ memSlot' = (IF p = NULL THEN n ELSE p)
      /\ hdr' = SetPrev(H1, n, p)
  BY <1>1, <1>2 DEF KmallocTake, Looping, Fits, Sound, CallSound
<1>4. hdr \in Headers /\ p \in Nat /\ n \in Nat /\ c \in Cells
  BY <1>2, <1>3 DEF Sound, Headers
<1>5. /\ H1 \in Headers
      /\ \A x \in Cells : /\ H1[x].size = hdr[x].size
                          /\ H1[x].prev = hdr[x].prev
                          /\ H1[x].next = IF x = p THEN n ELSE hdr[x].next
  BY <1>4, Next
<1> HIDE DEF H1
<1>6. /\ hdr' \in Headers
      /\ \A x \in Cells : /\ hdr'[x].size = H1[x].size
                          /\ hdr'[x].next = H1[x].next
                          /\ hdr'[x].prev = IF x = n THEN p ELSE H1[x].prev
  BY <1>3, <1>4, <1>5, Prev
<1>7. \A x \in Cells : /\ hdr'[x].size = hdr[x].size
                       /\ hdr'[x].next = IF x = p THEN n ELSE hdr[x].next
                       /\ hdr'[x].prev = IF x = n THEN p ELSE hdr[x].prev
  BY <1>5, <1>6
<1>8. Linked(E, hdr')
  <2>1. Linked(F, hdr)
    BY DEF Sound
  <2>2. \A x \in F \ {c} :
          /\ hdr'[x].next = IF x = hdr[c].prev THEN hdr[c].next ELSE hdr[x].next
          /\ hdr'[x].prev = IF x = hdr[c].next THEN hdr[c].prev ELSE hdr[x].prev
    BY <1>2, <1>7
  <2> QED BY <1>3, <1>4, <1>6, <2>1, <2>2, Remove
<1>9. /\ Ats' = Ats \cup {c}
      /\ \A b \in blocks' : b \in blocks \/ b.at = c
      /\ \A b \in blocks' : b.at \in Cells /\ b.size \in Nat /\ b.id \in Nat
                           /\ b.size <= hdr[b.at].size
      /\ \A b, d \in blocks' : b.at = d.at => b = d
  BY <1>1, <1>3, GiveHeld
<1>10. Held(E)'
  <2>1. \A b \in blocks' : b.at \notin E
    BY <1>9 DEF Sound, Held
  <2>2. \A b \in blocks' : b.size <= hdr'[b.at].size
    BY <1>7, <1>9
  <2> QED BY <1>9, <2>1, <2>2 DEF Held
<1>11. E \cup Ats' = F \cup Ats
  BY <1>3, <1>9
<1>12. CallSound(k, E)' /\ Splits(k)' = mallocs
  BY <1>3, ReturnSound DEF Give
<1>13. Apart(E \cup Ats', hdr') /\ Bounded(E \cup Ats', hdr', mallocs)
  <2>1. F \cup Ats \in SUBSET Cells /\ mallocs \in Nat
    BY AtsAreCells, SplitsNat
  <2>2. Apart(F \cup Ats, hdr) /\ Bounded(F \cup Ats, hdr, mallocs)
    BY <1>4, <2>1, SplitsNat, BoundedMore DEF Sound
  <2>3. \A x \in F \cup Ats : hdr'[x].size = hdr[x].size
    BY <1>7, <2>1
  <2>4. Apart(F \cup Ats, hdr') /\ Bounded(F \cup Ats, hdr', mallocs)
    BY <1>4, <1>6, <2>1, <2>2, <2>3, ApartSub
  <2> QED BY <1>11, <2>4
<1>14. memSlot' # NULL => memSlot' \in E
  <2>1. c \in Nat /\ (p # NULL => p \in F /\ p < c) /\ (n # NULL => n \in F /\ c < n)
    BY <1>2, <1>3, <1>4, CellFacts DEF Sound, Linked
  <2> QED BY <1>3, <1>4, <2>1
<1>15. Sound(k, E)'
  BY <1>6, <1>8, <1>10, <1>12, <1>13, <1>14 DEF Sound
<1>16. E \in SUBSET Cells
  OBVIOUS
<1>17. use = "allocate" => Open(E)'
  <2>1. \A x \in E : Stop(hdr', x) = Stop(hdr, x)
    BY <1>7 DEF Stop
  <2> QED BY <2>1 DEF Open
<1> QED BY <1>15, <1>16, <1>17 DEF MemInv

\* Splitting a chunk keeps the invariant for the chunks with the rest in its
\* place.
LEMMA KmallocSplitInv ==
  ASSUME NEW k, KernelUse(k), NEW F \in SUBSET Cells, Sound(k, F),
         NEW use, use = "allocate" => Open(F), KmallocSplit(k)
  PROVE  MemInv(k, use)'
<1>a. PICK c, req, r, A, j : /\ c = call[k].curr /\ req = call[k].arg /\ r = Rest(k)
                             /\ A = F \cup Ats /\ j = Splits(k)
  OBVIOUS
<1>b. call[k].op = "kmalloc" /\ c \in F /\ Give(k) /\ mallocs' = mallocs /\ Roomy(k)
  BY <1>a DEF KmallocSplit, Looping, Sound, CallSound
<1>c. PICK s, p, n : s = hdr[c].size /\ p = hdr[c].prev /\ n = hdr[c].next
  OBVIOUS
<1>d. c \in Cells /\ c \in Nat /\ c % 16 = 0
  BY <1>b, CellFacts
<1>e. hdr \in Headers /\ s \in Nat /\ p \in Nat /\ n \in Nat
  BY <1>c, <1>d DEF Sound, Headers
<1>f. /\ req \in Nat /\ req % 16 = 0 /\ req + HDR < WORD
      /\ mallocs \in 1..MaxMallocs
  BY <1>a, <1>b DEF Sound, CallSound
<1>2. req + HDR < s
  <2>1. (req + HDR) % WORD = req + HDR
    BY <1>f, SmallMod, Layout DEF HDR
  <2> QED BY <1>a, <1>b, <1>c, <2>1 DEF Roomy
<1>3. A \in SUBSET Cells /\ j \in Nat /\ j + 1 = mallocs /\ c \in A
  BY <1>a, <1>b, <1>f, AtsAreCells DEF Splits
<1>4. Apart(A, hdr) /\ Bounded(A, hdr, j)
  BY <1>a DEF Sound
<1>5. Stop(hdr, c) = c + HDR + s /\ c + HDR + s < WORD
  <2>1. Stop(hdr, c) <= Limit(c) + HDR * j
    BY <1>3, <1>4 DEF Bounded
  <2>2. Stop(hdr, c) = c + HDR + s
    BY <1>c DEF Stop
  <2>3. Limit(c) <= maxaddr /\ Limit(c) \in Nat
    BY Layout DEF Limit, HDR
  <2>4. j <= MaxMallocs
    BY <1>3, <1>f, Layout
  <2>5. maxaddr + HDR * MaxMallocs < WORD
    BY DEF KernelUse
  <2> QED BY <1>d, <1>e, <1>3, <2>1, <2>2, <2>3, <2>4, <2>5, Layout DEF HDR
<1>6. r = c + HDR + req /\ r \in Nat /\ r # c
  <2>1. c + HDR + req \in 0..WORD-1
    BY <1>d, <1>e, <1>f, <1>2, <1>5, Layout DEF HDR
  <2>2. (c + HDR + req) % WORD = c + HDR + req
    BY <2>1, SmallMod, Layout
  <2> QED BY <1>a, <1>d, <1>f, <2>1, <2>2 DEF Rest, HDR
<1>7. s - req \in Nat /\ (s - req) % WORD = s - req
  <2>1. s - req \in 0..WORD-1
    BY <1>d, <1>e, <1>f, <1>2, <1>5, Layout DEF HDR
  <2> QED BY <2>1, SmallMod, Layout
<1>8. /\ Ats' = Ats \cup {c}
      /\ \A b \in blocks' : b \in blocks \/ (b.at = c /\ b.size = req)
      /\ \A b \in blocks' : b.at \in Cells /\ b.size \in Nat /\ b.id \in Nat
                           /\ b.size <= hdr[b.at].size
      /\ \A b, d \in blocks' : b.at = d.at => b = d
  <2>1. call[k].arg <= hdr[c].size
    BY <1>a, <1>c, <1>e, <1>f, <1>2 DEF HDR
  <2> QED BY <1>a, <1>b, <2>1, GiveHeld
<1>9. CASE r \notin Cells
  <2>1. lost'
    BY <1>9, <1>a DEF KmallocSplit
  <2>2. \A x, y \in {b.at : b \in blocks'} : x < y => Stop(hdr, x) <= y
    <3>1. {b.at : b \in blocks'} \subseteq A
      BY <1>a, <1>b, <1>8 DEF Ats
    <3> QED BY <1>4, <3>1 DEF Apart
  <2>3. BlocksDisjoint'
    BY <1>e, <1>8, <2>2, SoundDisjoint DEF BlocksDisjoint
  <2> QED BY <2>1, <2>3 DEF MemInv
<1>10. CASE Inner(c)
  <2>1. overgrown'
    BY <1>10, <1>a DEF KmallocSplit
  <2>2. ~Open(F)
    <3>1. Stop(hdr, c) \in Nat /\ Limit(c) \in Nat /\ Stop(hdr, c) < Limit(c)
      BY <1>c, <1>d, <1>e, <1>5, <1>10, Layout DEF Inner, End, Limit, HDR
    <3>2. ~(Stop(hdr, c) >= Limit(c))
      BY <3>1
    <3> QED BY <1>b, <3>2 DEF Open
  <2> QED BY <2>1, <2>2 DEF MemInv
<1>11. CASE r \in Cells /\ ~Inner(c)
  <2> DEFINE H0 == CompleteHeader(hdr, r, s - req, p, n)
             H1 == SetSize(H0, c, req)
             H2 == SetPrev(H1, H1[c].next, r)
             E == (F \ {c}) \cup {r}
  <2>1. hdr' = SetNext(H2, H2[c].prev, r) /\ memSlot' = r
    BY <1>a, <1>c, <1>7 DEF KmallocSplit
  <2>3. /\ H0 \in Headers
        /\ H0[r] = Header(s - req, p, n)
        /\ \A x \in Cells : x # r => H0[x] = hdr[x]
    <3>1. r \in Cells
      BY <1>11
    <3>2. s - req \in Nat
      BY <1>7
    <3>3. PICK t : t = s - req
      OBVIOUS
    <3>4. /\ CompleteHeader(hdr, r, t, p, n) \in Headers
          /\ CompleteHeader(hdr, r, t, p, n)[r] = Header(t, p, n)
          /\ \A x \in Cells : x # r => CompleteHeader(hdr, r, t, p, n)[x] = hdr[x]
      <4>1. t \in Nat /\ hdr \in Headers /\ p \in Nat /\ n \in Nat
        BY <1>e, <3>2, <3>3
      <4> QED BY <3>1, <4>1, Complete
    <3> QED BY <3>3, <3>4
  <2> HIDE DEF H0
  <2>a. H0[c].prev = p /\ H0[c].next = n
    BY <1>c, <1>d, <1>6, <2>3
  <2>4. /\ H1 \in Headers
        /\ H1[c] = Header(req, p, n)
        /\ \A x \in Cells : x # c => H1[x] = H0[x]
    BY <1>d, <1>f, <2>3, <2>a, Resize
  <2> HIDE DEF H1
  <2>5. H1[c].next = n /\ H1[c].prev = p /\ H1[c].size = req
    BY <2>4 DEF Header
  <2>6. H1[r].next = n /\ H1[r].prev = p /\ H1[r].size = s - req
    BY <1>11, <1>6, <2>3, <2>4 DEF Header
  <2>7. \A x \in Cells \ {c, r} : H1[x] = hdr[x]
    BY <2>3, <2>4
  <2>8. /\ H2 \in Headers
        /\ \A x \in Cells :
             /\ H2[x].size = H1[x].size
             /\ H2[x].next = H1[x].next
             /\ H2[x].prev = IF x = n THEN r ELSE H1[x].prev
    <3>1. H2 = SetPrev(H1, n, r)
      BY <2>5
    <3> HIDE DEF H2
    <3> QED BY <1>6, <2>4, <3>1, Prev
  <2> HIDE DEF H2
  <2>9. c # n
    BY <1>b, <1>c, <1>d, CellFacts DEF Sound, Linked
  <2>10. H2[c].prev = p
    BY <1>d, <2>5, <2>8, <2>9
  <2>11. /\ hdr' \in Headers
         /\ \A x \in Cells :
              /\ hdr'[x].size = H2[x].size
              /\ hdr'[x].prev = H2[x].prev
              /\ hdr'[x].next = IF x = p THEN r ELSE H2[x].next
    <3>1. hdr' = SetNext(H2, p, r)
      BY <2>1, <2>10
    <3> QED BY <1>6, <2>8, <3>1, Next
  <2>12. /\ r \notin A
         /\ \A y \in A \ {c} : y < c <=> y < r
         /\ Apart(A \cup {r}, hdr') /\ Bounded(A \cup {r}, hdr', j + 1)
         /\ Stop(hdr', r) >= Limit(r)
         /\ \A x \in A \ {c} : Stop(hdr', x) = Stop(hdr, x)
    <3>1. HOLESTART + HDR * (j + 1) < HOLEEND
      BY <1>f, <1>3, Layout DEF KernelUse, HDR
    <3>2. Stop(hdr, c) >= Limit(c)
      BY <1>c, <1>d, <1>e, <1>5, <1>11, Layout DEF Inner, End, Limit, HDR
    <3>3. /\ hdr'[c].size = req /\ hdr'[r].size = hdr[c].size - req
          /\ \A x \in A \ {c, r} : hdr'[x].size = hdr[x].size
      BY <1>c, <1>d, <1>3, <1>11, <2>5, <2>6, <2>7, <2>8, <2>11
    <3>4. r \notin A
      <4>1. c < r /\ r < Stop(hdr, c)
        BY <1>d, <1>e, <1>f, <1>2, <1>5, <1>6 DEF HDR
      <4> QED BY <1>d, <1>e, <1>3, <1>4, <1>5, <1>6, <4>1 DEF Apart, HDR
    <3>5. \A x \in A \ {c} : hdr'[x].size = hdr[x].size
      BY <3>3, <3>4
    <3>6. req + HDR < hdr[c].size
      BY <1>c, <1>2
    <3>7. r \in Cells /\ r = c + HDR + req
      BY <1>6, <1>11
    <3>8. /\ A \in SUBSET Cells /\ hdr \in Headers /\ hdr' \in Headers /\ j \in Nat
          /\ c \in A /\ req \in Nat
      BY <1>e, <1>f, <1>3, <2>11
    <3>9. SplitAt(A, hdr, hdr', c, req, r, j)
      BY <1>4, <3>1, <3>2, <3>3, <3>5, <3>6, <3>7, <3>8 DEF SplitAt
    <3> QED BY <3>9, ApartSplit
  <2>13. Linked(E, hdr')
    <3>1. r \notin F /\ \A y \in F \ {c} : y < c <=> y < r
      BY <1>a, <2>12
    <3>2. hdr'[r].next = hdr[c].next /\ hdr'[r].prev = hdr[c].prev
      <4>1. r # n /\ r # p
        BY <1>b, <1>c, <1>11, <3>1, CellFacts DEF Sound, Linked
      <4> QED BY <1>c, <1>11, <2>6, <2>8, <2>11, <4>1
    <3>3. \A x \in F \ {c} :
            /\ hdr'[x].next = IF x = hdr[c].prev THEN r ELSE hdr[x].next
            /\ hdr'[x].prev = IF x = hdr[c].next THEN r ELSE hdr[x].prev
      BY <1>c, <2>7, <2>8, <2>11, <3>1
    <3>4. Linked(F, hdr)
      BY DEF Sound
    <3> QED BY <1>b, <1>e, <1>11, <2>11, <3>1, <3>2, <3>3, <3>4, Replace
  <2>14. Held(E)'
    <3>1. \A b \in blocks' : b.at \notin E
      <4> SUFFICES ASSUME NEW b \in blocks' PROVE b.at \notin E
        OBVIOUS
      <4>1. CASE b.at = c
        BY <1>6, <4>1
      <4>2. CASE b \in blocks
        BY <1>a, <2>12, <4>2 DEF Sound, Held, Ats
      <4> QED BY <1>8, <4>1, <4>2
    <3>2. ASSUME NEW b \in blocks' PROVE b.size <= hdr'[b.at].size
      <4>1. CASE b.at = c /\ b.size = req
        BY <1>d, <1>f, <2>5, <2>8, <2>11, <4>1
      <4>2. CASE b \in blocks
        <5>1. b.at \in A /\ b.at # c /\ b.at # r /\ b.at \in Cells
          BY <1>a, <1>b, <2>12, <4>2 DEF Sound, Held, Ats
        <5> QED BY <1>8, <2>7, <2>8, <2>11, <5>1
      <4> QED BY <1>8, <4>1, <4>2
    <3> QED BY <1>8, <3>1, <3>2 DEF Held
  <2>15. E \cup Ats' = A \cup {r}
    BY <1>a, <1>b, <1>8
  <2>16. CallSound(k, E)' /\ Splits(k)' = mallocs
    BY <1>b, ReturnSound DEF Give
  <2>17. Sound(k, E)'
    <3>1. Apart(E \cup Ats', hdr') /\ Bounded(E \cup Ats', hdr', mallocs)
      BY <1>3, <2>12, <2>15
    <3>2. memSlot' \in E
      BY <2>1
    <3> HIDE DEF E
    <3> QED BY <2>11, <2>13, <2>14, <2>16, <3>1, <3>2 DEF Sound
  <2>18. E \in SUBSET Cells
    BY <1>11
  <2>19. use = "allocate" => Open(E)'
    <3>1. \A x \in F \ {c} : Stop(hdr', x) = Stop(hdr, x)
      BY <1>a, <2>12
    <3> QED BY <2>12, <3>1 DEF Open
  <2> QED BY <2>17, <2>18, <2>19 DEF MemInv
<1> QED BY <1>9, <1>10, <1>11

-----------------------------------------------------------------------------
(* The steps of kfree. *)

LEMMA KfreeEnterInv ==
  ASSUME NEW k, KernelUse(k), NEW F \in SUBSET Cells, Sound(k, F),
         NEW b \in blocks, KfreeEnter(k, b)
  PROVE  Sound(k, F)'
<1> DEFINE new == [op |-> "kfree", arg |-> b.at, curr |-> memSlot, id |-> b.id]
<1>1. /\ call[k] = Idle /\ b.at > memSlot /\ memSlot # NULL
      /\ call' = [call EXCEPT ![k] = new]
      /\ UNCHANGED <<memSlot, hdr, blocks, mallocs>>
  BY DEF KfreeEnter, Kfree
<1>2. memSlot \in F /\ memSlot \in Nat /\ b.at \in Nat /\ b.id \in Nat
  BY <1>1, CellFacts DEF Sound, Held
<1>3. new \in [op : Ops, arg : Nat, curr : Nat, id : Nat]
  BY <1>2 DEF Ops
<1>4. call' \in [{k} -> [op : Ops, arg : Nat, curr : Nat, id : Nat]] /\ call'[k] = new
  BY <1>1, <1>3 DEF Sound, CallSound
<1>5. CallSound(k, F)'
  BY <1>1, <1>2, <1>4 DEF Sound, CallSound
<1>6. Splits(k)' = Splits(k)
  BY <1>1, <1>4, IdleIsCall DEF Splits
<1> QED BY <1>1, <1>5, <1>6 DEF Sound, Held, Ats

\* Going on along the list in kfree keeps the invariant.
LEMMA KfreeNextInv ==
  ASSUME NEW k, KernelUse(k), NEW F \in SUBSET Cells, Sound(k, F),
         KfreeNext(k)
  PROVE  Sound(k, F)'
<1>1. PICK c, n : c = call[k].curr /\ n = hdr[c].next
  OBVIOUS
<1>2. /\ call[k].op = "kfree" /\ c \in F /\ c < call[k].arg /\ call[k].arg \in Ats
      /\ memSlot # NULL /\ memSlot <= c
      /\ call' = [call EXCEPT ![k].curr = n] /\ ~Placed(k)
      /\ UNCHANGED <<memSlot, hdr, blocks, mallocs>>
  BY <1>1 DEF KfreeNext, Looping, Sound, CallSound, Ats
<1>3. n # NULL /\ n \in F /\ c < n
  BY <1>1, <1>2 DEF Placed, Sound, Linked
<1>4. /\ c \in Nat /\ n \in Nat /\ memSlot \in Nat
      /\ call[k].arg \in Nat /\ call[k].arg # n
  BY <1>2, <1>3, CellFacts DEF Sound, CallSound, Held, Ats
<1>5. n < call[k].arg
  BY <1>1, <1>2, <1>3, <1>4 DEF Placed
<1>6. /\ call' \in [{k} -> [op : Ops, arg : Nat, curr : Nat, id : Nat]]
      /\ call'[k].op = "kfree" /\ call'[k].arg = call[k].arg
      /\ call'[k].id = call[k].id /\ call'[k].curr = n
  BY <1>2, <1>4 DEF Sound, CallSound
<1>7. memSlot <= n
  BY <1>2, <1>3, <1>4
<1>8. CallSound(k, F)'
  BY <1>2, <1>3, <1>5, <1>6, <1>7 DEF Sound, CallSound
<1>9. Splits(k)' = Splits(k)
  BY <1>2, <1>6 DEF Splits
<1> QED BY <1>2, <1>8, <1>9 DEF Sound, Held, Ats

\* The block at a was taken back.
LEMMA FreedHeld ==
  ASSUME NEW k, NEW F \in SUBSET Cells, Sound(k, F), NEW a,
         NEW E \in SUBSET (F \cup {a}), blocks' \subseteq blocks,
         \A b \in blocks' : b.at # a,
         \A x \in Cells : x # a => hdr'[x].size = hdr[x].size
  PROVE  Held(E)' /\ Ats' \subseteq Ats /\ a \notin Ats'
<1>1. \A b \in blocks' : b.at \notin E /\ b.size <= hdr'[b.at].size
  BY DEF Sound, Held
<1>2. Held(E)'
  BY <1>1 DEF Sound, Held
<1> QED BY <1>2 DEF Ats

\* What is left to show of a step that returns from kfree.
Freed(k, a, E, D) ==
  /\ blocks' \subseteq blocks /\ \A b \in blocks' : b.at # a
  /\ Return(k, TRUE) /\ mallocs' = mallocs
  /\ hdr' \in Headers /\ \A x \in Cells : x # a => hdr'[x].size = hdr[x].size
  /\ memSlot' # NULL => memSlot' \in E
  /\ Linked(E, hdr')
  /\ D = E \cup Ats' /\ Apart(D, hdr') /\ Bounded(D, hdr', mallocs)

\* A release that leaves the chunks E linked and apart keeps the invariant.
LEMMA FreedSound ==
  ASSUME NEW k, KernelUse(k), NEW F \in SUBSET Cells, Sound(k, F), NEW a,
         NEW E \in SUBSET Cells, E \subseteq F \cup {a}, NEW D, Freed(k, a, E, D)
  PROVE  MemInv(k, "any")'
<1> USE DEF Freed
<1>1. Held(E)'
  BY FreedHeld
<1>2. CallSound(k, E)' /\ Splits(k)' = mallocs
  BY ReturnSound
<1>3. Sound(k, E)'
  BY <1>1, <1>2 DEF Sound
<1> QED BY <1>3 DEF MemInv

\* Facts about the heap before a step of kfree that takes back the block at a.
LEMMA FreeFacts ==
  ASSUME NEW k, KernelUse(k), NEW F \in SUBSET Cells, Sound(k, F),
         call[k].op # "kmalloc"
  PROVE  /\ hdr \in Headers /\ mallocs \in Nat /\ F \cup Ats \in SUBSET Cells
         /\ Linked(F, hdr) /\ F \cap Ats = {}
         /\ Apart(F \cup Ats, hdr) /\ Bounded(F \cup Ats, hdr, mallocs)
         /\ HOLESTART + HDR * mallocs < HOLEEND
<1>1. Splits(k) = mallocs /\ mallocs \in Nat /\ mallocs <= MaxMallocs
  BY SplitsNat DEF Splits
<1>2. HOLESTART + HDR * mallocs < HOLEEND
  BY <1>1, Layout DEF KernelUse, HDR
<1>3. F \cup Ats \in SUBSET Cells
  BY AtsAreCells
<1>4. F \cap Ats = {}
  BY DEF Sound, Held, Ats
<1> QED BY <1>1, <1>2, <1>3, <1>4 DEF Sound

\* Case A: the block at a and memSlot become one chunk.
LEMMA KfreeMergeFrontInv ==
  ASSUME NEW k, KernelUse(k), NEW F \in SUBSET Cells, Sound(k, F),
         NEW b \in blocks, KfreeFront(k, b), End(b.at) = memSlot
  PROVE  MemInv(k, "any")'
<1>1. PICK a, m, n, s, z : /\ a = b.at /\ m = memSlot /\ n = hdr[m].next /\ z = NULL
                           /\ s = hdr[a].size + hdr[m].size + HDR
  OBVIOUS
<1> DEFINE E == {x \in F : x > m} \cup {a}
           H1 == CompleteHeader(hdr, a, s, z, n)
<1>2. /\ a < m /\ memSlot' = a /\ hdr' = SetPrev(H1, n, a) /\ Stop(hdr, a) = m
      /\ blocks' = blocks \ {b} /\ Return(k, TRUE) /\ mallocs' = mallocs
      /\ call[k].op # "kmalloc"
  BY <1>1, IdleIsCall DEF KfreeFront, Kfree, End, Stop
<1>3. a \in Cells /\ a \in Nat /\ a \in Ats /\ m \in F /\ m \in Cells /\ m \in Nat
  <2>1. a \in Cells /\ a \in Nat /\ a \in Ats
    BY <1>1, CellFacts DEF Sound, Held, Ats
  <2>2. m # NULL
    BY <1>2, <2>1 DEF NULL
  <2> QED BY <1>1, <2>1, <2>2, CellFacts DEF Sound
<1>4. /\ hdr \in Headers /\ mallocs \in Nat /\ F \cup Ats \in SUBSET Cells
      /\ Linked(F, hdr) /\ F \cap Ats = {}
      /\ Apart(F \cup Ats, hdr) /\ Bounded(F \cup Ats, hdr, mallocs)
      /\ HOLESTART + HDR * mallocs < HOLEEND
  BY <1>2, FreeFacts
<1>5. s \in Nat /\ n \in Nat /\ z \in Nat
  <2>1. hdr[a].size \in Nat /\ hdr[m].size \in Nat /\ hdr[m].next \in Nat
    BY <1>3, <1>4 DEF Headers
  <2> QED BY <1>1, <2>1 DEF HDR, NULL
<1>6. /\ H1 \in Headers
      /\ H1[a] = Header(s, z, n)
      /\ \A x \in Cells : x # a => H1[x] = hdr[x]
  <2>1. /\ hdr \in Headers /\ a \in Cells /\ s \in Nat /\ z \in Nat /\ n \in Nat
    BY <1>3, <1>4, <1>5
  <2> QED BY <2>1, Complete
<1> HIDE DEF H1
<1>7. /\ hdr' \in Headers
      /\ \A x \in Cells : /\ hdr'[x].size = H1[x].size
                          /\ hdr'[x].next = H1[x].next
                          /\ hdr'[x].prev = IF x = n THEN a ELSE H1[x].prev
  BY <1>2, <1>3, <1>6, Prev
<1>8. n # NULL => n \in F /\ m < n
  BY <1>1, <1>3, <1>4 DEF Linked
<1>9. /\ hdr'[a].size = s /\ hdr'[a].next = n /\ hdr'[a].prev = NULL
      /\ \A x \in Cells : x # a => hdr'[x].size = hdr[x].size
  <2>1. a # n
    BY <1>2, <1>3, <1>5, <1>8, CellFacts
  <2> QED BY <1>1, <1>3, <1>6, <1>7, <2>1 DEF Header
<1>10. Linked(E, hdr')
  <2>1. a \notin F
    BY <1>3, <1>4
  <2>2. \A x \in F : x > m =>
          /\ hdr'[x].next = hdr[x].next
          /\ hdr'[x].prev = IF x = hdr[m].next THEN a ELSE hdr[x].prev
    BY <1>1, <1>6, <1>7, <2>1
  <2>3. hdr'[a].next = hdr[m].next
    BY <1>1, <1>9
  <2> QED BY <1>2, <1>3, <1>4, <1>7, <1>9, <2>1, <2>2, <2>3, FrontMerge
<1>11. \A d \in blocks' : d.at # a
  BY <1>1, <1>2 DEF Sound, Held
<1>12. /\ E \in SUBSET Cells /\ E \subseteq F \cup {a} /\ blocks' \subseteq blocks
       /\ memSlot' \in E
  BY <1>2, <1>3
<1>13. Ats' \subseteq Ats
  BY <1>12 DEF Ats
<1>14. PICK A, D : A = F \cup Ats /\ D = E \cup Ats'
  OBVIOUS
<1>15. Apart(D, hdr') /\ Bounded(D, hdr', mallocs)
  <2>1. m \notin E /\ m \notin Ats'
    BY <1>2, <1>3, <1>4, <1>13
  <2>2. D \in SUBSET A /\ a \in D /\ m \in A /\ m \notin D
    BY <1>3, <1>12, <1>13, <1>14, <2>1
  <2>3. \A x \in D \ {a} : hdr'[x].size = hdr[x].size
    BY <1>4, <1>9, <1>14, <2>2
  <2>4. MergedAt(A, D, hdr, hdr', a, m, mallocs)
    BY <1>1, <1>2, <1>4, <1>7, <1>9, <1>14, <2>2, <2>3 DEF MergedAt
  <2> QED BY <2>4, ApartMerge
<1> HIDE DEF E
<1>16. Freed(k, a, E, D)
  BY <1>2, <1>7, <1>9, <1>10, <1>11, <1>12, <1>14, <1>15 DEF Freed
<1> QED BY <1>12, <1>16, FreedSound

\* Case B: the block at a becomes the chunk in front of memSlot.
LEMMA KfreeFrontInv ==
  ASSUME NEW k, KernelUse(k), NEW F \in SUBSET Cells, Sound(k, F),
         NEW b \in blocks, KfreeFront(k, b), End(b.at) # memSlot
  PROVE  MemInv(k, "any")'
<1>1. PICK a, m, s, z : a = b.at /\ m = memSlot /\ s = hdr[a].size /\ z = NULL
  OBVIOUS
<1> DEFINE E == {x \in F : x >= m} \cup {a}
           H1 == CompleteHeader(hdr, a, s, z, m)
<1>2. /\ a < m /\ memSlot' = a /\ hdr' = SetPrev(H1, m, a)
      /\ blocks' = blocks \ {b} /\ Return(k, TRUE) /\ mallocs' = mallocs
      /\ call[k].op # "kmalloc"
  BY <1>1, IdleIsCall DEF KfreeFront, Kfree
<1>3. a \in Cells /\ a \in Nat /\ a \in Ats /\ m \in F /\ m \in Cells /\ m \in Nat
  <2>1. a \in Cells /\ a \in Nat /\ a \in Ats
    BY <1>1, CellFacts DEF Sound, Held, Ats
  <2>2. m # NULL
    BY <1>2, <2>1 DEF NULL
  <2> QED BY <1>1, <2>1, <2>2, CellFacts DEF Sound
<1>4. /\ hdr \in Headers /\ mallocs \in Nat /\ F \cup Ats \in SUBSET Cells
      /\ Linked(F, hdr) /\ F \cap Ats = {}
      /\ Apart(F \cup Ats, hdr) /\ Bounded(F \cup Ats, hdr, mallocs)
  BY <1>2, FreeFacts
<1>5. s \in Nat /\ z \in Nat
  BY <1>1, <1>3, <1>4 DEF Headers, NULL
<1>6. /\ H1 \in Headers
      /\ H1[a] = Header(s, z, m)
      /\ \A x \in Cells : x # a => H1[x] = hdr[x]
  <2>1. /\ hdr \in Headers /\ a \in Cells /\ s \in Nat /\ z \in Nat /\ m \in Nat
    BY <1>3, <1>4, <1>5
  <2> QED BY <2>1, Complete
<1> HIDE DEF H1
<1>7. /\ hdr' \in Headers
      /\ \A x \in Cells : /\ hdr'[x].size = H1[x].size
                          /\ hdr'[x].next = H1[x].next
                          /\ hdr'[x].prev = IF x = m THEN a ELSE H1[x].prev
  BY <1>2, <1>3, <1>6, Prev
<1>8. /\ hdr'[a].next = m /\ hdr'[a].prev = NULL
      /\ \A x \in Cells : hdr'[x].size = hdr[x].size
  <2>1. a # m
    BY <1>2, <1>3
  <2> QED BY <1>1, <1>3, <1>6, <1>7, <2>1 DEF Header
<1>9. Linked(E, hdr')
  <2>1. a \notin F
    BY <1>3, <1>4
  <2>2. \A x \in F : x >= m =>
          /\ hdr'[x].next = hdr[x].next
          /\ hdr'[x].prev = IF x = m THEN a ELSE hdr[x].prev
    BY <1>6, <1>7, <2>1
  <2> QED BY <1>2, <1>3, <1>4, <1>7, <1>8, <2>1, <2>2, Front
<1>10. \A d \in blocks' : d.at # a
  BY <1>1, <1>2 DEF Sound, Held
<1>11. /\ E \in SUBSET Cells /\ E \subseteq F \cup {a} /\ blocks' \subseteq blocks
       /\ memSlot' \in E
  BY <1>2, <1>3
<1>12. Ats' \subseteq Ats
  BY <1>11 DEF Ats
<1>13. PICK A, D : A = F \cup Ats /\ D = E \cup Ats'
  OBVIOUS
<1>14. Apart(D, hdr') /\ Bounded(D, hdr', mallocs)
  <2>1. D \in SUBSET A /\ A \in SUBSET Cells
    BY <1>3, <1>4, <1>11, <1>12, <1>13
  <2>2. \A x \in D : hdr'[x].size = hdr[x].size
    BY <1>8, <2>1
  <2> QED BY <1>4, <1>7, <1>13, <2>1, <2>2, ApartSub
<1> HIDE DEF E
<1>15. Freed(k, a, E, D)
  BY <1>2, <1>7, <1>8, <1>9, <1>10, <1>11, <1>13, <1>14 DEF Freed
<1> QED BY <1>11, <1>15, FreedSound

\* The loop of kfree has found the place of its block a behind the chunk c.
FoundPlace(k, c, a, n) ==
  /\ c = call[k].curr /\ a = call[k].arg /\ n = hdr[c].next
  /\ Looping(k, "kfree") /\ Placed(k) /\ TakeBack(k)

AtPlace(k, F, c, a, n) ==
  /\ call[k].op # "kmalloc" /\ Return(k, TRUE) /\ mallocs' = mallocs
  /\ c \in F /\ c \in Cells /\ c \in Nat
  /\ a \in Cells /\ a \in Nat /\ a \in Ats /\ a \notin F /\ c < a
  /\ n \in Nat /\ (n # NULL => n \in F /\ a < n)
  /\ memSlot' = memSlot /\ memSlot \in F /\ memSlot \in Nat /\ memSlot <= c
  /\ blocks' \subseteq blocks /\ \A d \in blocks' : d.at # a

\* Where kfree has found the place of a block, the block lies between two
\* neighbours of the list.
LEMMA PlacedFacts ==
  ASSUME NEW k, KernelUse(k), NEW F \in SUBSET Cells, Sound(k, F),
         NEW c, NEW a, NEW n, FoundPlace(k, c, a, n)
  PROVE  AtPlace(k, F, c, a, n)
<1> USE DEF FoundPlace
<1>1. /\ call[k].op = "kfree" /\ c \in F /\ c < a /\ a \in Ats
      /\ memSlot \in F /\ memSlot <= c
  BY DEF Looping, Sound, CallSound, Ats
<1>2. /\ Return(k, TRUE) /\ mallocs' = mallocs /\ memSlot' = memSlot
      /\ blocks' = {b \in blocks : b.id # call[k].id}
  BY DEF TakeBack
<1>3. PICK b \in blocks : b.at = a /\ b.id = call[k].id
  BY <1>1 DEF Sound, CallSound
<1>4. \A d \in blocks' : d.at # a
  BY <1>2, <1>3 DEF Sound, Held
<1>5. a \in Cells /\ a \notin F
  BY <1>3 DEF Sound, Held
<1>6. c \in Cells /\ c \in Nat /\ a \in Nat /\ memSlot \in Nat
  BY <1>1, <1>5, CellFacts
<1>7. n \in Nat /\ (n # NULL => n \in F)
  BY <1>1, <1>6 DEF Sound, Headers, Linked
<1>8. n # NULL => a < n
  BY <1>6, <1>7 DEF Placed
<1> QED BY <1>1, <1>2, <1>4, <1>5, <1>6, <1>7, <1>8 DEF AtPlace

\* Case G: the block at a takes in the chunk behind it.
LEMMA KfreeRightInv ==
  ASSUME NEW k, KernelUse(k), NEW F \in SUBSET Cells, Sound(k, F), KfreeRight(k)
  PROVE  MemInv(k, "any")'
<1>1. PICK c, a, m, n, s :
        /\ c = call[k].curr /\ a = call[k].arg /\ m = hdr[c].next /\ n = hdr[m].next
        /\ s = hdr[a].size + hdr[m].size + HDR
  OBVIOUS
<1> DEFINE E == (F \ {m}) \cup {a}
           H1 == SetNext(hdr, c, a)
           H2 == SetPrev(H1, n, a)
<1>2. /\ hdr' = CompleteHeader(H2, a, s, c, n) /\ m # NULL /\ Stop(hdr, a) = m
      /\ Looping(k, "kfree") /\ Placed(k) /\ TakeBack(k)
  BY <1>1 DEF KfreeRight, End, Stop
<1>3. /\ call[k].op # "kmalloc" /\ Return(k, TRUE) /\ mallocs' = mallocs
      /\ c \in F /\ c \in Cells /\ c \in Nat
      /\ a \in Cells /\ a \in Nat /\ a \in Ats /\ a \notin F /\ c < a
      /\ m \in Nat /\ m \in F /\ a < m
      /\ memSlot' = memSlot /\ memSlot \in F /\ memSlot \in Nat /\ memSlot <= c
      /\ blocks' \subseteq blocks /\ \A d \in blocks' : d.at # a
  <2>1. FoundPlace(k, c, a, m)
    BY <1>1, <1>2 DEF FoundPlace
  <2>2. AtPlace(k, F, c, a, m)
    BY <2>1, PlacedFacts
  <2> QED BY <1>2, <2>2 DEF AtPlace
<1>4. /\ hdr \in Headers /\ mallocs \in Nat /\ F \cup Ats \in SUBSET Cells
      /\ Linked(F, hdr) /\ F \cap Ats = {}
      /\ Apart(F \cup Ats, hdr) /\ Bounded(F \cup Ats, hdr, mallocs)
      /\ HOLESTART + HDR * mallocs < HOLEEND
  BY <1>3, FreeFacts
<1>5. s \in Nat /\ n \in Nat
  <2>1. hdr[a].size \in Nat /\ hdr[m].size \in Nat /\ hdr[m].next \in Nat
    BY <1>3, <1>4 DEF Headers
  <2>2. n = hdr[m].next /\ s = hdr[a].size + hdr[m].size + HDR
    BY <1>1
  <2>3. n \in Nat
    BY <2>1, <2>2
  <2>4. hdr[a].size + hdr[m].size + HDR \in Nat
    BY <2>1 DEF HDR
  <2> QED BY <2>2, <2>3, <2>4
<1>6. /\ H1 \in Headers
      /\ \A x \in Cells : /\ H1[x].size = hdr[x].size
                          /\ H1[x].prev = hdr[x].prev
                          /\ H1[x].next = IF x = c THEN a ELSE hdr[x].next
  <2>1. hdr \in Headers /\ a \in Nat
    BY <1>3, <1>4
  <2> QED BY <2>1, Next
<1> HIDE DEF H1
<1>7. /\ H2 \in Headers
      /\ \A x \in Cells : /\ H2[x].size = H1[x].size
                          /\ H2[x].next = H1[x].next
                          /\ H2[x].prev = IF x = n THEN a ELSE H1[x].prev
  <2>1. H1 \in Headers /\ a \in Nat
    BY <1>3, <1>6
  <2> QED BY <2>1, Prev
<1> HIDE DEF H2
<1>8. /\ hdr' \in Headers
      /\ hdr'[a] = Header(s, c, n)
      /\ \A x \in Cells : x # a => hdr'[x] = H2[x]
  <2>1. H2 \in Headers /\ a \in Cells /\ s \in Nat /\ c \in Nat /\ n \in Nat
    BY <1>3, <1>5, <1>7
  <2>2. /\ CompleteHeader(H2, a, s, c, n) \in Headers
        /\ CompleteHeader(H2, a, s, c, n)[a] = Header(s, c, n)
        /\ \A x \in Cells : x # a => CompleteHeader(H2, a, s, c, n)[x] = H2[x]
    BY <2>1, Complete
  <2> QED BY <1>2, <2>2
<1>9. /\ hdr'[a].size = s /\ hdr'[a].next = n /\ hdr'[a].prev = c
      /\ \A x \in Cells : x # a =>
           /\ hdr'[x].size = hdr[x].size
           /\ hdr'[x].next = IF x = c THEN a ELSE hdr[x].next
           /\ hdr'[x].prev = IF x = n THEN a ELSE hdr[x].prev
  BY <1>6, <1>7, <1>8 DEF Header
<1>10. Linked(E, hdr')
  <2>1. hdr[m].prev = c
    BY <1>1, <1>2, <1>3, <1>4 DEF Linked
  <2>2. \A y \in F \ {m} : y < m <=> y < a
    <3>1. \A y \in F : y \in Nat
      BY CellFacts
    <3>2. \A y \in F : c < y => m <= y
      BY <1>1, <1>3, <1>4 DEF Linked
    <3> QED BY <1>3, <3>1, <3>2
  <2>3. \A x \in F \ {m} :
          /\ hdr'[x].next = IF x = hdr[m].prev THEN a ELSE hdr[x].next
          /\ hdr'[x].prev = IF x = hdr[m].next THEN a ELSE hdr[x].prev
    <3>1. \A x \in F \ {m} : x \in Cells /\ x # a
      BY <1>3
    <3>2. n = hdr[m].next
      BY <1>1
    <3> QED BY <1>9, <2>1, <3>1, <3>2
  <2>4. hdr'[a].next = hdr[m].next /\ hdr'[a].prev = hdr[m].prev
    BY <1>1, <1>9, <2>1
  <2>5. hdr \in Headers /\ Linked(F, hdr) /\ m \in F /\ a \in Cells /\ a \notin F
    BY <1>3, <1>4
  <2> QED BY <1>8, <2>2, <2>3, <2>4, <2>5, Replace
<1>11. E \in SUBSET Cells /\ E \subseteq F \cup {a} /\ memSlot' \in E
  BY <1>3
<1>12. Ats' \subseteq Ats
  BY <1>3 DEF Ats
<1>13. PICK A, D : A = F \cup Ats /\ D = E \cup Ats'
  OBVIOUS
<1>14. Apart(D, hdr') /\ Bounded(D, hdr', mallocs)
  <2>1. m \notin E /\ m \notin Ats'
    BY <1>3, <1>4, <1>12
  <2>2. D \in SUBSET A /\ a \in D /\ m \in A /\ m \notin D
    BY <1>3, <1>11, <1>12, <1>13, <2>1
  <2>3. \A x \in D \ {a} : hdr'[x].size = hdr[x].size
    BY <1>4, <1>9, <1>13, <2>2
  <2>4. MergedAt(A, D, hdr, hdr', a, m, mallocs)
    BY <1>1, <1>2, <1>4, <1>8, <1>9, <1>13, <2>2, <2>3 DEF MergedAt
  <2> QED BY <2>4, ApartMerge
<1> HIDE DEF E
<1>15. Freed(k, a, E, D)
  BY <1>3, <1>8, <1>9, <1>10, <1>11, <1>13, <1>14 DEF Freed
<1> QED BY <1>11, <1>15, FreedSound

\* Cases D and H: the block at a becomes a chunk behind curr.
LEMMA KfreeInsertInv ==
  ASSUME NEW k, KernelUse(k), NEW F \in SUBSET Cells, Sound(k, F), KfreeInsert(k)
  PROVE  MemInv(k, "any")'
<1>1. PICK c, a, n, s :
        c = call[k].curr /\ a = call[k].arg /\ n = hdr[c].next /\ s = hdr[a].size
  OBVIOUS
<1> DEFINE E == F \cup {a}
           H1 == CompleteHeader(hdr, a, s, c, n)
           H2 == SetNext(H1, c, a)
<1>2. /\ hdr' = SetPrev(H2, n, a)
      /\ Looping(k, "kfree") /\ Placed(k) /\ TakeBack(k)
  BY <1>1 DEF KfreeInsert
<1>3. /\ call[k].op # "kmalloc" /\ Return(k, TRUE) /\ mallocs' = mallocs
      /\ c \in F /\ c \in Cells /\ c \in Nat
      /\ a \in Cells /\ a \in Nat /\ a \in Ats /\ a \notin F /\ c < a
      /\ n \in Nat /\ (n # NULL => n \in F /\ a < n)
      /\ memSlot' = memSlot /\ memSlot \in F /\ memSlot \in Nat
      /\ blocks' \subseteq blocks /\ \A d \in blocks' : d.at # a
  <2>1. FoundPlace(k, c, a, n)
    BY <1>1, <1>2 DEF FoundPlace
  <2>2. AtPlace(k, F, c, a, n)
    BY <2>1, PlacedFacts
  <2> QED BY <1>2, <2>2 DEF AtPlace
<1>4. /\ hdr \in Headers /\ mallocs \in Nat /\ F \cup Ats \in SUBSET Cells
      /\ Linked(F, hdr)
      /\ Apart(F \cup Ats, hdr) /\ Bounded(F \cup Ats, hdr, mallocs)
  BY <1>3, FreeFacts
<1>5. s \in Nat
  BY <1>1, <1>3, <1>4 DEF Headers
<1>6. /\ H1 \in Headers
      /\ H1[a] = Header(s, c, n)
      /\ \A x \in Cells : x # a => H1[x] = hdr[x]
  <2>1. hdr \in Headers /\ a \in Cells /\ s \in Nat /\ c \in Nat /\ n \in Nat
    BY <1>3, <1>4, <1>5
  <2> QED BY <2>1, Complete
<1> HIDE DEF H1
<1>7. /\ H2 \in Headers
      /\ \A x \in Cells : /\ H2[x].size = H1[x].size
                          /\ H2[x].prev = H1[x].prev
                          /\ H2[x].next = IF x = c THEN a ELSE H1[x].next
  <2>1. H1 \in Headers /\ a \in Nat
    BY <1>3, <1>6
  <2> QED BY <2>1, Next
<1> HIDE DEF H2
<1>8. /\ hdr' \in Headers
      /\ \A x \in Cells : /\ hdr'[x].size = H2[x].size
                          /\ hdr'[x].next = H2[x].next
                          /\ hdr'[x].prev = IF x = n THEN a ELSE H2[x].prev
  <2>1. H2 \in Headers /\ a \in Nat
    BY <1>3, <1>7
  <2> QED BY <1>2, <2>1, Prev
<1>9. a # c /\ a # n
  BY <1>3, NoNullCell
<1>10. /\ hdr'[a].next = n /\ hdr'[a].prev = c
       /\ \A x \in Cells : hdr'[x].size = hdr[x].size
       /\ \A x \in Cells : x # a =>
            /\ hdr'[x].next = IF x = c THEN a ELSE hdr[x].next
            /\ hdr'[x].prev = IF x = n THEN a ELSE hdr[x].prev
  BY <1>1, <1>3, <1>6, <1>7, <1>8, <1>9 DEF Header
<1>11. Linked(E, hdr')
  <2>1. \A x \in F :
          /\ hdr'[x].next = IF x = c THEN a ELSE hdr[x].next
          /\ hdr'[x].prev = IF x = hdr[c].next THEN a ELSE hdr[x].prev
    BY <1>1, <1>3, <1>10
  <2>2. /\ hdr'[a].next = hdr[c].next /\ hdr'[a].prev = c
        /\ (hdr[c].next = NULL \/ a < hdr[c].next)
    BY <1>1, <1>3, <1>10
  <2>3. /\ hdr \in Headers /\ Linked(F, hdr) /\ c \in F /\ a \in Cells /\ a \notin F
        /\ c < a
    BY <1>3, <1>4
  <2>4. hdr' \in Headers
    BY <1>8
  <2> QED BY <2>1, <2>2, <2>3, <2>4, InsertAfterChunk
<1>12. E \in SUBSET Cells /\ E \subseteq F \cup {a} /\ memSlot' \in E
  BY <1>3
<1>13. Ats' \subseteq Ats
  BY <1>3 DEF Ats
<1>14. PICK A, D : A = F \cup Ats /\ D = E \cup Ats'
  OBVIOUS
<1>15. Apart(D, hdr') /\ Bounded(D, hdr', mallocs)
  <2>1. D \in SUBSET A /\ A \in SUBSET Cells
    BY <1>3, <1>4, <1>12, <1>13, <1>14
  <2>2. \A x \in D : hdr'[x].size = hdr[x].size
    BY <1>10, <2>1
  <2> QED BY <1>4, <1>8, <1>14, <2>1, <2>2, ApartSub
<1> HIDE DEF E
<1>16. Freed(k, a, E, D)
  BY <1>3, <1>8, <1>10, <1>11, <1>12, <1>14, <1>15 DEF Freed
<1> QED BY <1>12, <1>16, FreedSound

-----------------------------------------------------------------------------

\* Every step of kmalloc keeps the invariant.
LEMMA AllocateInv ==
  ASSUME NEW k, KernelUse(k), NEW F \in SUBSET Cells, Sound(k, F),
         NEW use, use = "allocate" => Open(F), Allocate(k)
  PROVE  MemInv(k, use)'
<1>1. ASSUME NEW size \in Sizes, Kmalloc(k, size) PROVE MemInv(k, use)'
  <2>1. Sound(k, F)' /\ hdr' = hdr
    BY <1>1, KmallocInv DEF Kmalloc
  <2> QED BY <2>1 DEF MemInv, Open
<1>2. CASE KmallocSplit(k)
  BY <1>2, KmallocSplitInv
<1>3. CASE KmallocTake(k)
  BY <1>3, KmallocTakeInv
<1>4. CASE KmallocNext(k)
  <2>1. Sound(k, F)' /\ hdr' = hdr
    BY <1>4, KmallocNextInv DEF KmallocNext
  <2> QED BY <2>1 DEF MemInv, Open
<1>5. CASE KmallocFails(k)
  <2>1. Return(k, FALSE) /\ UNCHANGED <<memSlot, hdr, blocks, mallocs>>
    BY <1>5 DEF KmallocFails
  <2>2. Sound(k, F)' /\ hdr' = hdr
    BY <2>1, OnlyReturns
  <2> QED BY <2>2 DEF MemInv, Open
<1> QED BY <1>1, <1>2, <1>3, <1>4, <1>5 DEF Allocate

\* Stuttering keeps the invariant.
LEMMA StutterInv ==
  ASSUME NEW k, NEW use, MemInv(k, use), UNCHANGED mvars
  PROVE  MemInv(k, use)'
<1>1. /\ memSlot' = memSlot /\ hdr' = hdr /\ call' = call /\ blocks' = blocks
      /\ mallocs' = mallocs /\ lost' = lost /\ overgrown' = overgrown
  BY DEF mvars
<1>2. ASSUME NEW F \in SUBSET Cells, Sound(k, F), use = "allocate" => Open(F)
      PROVE  MemInv(k, use)'
  <2>1. CallSound(k, F)' /\ Splits(k)' = Splits(k) /\ Ats' = Ats /\ Held(F)'
    BY <1>1, <1>2 DEF Sound, CallSound, Splits, Ats, Held
  <2>2. Sound(k, F)' /\ (use = "allocate" => Open(F)')
    BY <1>1, <1>2, <2>1 DEF Sound, Open
  <2> QED BY <2>2 DEF MemInv
<1>3. CASE use # "allocate" /\ overgrown
  BY <1>1, <1>3 DEF MemInv
<1>4. CASE lost /\ BlocksDisjoint
  BY <1>1, <1>4 DEF MemInv, BlocksDisjoint
<1> QED BY <1>2, <1>3, <1>4 DEF MemInv

\* Every step of the one caller keeps the invariant.
LEMMA StepInv ==
  ASSUME NEW k, KernelUse(k), MemInv(k, "any"), [MemNext]_mvars
  PROVE  MemInv(k, "any")'
<1>1. CASE UNCHANGED mvars
  BY <1>1, StutterInv
<1>2. ASSUME MemNext PROVE Enter(k) \/ Step(k)
  BY <1>2 DEF MemNext, KernelUse
<1>3. CASE overgrown /\ MemNext
  <2>1. overgrown'
    BY <1>2, <1>3 DEF Enter, Step, Kmalloc, KfreeRefuses, KfreeFront, KfreeEnter,
      KfreeFails, KmallocSplit, KmallocTake, KmallocNext, KmallocFails, KfreeNext,
      KfreeLeft, KfreeRight, KfreeInsert
  <2> QED BY <2>1 DEF MemInv
<1>4. CASE lost /\ MemNext
  BY <1>2, <1>4 DEF Enter, Step, Kmalloc, KfreeRefuses, KfreeFront, KfreeEnter, Kfree,
      KfreeFails, KmallocSplit, KmallocTake, KmallocNext, KmallocFails, KfreeNext,
      KfreeLeft, KfreeRight, KfreeInsert, Looping
<1>5. ASSUME NEW F \in SUBSET Cells, Sound(k, F), MemNext
      PROVE  MemInv(k, "any")'
  <2>1. CASE Allocate(k)
    BY <1>5, <2>1, AllocateInv
  <2>2. ASSUME NEW ptr, KfreeRefuses(k, ptr) PROVE MemInv(k, "any")'
    <3>1. Return(k, FALSE) /\ UNCHANGED <<memSlot, hdr, blocks, mallocs>>
      BY <2>2 DEF KfreeRefuses
    <3>2. Sound(k, F)'
      BY <1>5, <3>1, OnlyReturns
    <3> QED BY <3>2 DEF MemInv
  <2>3. ASSUME NEW b \in blocks, KfreeFront(k, b) PROVE MemInv(k, "any")'
    BY <1>5, <2>3, KfreeMergeFrontInv, KfreeFrontInv
  <2>4. ASSUME NEW b \in blocks, KfreeEnter(k, b) PROVE MemInv(k, "any")'
    <3>1. Sound(k, F)'
      BY <1>5, <2>4, KfreeEnterInv
    <3> QED BY <3>1 DEF MemInv
  <2>5. ASSUME NEW b \in blocks, KfreeFails(k, b) PROVE MemInv(k, "any")'
    <3>1. Return(k, FALSE) /\ UNCHANGED <<memSlot, hdr, blocks, mallocs>>
      BY <2>5 DEF KfreeFails
    <3>2. Sound(k, F)'
      BY <1>5, <3>1, OnlyReturns
    <3> QED BY <3>2 DEF MemInv
  <2>6. CASE KfreeNext(k)
    <3>1. Sound(k, F)'
      BY <1>5, <2>6, KfreeNextInv
    <3> QED BY <3>1 DEF MemInv
  <2>7. CASE KfreeLeft(k)
    BY <2>7 DEF KfreeLeft, MemInv
  <2>8. CASE KfreeRight(k)
    BY <1>5, <2>8, KfreeRightInv
  <2>9. CASE KfreeInsert(k)
    BY <1>5, <2>9, KfreeInsertInv
  <2>10. CASE Enter(k)
    BY <2>1, <2>2, <2>3, <2>4, <2>5, <2>10 DEF Enter, Allocate
  <2>11. CASE Step(k)
    BY <2>1, <2>6, <2>7, <2>8, <2>9, <2>11 DEF Step, Allocate
  <2> QED BY <1>2, <1>5, <2>10, <2>11
<1> QED BY <1>1, <1>3, <1>4, <1>5 DEF MemInv

\* Every step of a caller that never releases keeps the stronger invariant.
LEMMA AllocStepInv ==
  ASSUME NEW k, KernelUse(k), MemInv(k, "allocate"),
         [\E q \in Callers : Allocate(q)]_mvars
  PROVE  MemInv(k, "allocate")'
<1>1. CASE UNCHANGED mvars
  BY <1>1, StutterInv
<1>2. ASSUME \E q \in Callers : Allocate(q) PROVE Allocate(k)
  BY <1>2 DEF KernelUse
<1>3. CASE lost /\ Allocate(k)
  BY <1>3 DEF Allocate, Kmalloc, KmallocSplit, KmallocTake, KmallocNext,
      KmallocFails, Looping
<1>4. ASSUME NEW F \in SUBSET Cells, Sound(k, F), Open(F), Allocate(k)
      PROVE  MemInv(k, "allocate")'
  BY <1>4, AllocateInv
<1> QED BY <1>1, <1>2, <1>3, <1>4 DEF MemInv

\* This kernel never releases memory.  For every layout, every number of calls
\* and every set of request sizes that do not wrap, no two of the blocks that
\* kmalloc has given it share a byte (mem.c: kmeminit, kmalloc).
THEOREM KernelAllocsDisjoint ==
  ASSUME NEW k, KernelUse(k)
  PROVE  AllocSpec => []BlocksDisjoint
<1>1. MemInit => MemInv(k, "allocate")
  BY InitInv
<1>2. MemInv(k, "allocate") /\ [\E q \in Callers : Allocate(q)]_mvars
        => MemInv(k, "allocate")'
  BY AllocStepInv
<1>3. MemInv(k, "allocate") => BlocksDisjoint
  BY InvImplies
<1> QED BY <1>1, <1>2, <1>3, PTL DEF AllocSpec

\* A kernel that does release: for the same layouts and requests blocks stay
\* apart up to the first split of a chunk that has something behind it or the
\* first merge to the left, where the code does give out memory in use (mem.c:
\* kmalloc, kfree).
THEOREM KernelDisjointUntilOvergrown ==
  ASSUME NEW k, KernelUse(k)
  PROVE  MemSpec => []DisjointUntilOvergrown
<1>1. MemInit => MemInv(k, "any")
  BY InitInv
<1>2. MemInv(k, "any") /\ [MemNext]_mvars => MemInv(k, "any")'
  BY StepInv
<1>3. MemInv(k, "any") => DisjointUntilOvergrown
  BY InvImplies DEF DisjointUntilOvergrown
<1> QED BY <1>1, <1>2, <1>3, PTL DEF MemSpec

=============================================================================
