------------------------------- MODULE Memory -------------------------------
(***************************************************************************)
(* The Xeros memory manager (mem.c): kmeminit, kmalloc and kfree over a    *)
(* list of free chunks in two regions, before and after a hole.            *)
(*                                                                         *)
(* Addresses are byte addresses.  A header fills one 16 byte cell, and so  *)
(* all of the heap's structure is hdr, what the aligned cells hold when    *)
(* read as headers.  A call is entered in one step and then takes one step *)
(* per iteration of its loop.  With a single caller that is the kernel,    *)
(* where interrupts are off; with several it is user code, which a timer   *)
(* interrupt stops between any two of these steps.                         *)
(***************************************************************************)
EXTENDS Integers, FiniteSets

CONSTANTS
  freemem,     \* where free memory starts
  HOLESTART,
  HOLEEND,
  maxaddr,     \* the last address
  WORD,        \* 2^32: unsigned long wraps here
  Sizes,       \* arguments of kmalloc
  StrayPtrs,   \* arguments of kfree that are not blocks
  Callers,
  MaxMallocs   \* bound on the calls of kmalloc

HDR == 16      \* sizeof(struct memHeader)
NULL == 0

\* aligned()
Aligned(n) == IF n % 16 = 0 THEN n ELSE (n + 16 - (n % 16)) % WORD

Start == Aligned(freemem)

ASSUME LayoutAssumption ==
  /\ {freemem, HOLESTART, HOLEEND, maxaddr, WORD, MaxMallocs} \subseteq Nat
  /\ HOLESTART % 16 = 0 /\ HOLEEND % 16 = 0 /\ WORD % 16 = 0
  /\ 0 < freemem /\ freemem <= Start /\ Start + HDR <= HOLESTART
  /\ HOLESTART < HOLEEND /\ HOLEEND + HDR <= maxaddr
  /\ maxaddr < WORD
  /\ Sizes \subseteq 0..WORD-1
  /\ StrayPtrs \subseteq 0..WORD-1

\* Where a header can be stored.
Cells == {a \in Start..maxaddr+1-HDR :
            a % 16 = 0 /\ (a < HOLESTART \/ a >= HOLEEND)}

VARIABLES
  memSlot,
  hdr,        \* the cells, read as headers
  call,       \* per caller the call in progress
  ok,         \* per caller whether its last call answered anything but 0
  blocks,     \* what was handed out and not taken back
  mallocs,    \* calls of kmalloc so far
  lost,       \* a header was put in the hole or beyond maxaddr
  overgrown   \* see Inner

mvars == <<memSlot, hdr, call, ok, blocks, mallocs, lost, overgrown>>

Header(size, prev, next) ==
  [size |-> size, prev |-> prev, next |-> next, sanityCheck |-> size + HDR]

\* What kfree takes for a header and is none.
Blank == [size |-> 0, prev |-> NULL, next |-> NULL, sanityCheck |-> 0]

Idle == [op |-> "none", arg |-> 0, curr |-> NULL, id |-> 0]

\* kmeminit()
MemInit ==
  /\ hdr = [a \in Cells |->
              CASE a = Start -> Header(HOLESTART - Start - HDR, NULL, HOLEEND)
                [] a = HOLEEND -> Header(maxaddr - HOLEEND - HDR, Start, NULL)
                [] OTHER -> Blank]
  /\ memSlot = Start
  /\ call = [q \in Callers |-> Idle]
  /\ ok = [q \in Callers |-> TRUE]
  /\ blocks = {}
  /\ mallocs = 0
  /\ lost = FALSE
  /\ overgrown = FALSE

\* Stores into headers.  A store through NULL meets no header.
CompleteHeader(H, a, size, prev, next) ==
  IF a \in Cells THEN [H EXCEPT ![a] = Header(size, prev, next)] ELSE H
SetSize(H, a, size) ==
  [H EXCEPT ![a] = Header(size, H[a].prev, H[a].next)]
SetPrev(H, a, prev) ==
  IF a \in Cells THEN [H EXCEPT ![a].prev = prev] ELSE H
SetNext(H, a, next) ==
  IF a \in Cells THEN [H EXCEPT ![a].next = next] ELSE H

-----------------------------------------------------------------------------
(* kmalloc *)

\* Once a header is lost what the heap does next is not known.
Kmalloc(q, size) ==
  /\ ~lost /\ call[q] = Idle
  /\ mallocs < MaxMallocs
  /\ mallocs' = mallocs + 1
  /\ LET req_size == Aligned(size)
     IN call' = [call EXCEPT ![q] =
          [op |-> "kmalloc", arg |-> req_size, id |-> mallocs',
           curr |-> IF req_size = 0 THEN NULL ELSE memSlot]]
  /\ UNCHANGED <<memSlot, hdr, ok, blocks, lost, overgrown>>

Return(q, answer) ==
  /\ call' = [call EXCEPT ![q] = Idle]
  /\ ok' = [ok EXCEPT ![q] = answer]

\* The caller gets the chunk curr.
Give(q) ==
  /\ blocks' = blocks \cup
       {[id |-> call[q].id, at |-> call[q].curr, size |-> call[q].arg]}
  /\ Return(q, TRUE)

Looping(q, op) == ~lost /\ call[q].op = op /\ call[q].curr # NULL

\* curr holds more than the request and a header.
Roomy(q) == (call[q].arg + HDR) % WORD < hdr[call[q].curr].size
Fits(q)  == call[q].arg <= hdr[call[q].curr].size

\* The first byte behind the chunk.
End(a) == a + HDR + hdr[a].size

\* A chunk that ends before its region does: only kfree makes such chunks, and
\* splitting one lets the rest reach into what follows it.
Inner(a) == End(a) < (IF a < HOLESTART THEN HOLESTART ELSE maxaddr)

\* Where the rest of a split chunk starts.
Rest(q) == (call[q].curr + HDR + call[q].arg) % WORD

\* Split curr.  The rest takes its place in the list and becomes memSlot, and
\* its size is not reduced by the header it needs.
KmallocSplit(q) ==
  /\ Looping(q, "kmalloc") /\ Roomy(q)
  /\ LET c == call[q].curr
         newHeader == Rest(q)
         H1 == SetSize(CompleteHeader(hdr, newHeader,
                                      (hdr[c].size - call[q].arg) % WORD,
                                      hdr[c].prev, hdr[c].next),
                       c, call[q].arg)
         H2 == SetPrev(H1, H1[c].next, newHeader)
     IN /\ hdr' = SetNext(H2, H2[c].prev, newHeader)
        /\ memSlot' = newHeader
        /\ lost' = (newHeader \notin Cells)
        /\ overgrown' = (overgrown \/ Inner(c))
  /\ Give(q)
  /\ UNCHANGED mallocs

KmallocTakeForgetsPrev(q) ==
  /\ Looping(q, "kmalloc") /\ ~Roomy(q) /\ Fits(q)
  /\ LET h == hdr[call[q].curr]
     IN /\ memSlot' = IF h.prev = NULL THEN h.next ELSE h.prev
        /\ hdr' = SetPrev(hdr, h.next, h.prev)
  /\ Give(q)
  /\ UNCHANGED <<mallocs, lost, overgrown>>

\* Take curr whole: the four cases of its neighbours.
KmallocTake(q) ==
  /\ Looping(q, "kmalloc") /\ ~Roomy(q) /\ Fits(q)
  /\ LET h == hdr[call[q].curr]
     IN /\ memSlot' = IF h.prev = NULL THEN h.next ELSE h.prev
        /\ hdr' = SetPrev(SetNext(hdr, h.prev, h.next), h.next, h.prev)
  /\ Give(q)
  /\ UNCHANGED <<mallocs, lost, overgrown>>

KmallocNext(q) ==
  /\ Looping(q, "kmalloc") /\ ~Roomy(q) /\ ~Fits(q)
  /\ call' = [call EXCEPT ![q].curr = hdr[call[q].curr].next]
  /\ UNCHANGED <<memSlot, hdr, ok, blocks, mallocs, lost, overgrown>>

KmallocFails(q) ==
  /\ ~lost /\ call[q].op = "kmalloc" /\ call[q].curr = NULL
  /\ Return(q, FALSE)
  /\ UNCHANGED <<memSlot, hdr, blocks, mallocs, lost, overgrown>>

-----------------------------------------------------------------------------
(* kfree *)

Sane(a) == a \in Cells /\ hdr[a].sanityCheck = hdr[a].size + HDR

\* The base case and the sanity check.
Refused(ptr) ==
  \/ ptr < Start \/ ptr > maxaddr
  \/ HOLESTART < ptr /\ ptr < HOLEEND
  \/ ptr # Aligned(ptr)
  \/ ~Sane(ptr - HDR)

KfreeRefuses(q, ptr) ==
  /\ ~lost /\ call[q] = Idle
  /\ Refused(ptr)
  /\ Return(q, FALSE)
  /\ UNCHANGED <<memSlot, hdr, blocks, mallocs, lost, overgrown>>

\* kfree() of the block b, past the checks.
Kfree(q, b) ==
  /\ ~lost /\ call[q] = Idle
  /\ b \in blocks /\ \A r \in Callers : call[r].id # b.id
  /\ ~Refused(b.at + HDR)

\* Case A, the block ends where memSlot starts, and case B, it lies before.
\* Whatever memSlot had in front of it is off the list.
KfreeFront(q, b) ==
  /\ Kfree(q, b)
  /\ b.at < memSlot
  /\ memSlot' = b.at
  /\ LET next == hdr[memSlot].next
     IN hdr' = IF End(b.at) = memSlot
               THEN SetPrev(CompleteHeader(hdr, b.at,
                              hdr[b.at].size + hdr[memSlot].size + HDR, NULL, next),
                            next, b.at)
               ELSE SetPrev(CompleteHeader(hdr, b.at, hdr[b.at].size, NULL, memSlot),
                            memSlot, b.at)
  /\ blocks' = blocks \ {b}
  /\ Return(q, TRUE)
  /\ UNCHANGED <<mallocs, lost, overgrown>>

\* The block lies behind memSlot: the loop starts there.  With no free memory
\* left, or when the block is memSlot itself, kfree fails.
KfreeEnter(q, b) ==
  /\ Kfree(q, b)
  /\ b.at > memSlot /\ memSlot # NULL
  /\ call' = [call EXCEPT ![q] =
                [op |-> "kfree", arg |-> b.at, curr |-> memSlot, id |-> b.id]]
  /\ UNCHANGED <<memSlot, hdr, ok, blocks, mallocs, lost, overgrown>>

KfreeFails(q, b) ==
  /\ Kfree(q, b)
  /\ memSlot \in {NULL, b.at}
  /\ Return(q, FALSE)
  /\ UNCHANGED <<memSlot, hdr, blocks, mallocs, lost, overgrown>>

\* The block belongs between curr and curr->next.
Placed(q) == LET next == hdr[call[q].curr].next
             IN next = NULL \/ next > call[q].arg

\* curr + curr->size + sizeof(struct memHeader) counts in headers, not bytes.
CurrEnd(c) == c + HDR * (hdr[c].size + HDR)

KfreeNext(q) ==
  /\ Looping(q, "kfree") /\ ~Placed(q)
  /\ call' = [call EXCEPT ![q].curr = hdr[call[q].curr].next]
  /\ UNCHANGED <<memSlot, hdr, ok, blocks, mallocs, lost, overgrown>>

TakeBack(q) ==
  /\ blocks' = {b \in blocks : b.id # call[q].id}
  /\ Return(q, TRUE)
  /\ UNCHANGED <<memSlot, mallocs, lost>>

\* Cases C, E and F: the block starts at CurrEnd.  Case E also takes in the
\* chunk behind it.
KfreeLeft(q) ==
  LET c == call[q].curr
      a == call[q].arg
      next == hdr[c].next
      both == next # NULL /\ End(a) = next
  IN /\ Looping(q, "kfree") /\ Placed(q)
     /\ a = CurrEnd(c)
     /\ hdr' = IF both
               THEN SetPrev(CompleteHeader(hdr, c,
                              hdr[c].size + hdr[a].size + hdr[next].size + 2 * HDR,
                              hdr[c].prev, hdr[next].next),
                            hdr[next].next, c)
               ELSE SetSize(hdr, c, hdr[c].size + hdr[a].size + HDR)
     /\ overgrown' = TRUE
     /\ TakeBack(q)

\* Case G: the block ends where curr->next starts.
KfreeRight(q) ==
  LET c == call[q].curr
      a == call[q].arg
      next == hdr[c].next
  IN /\ Looping(q, "kfree") /\ Placed(q)
     /\ a # CurrEnd(c) /\ next # NULL /\ End(a) = next
     /\ hdr' = CompleteHeader(SetPrev(SetNext(hdr, c, a), hdr[next].next, a), a,
                 hdr[a].size + hdr[next].size + HDR, c, hdr[next].next)
     /\ TakeBack(q)
     /\ UNCHANGED overgrown

KfreeInsertLinksFirst(q) ==
  LET c == call[q].curr
      a == call[q].arg
      H == SetNext(hdr, c, a)
  IN /\ Looping(q, "kfree") /\ Placed(q)
     /\ a # CurrEnd(c) /\ (hdr[c].next # NULL => End(a) # hdr[c].next)
     /\ hdr' = SetPrev(CompleteHeader(H, a, hdr[a].size, c, H[c].next), H[c].next, a)
     /\ TakeBack(q)
     /\ UNCHANGED overgrown

\* Cases D and H: the block becomes a chunk of its own.
KfreeInsert(q) ==
  LET c == call[q].curr
      a == call[q].arg
      next == hdr[c].next
  IN /\ Looping(q, "kfree") /\ Placed(q)
     /\ a # CurrEnd(c) /\ (next # NULL => End(a) # next)
     /\ hdr' = SetPrev(SetNext(CompleteHeader(hdr, a, hdr[a].size, c, next), c, a),
                       next, a)
     /\ TakeBack(q)
     /\ UNCHANGED overgrown

-----------------------------------------------------------------------------

Allocate(q) ==
  \/ \E size \in Sizes : Kmalloc(q, size)
  \/ KmallocSplit(q) \/ KmallocTake(q) \/ KmallocNext(q) \/ KmallocFails(q)

Enter(q) ==
  \/ \E size \in Sizes : Kmalloc(q, size)
  \/ \E ptr \in StrayPtrs \cup {b.at + HDR : b \in blocks} : KfreeRefuses(q, ptr)
  \/ \E b \in blocks : KfreeFront(q, b) \/ KfreeEnter(q, b) \/ KfreeFails(q, b)

Step(q) ==
  \/ KmallocSplit(q) \/ KmallocTake(q) \/ KmallocNext(q) \/ KmallocFails(q)
  \/ KfreeNext(q) \/ KfreeLeft(q) \/ KfreeRight(q) \/ KfreeInsert(q)

MemNext == \E q \in Callers : Enter(q) \/ Step(q)

MemSpec == MemInit /\ [][MemNext]_mvars

\* A call that was entered keeps running.
FairMemSpec == MemSpec /\ \A q \in Callers : WF_mvars(Step(q))

\* All that this kernel and its programs do with the heap: nothing in the
\* repository calls kfree.
AllocSpec == MemInit /\ [][\E q \in Callers : Allocate(q)]_mvars

-----------------------------------------------------------------------------
(* Properties. *)

\* No two blocks in use share a byte, headers included (mem.c: kmalloc, kfree).
\* It holds of a kernel that only allocates, although no split pays for the
\* header it makes.  It does not hold once a released chunk is split, nor with
\* several callers whose calls the timer interrupts.
BlocksDisjoint ==
  \A b, c \in blocks :
    b = c \/ b.at + HDR + b.size <= c.at \/ c.at + HDR + c.size <= b.at

\* With releases, blocks stay apart up to the first split of a chunk that has
\* something behind it or the first merge to the left, and not beyond: through
\* whole chunks taken, releases in every position and merges to the right
\* (mem.c: kmalloc, kfree).
DisjointUntilOvergrown == overgrown \/ BlocksDisjoint

\* Every call that such a split or merge did not come before returns, also when
\* kmalloc has moved memSlot into the middle of the list or a release has cut
\* off what is before it.  After one of them a header may come to link to
\* itself, and kmalloc does not return (mem.c).
ReturnsUntilOvergrown ==
  \A q \in Callers : call[q].op # "none" ~> call[q].op = "none" \/ overgrown

=============================================================================
