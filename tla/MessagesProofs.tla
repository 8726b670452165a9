--------------------------- MODULE MessagesProofs ---------------------------
(***************************************************************************)
(* Proofs about module Messages, for every set of processes and up to the  *)
(* first send that an old value misleads:                                  *)
(*   SendersStayQueued   a process' queue holds the senders blocked on it; *)
(*   MessagesArrive      a message reaches the process it was sent to.     *)
(***************************************************************************)
EXTENDS Messages, Threads

Procs0 == Procs \cup {NULL}

-----------------------------------------------------------------------------
(* The ready list. *)

Distinct(L) == \A i, j \in 1..Len(L) : L[i] = L[j] => i = j
Members(L) == {L[i] : i \in 1..Len(L)}

\* Appending a process that is not on the list.
LEMMA AppendDistinct ==
  ASSUME NEW L \in Seq(Procs), Distinct(L), NEW x \in Procs, x \notin Members(L)
  PROVE  /\ Append(L, x) \in Seq(Procs) /\ Distinct(Append(L, x))
         /\ Members(Append(L, x)) = Members(L) \cup {x}
<1>1. PICK M : M = Append(L, x)
  OBVIOUS
<1>2. /\ M \in Seq(Procs) /\ Len(M) = Len(L) + 1 /\ Len(L) \in Nat
      /\ M[Len(L) + 1] = x /\ \A i \in 1..Len(L) : M[i] = L[i]
  BY <1>1
<1>3. \A i \in 1..Len(M) : i \in 1..Len(L) \/ i = Len(L) + 1
  BY <1>2
<1>4. \A i \in 1..Len(L) : L[i] # x
  BY DEF Members
<1>5. Distinct(M)
  <2> SUFFICES ASSUME NEW i \in 1..Len(M), NEW j \in 1..Len(M), M[i] = M[j]
               PROVE  i = j
    BY DEF Distinct
  <2> QED
    BY <1>2, <1>3, <1>4 DEF Distinct
<1>6. Members(M) = Members(L) \cup {x}
  <2>1. \A i \in 1..Len(L) : i \in 1..Len(M)
    BY <1>2
  <2>2. Len(L) + 1 \in 1..Len(M)
    BY <1>2
  <2> QED
    BY <1>2, <1>3, <2>1, <2>2 DEF Members
<1> QED
  BY <1>1, <1>2, <1>5, <1>6

\* next() takes the head of a list without repetitions.
LEMMA DispatchDistinct ==
  ASSUME NEW L \in Seq(Procs), Distinct(L), Dispatch(L)
  PROVE  /\ readyList' \in Seq(Procs) /\ Distinct(readyList')
         /\ p' \in Members(L) \cup {NULL} /\ p' \notin Members(readyList')
         /\ Members(readyList') \subseteq Members(L)
         /\ Members(L) \subseteq Procs
<1>0. Members(L) \subseteq Procs
  BY DEF Members
<1>1. CASE L = <<>>
  <2>1. p' = NULL /\ readyList' = <<>> /\ Len(<<>>) = 0
    BY <1>1 DEF Dispatch
  <2>2. Members(<<>>) = {}
    BY DEF Members
  <2> QED
    BY <1>0, <1>1, <2>1, <2>2
<1>2. CASE L # <<>>
  <2>1. p' = L[1] /\ readyList' = Tail(L)
    BY <1>2 DEF Dispatch
  <2>2. /\ readyList' \in Seq(Procs) /\ Len(L) \in Nat /\ Len(L) # 0
        /\ Len(readyList') = Len(L) - 1
        /\ \A i \in 1..Len(L)-1 : readyList'[i] = L[i+1]
    BY <1>2, <2>1
  <2>3. \A i \in 1..Len(readyList') :
          i + 1 \in 1..Len(L) /\ i + 1 # 1 /\ readyList'[i] = L[i+1]
    BY <2>2
  <2>4. 1 \in 1..Len(L)
    BY <2>2
  <2>5. Distinct(readyList')
    <3> SUFFICES ASSUME NEW i \in 1..Len(readyList'), NEW j \in 1..Len(readyList'),
                        readyList'[i] = readyList'[j]
                 PROVE  i = j
      BY DEF Distinct
    <3>1. i + 1 = j + 1
      BY <2>3 DEF Distinct
    <3> QED
      BY <3>1
  <2>6. p' \in Members(L) /\ p' \notin Members(readyList')
    BY <2>1, <2>3, <2>4 DEF Members, Distinct
  <2>7. Members(readyList') \subseteq Members(L)
    BY <2>3 DEF Members
  <2> QED
    BY <1>0, <2>2, <2>5, <2>6, <2>7
<1> QED
  BY <1>1, <1>2

-----------------------------------------------------------------------------
(* The queues of senders. *)

\* The processes blocked in send to d, when st are the states and w the
\* values of waitingPid.
SendersTo(st, w, d) == {s \in Procs : st[s] = "BLOCKED_SEND" /\ w[s] = d}

\* Each queue holds the senders blocked on its process, in the order of r, and
\* their messages are for that process.
Queues(q, next, st, w, b, r) ==
  /\ q \in [Procs -> Procs0] /\ next \in [Procs -> Procs0]
  /\ r \in [Procs -> Int]
  /\ \A d \in Procs : Threads(next, q[d], NULL, SendersTo(st, w, d), r)
  /\ \A s \in Procs : st[s] = "BLOCKED_SEND" => w[s] \in Procs /\ b[s] = w[s]

\* What the walk along senderNext meets.
LEMMA QueueHolds ==
  ASSUME NEW d \in Procs, senderQueue \in [Procs -> Procs0],
         senderNext \in [Procs -> Procs0],
         NEW C \in SUBSET Procs, NEW r,
         Threads(senderNext, senderQueue[d], NULL, C, r)
  PROVE  /\ ToSet(Queue(d)) = C
         /\ Len(Queue(d)) = Cardinality(C)
         /\ senderQueue[d] # NULL =>
              Last(Queue(d)) \in C /\ senderNext[Last(Queue(d))] = NULL
         /\ \A f \in C \ {senderQueue[d]} :
              \E prev \in C : /\ senderNext[prev] = f
                              /\ \A s \in C : senderNext[s] = f => s = prev
<1>1. PICK at : at = SenderAt(d)
  OBVIOUS
<1>2. NULL \notin Procs /\ IsFiniteSet(Procs) /\ NULL \notin C
  BY ProcsAssumption
<1>3. Follows(at, senderNext, senderQueue[d], NULL)
  <2>1. PICK f : Follows(f, senderNext, senderQueue[d], NULL)
    BY <1>2, Followed DEF Procs0
  <2> QED
    BY <1>1, <2>1 DEF SenderAt, Follows
<1>4. PICK n : n = Cardinality(Procs)
  OBVIOUS
<1>5. n \in Nat /\ IsFiniteSet(C) /\ Cardinality(C) <= n
  BY <1>2, <1>4, FS_CardinalityType, FS_Subset
<1>6. PICK m \in 0..n :
        /\ {i \in 0..n : at[i] # NULL} = 0..m-1
        /\ Cardinality(0..m-1) = m
        /\ {at[i-1] : i \in 1..m} = C /\ Cardinality(C) = m
        /\ m # 0 => at[m-1] \in C /\ senderNext[at[m-1]] = NULL
  BY <1>2, <1>3, <1>5, WalkLength
<1>7. Queue(d) = [i \in 1..m |-> at[i-1]]
  BY <1>1, <1>4, <1>6 DEF Queue
<1>8. ToSet(Queue(d)) = C
  <2>1. DOMAIN Queue(d) = 1..m /\ \A i \in 1..m : Queue(d)[i] = at[i-1]
    BY <1>7
  <2>2. ToSet(Queue(d)) = {Queue(d)[i] : i \in 1..m}
    BY <2>1 DEF ToSet
  <2>3. {Queue(d)[i] : i \in 1..m} = {at[i-1] : i \in 1..m}
    BY <2>1
  <2> QED
    BY <1>6, <2>2, <2>3
<1>9. m \in Nat /\ Len(Queue(d)) = m
  <2>1. m \in Nat
    BY <1>5, <1>6
  <2> QED
    BY <1>7, <2>1
<1>10. senderQueue[d] # NULL =>
         Last(Queue(d)) \in C /\ senderNext[Last(Queue(d))] = NULL
  <2> SUFFICES ASSUME senderQueue[d] # NULL
               PROVE  Last(Queue(d)) \in C /\ senderNext[Last(Queue(d))] = NULL
    OBVIOUS
  <2>1. m # 0
    <3>1. senderQueue[d] \in C
      BY DEF Threads
    <3>2. PICK i \in 1..m : TRUE
      BY <1>6, <3>1
    <3> QED
      BY <3>2
  <2>2. m \in 1..m
    BY <1>9, <2>1
  <2>3. Last(Queue(d)) = at[m-1]
    BY <1>7, <1>9, <2>2 DEF Last
  <2> QED
    BY <1>6, <2>1, <2>3
<1>11. ASSUME NEW f \in C \ {senderQueue[d]}
       PROVE  \E prev \in C : /\ senderNext[prev] = f
                              /\ \A s \in C : senderNext[s] = f => s = prev
  <2>1. at[n] = NULL
    BY <1>2, <1>3, <1>5, ListEnds
  <2> QED
    BY <1>2, <1>3, <1>5, <2>1, OneBefore
<1> QED
  BY <1>6, <1>8, <1>9, <1>10, <1>11

-----------------------------------------------------------------------------
(* The inductive invariant. *)

MsgStates == {"READY", "BLOCKED_SEND", "BLOCKED_RECV"}

\* The process that runs and the ready ones, each of them once, are READY.
ReadyOK ==
  /\ p \in Procs0 /\ readyList \in Seq(Procs) /\ Distinct(readyList)
  /\ p \notin Members(readyList)
  /\ state \in [Procs -> MsgStates]
  /\ \A s \in Members(readyList) : state[s] = "READY"
  /\ p # NULL => state[p] = "READY"

QueuesOK ==
  /\ waitingPid \in [Procs -> Procs0 \cup {ANY}]
  /\ buffer \in [Procs -> Procs0]
  /\ \E r : Queues(senderQueue, senderNext, state, waitingPid, buffer, r)

GotOK == got \in [Procs -> Procs0] /\ \A s \in Procs : got[s] \in {NULL, s}

MsgInv == stale \in BOOLEAN /\ (stale \/ (ReadyOK /\ QueuesOK /\ GotOK))

\* Before the first call.
LEMMA InitMsg == MsgInit => MsgInv
<1> SUFFICES ASSUME MsgInit PROVE MsgInv
  OBVIOUS
<1>1. NULL \in Procs0 /\ Procs \subseteq Procs0 /\ IsFiniteSet(Procs)
  BY ProcsAssumption DEF Procs0
<1>2. PICK n : n = Cardinality(Procs)
  OBVIOUS
<1>3. /\ n \in Nat /\ readyList \in [1..n -> Procs]
      /\ \A i, j \in 1..n : i # j => readyList[i] # readyList[j]
  BY <1>1, <1>2, FS_CardinalityType DEF MsgInit, SetToSeqs
<1>4. readyList \in Seq(Procs) /\ Len(readyList) = n
  BY <1>3
<1>5. Members(readyList) \subseteq Procs /\ Distinct(readyList)
  BY <1>3, <1>4 DEF Members, Distinct
<1>6. ReadyOK
  <2>1. p = NULL /\ NULL \notin Procs /\ state = [s \in Procs |-> "READY"]
    BY ProcsAssumption DEF MsgInit
  <2> QED
    BY <1>1, <1>4, <1>5, <2>1 DEF ReadyOK, MsgStates
<1>7. QueuesOK
  <2>1. PICK r : r = [s \in Procs |-> 0]
    OBVIOUS
  <2>2. /\ state = [s \in Procs |-> "READY"]
        /\ waitingPid = [s \in Procs |-> NULL]
        /\ buffer = [s \in Procs |-> NULL]
        /\ senderQueue = [s \in Procs |-> NULL]
        /\ senderNext = [s \in Procs |-> NULL]
    BY DEF MsgInit
  <2>3. \A d \in Procs : SendersTo(state, waitingPid, d) = {}
    BY <2>2 DEF SendersTo
  <2>4. \A d \in Procs : Threads(senderNext, senderQueue[d], NULL, {}, r)
    BY <2>2 DEF Threads
  <2>5. Queues(senderQueue, senderNext, state, waitingPid, buffer, r)
    BY <1>1, <2>1, <2>2, <2>3, <2>4 DEF Queues
  <2> QED
    BY <1>1, <2>2, <2>5 DEF QueuesOK
<1>8. GotOK /\ stale = FALSE
  BY <1>1 DEF MsgInit, GotOK
<1> QED
  BY <1>6, <1>7, <1>8 DEF MsgInv

\* The queues stay when the processes whose state changes neither were nor
\* become blocked in send.
LEMMA QueuesKept ==
  ASSUME NEW q, NEW next, NEW st, NEW w, NEW b, NEW r,
         Queues(q, next, st, w, b, r), NEW st2, NEW w2, NEW b2,
         \A s \in Procs :
           /\ st2[s] = "BLOCKED_SEND" <=> st[s] = "BLOCKED_SEND"
           /\ st[s] = "BLOCKED_SEND" => w2[s] = w[s] /\ b2[s] = b[s]
  PROVE  Queues(q, next, st2, w2, b2, r)
<1>1. \A d \in Procs : SendersTo(st2, w2, d) = SendersTo(st, w, d)
  BY DEF SendersTo
<1> QED
  BY <1>1 DEF Queues

\* What send() writes when s blocks on d.
Queueing(s, d, q2, next2, st2, w2, b2) ==
  /\ q2 = [senderQueue EXCEPT ![d] = IF @ = NULL THEN s ELSE @]
  /\ next2 = IF senderQueue[d] = NULL THEN senderNext
             ELSE [senderNext EXCEPT ![Last(Queue(d))] = s]
  /\ st2 = [state EXCEPT ![s] = "BLOCKED_SEND"]
  /\ w2 = [waitingPid EXCEPT ![s] = d]
  /\ b2 = [buffer EXCEPT ![s] = d]

\* A sender behind the last one on d's queue.
LEMMA QueuesAppend ==
  ASSUME QueuesOK, state \in [Procs -> MsgStates], NEW r,
         Queues(senderQueue, senderNext, state, waitingPid, buffer, r),
         NEW s \in Procs, state[s] # "BLOCKED_SEND", senderNext[s] = NULL,
         NEW d \in Procs, NEW q2, NEW next2, NEW st2, NEW w2, NEW b2,
         Queueing(s, d, q2, next2, st2, w2, b2)
  PROVE  \E r2 : Queues(q2, next2, st2, w2, b2, r2)
<1>1. /\ NULL \notin Procs /\ s \in Procs0 /\ s # NULL
      /\ senderQueue \in [Procs -> Procs0] /\ senderNext \in [Procs -> Procs0]
      /\ waitingPid \in [Procs -> Procs0 \cup {ANY}] /\ buffer \in [Procs -> Procs0]
      /\ r \in [Procs -> Int]
  BY ProcsAssumption DEF QueuesOK, Queues, Procs0
<1>2. PICK S : S = [e \in Procs |-> SendersTo(state, waitingPid, e)]
  OBVIOUS
<1>3. \A e \in Procs : /\ S[e] = SendersTo(state, waitingPid, e)
                       /\ S[e] \subseteq Procs /\ s \notin S[e] /\ NULL \notin S[e]
                       /\ Threads(senderNext, senderQueue[e], NULL, S[e], r)
  BY <1>1, <1>2 DEF SendersTo, Queues
<1>4. \A e \in Procs \ {d} : S[e] \cap S[d] = {}
  BY <1>3 DEF SendersTo
<1>5. \A u \in Procs : /\ st2[u] = IF u = s THEN "BLOCKED_SEND" ELSE state[u]
                       /\ w2[u] = IF u = s THEN d ELSE waitingPid[u]
                       /\ b2[u] = IF u = s THEN d ELSE buffer[u]
  BY <1>1 DEF Queueing
<1>6. \A e \in Procs : SendersTo(st2, w2, e) = IF e = d THEN S[e] \cup {s} ELSE S[e]
  BY <1>3, <1>5 DEF SendersTo
<1>7. \A u \in Procs : st2[u] = "BLOCKED_SEND" => w2[u] \in Procs /\ b2[u] = w2[u]
  BY <1>5 DEF Queues
<1>8. /\ q2 \in [Procs -> Procs0] /\ q2[d] = IF senderQueue[d] = NULL THEN s ELSE senderQueue[d]
      /\ \A e \in Procs \ {d} : q2[e] = senderQueue[e]
  BY <1>1 DEF Queueing
<1>9. CASE senderQueue[d] = NULL
  <2>1. S[d] = {} /\ next2 = senderNext /\ q2[d] = s
    BY <1>3, <1>8, <1>9 DEF Threads, Queueing
  <2>2. Threads(next2, s, NULL, {s}, r)
    BY <1>1, <2>1 DEF Threads
  <2>3. \A e \in Procs : Threads(next2, q2[e], NULL, SendersTo(st2, w2, e), r)
    <3>1. ASSUME NEW e \in Procs, e # d
          PROVE  Threads(next2, q2[e], NULL, SendersTo(st2, w2, e), r)
      <4>1. SendersTo(st2, w2, e) = S[e] /\ q2[e] = senderQueue[e]
        BY <1>6, <1>8, <3>1
      <4>2. Threads(senderNext, senderQueue[e], NULL, S[e], r)
        BY <1>3
      <4> QED
        BY <2>1, <4>1, <4>2
    <3>2. Threads(next2, q2[d], NULL, SendersTo(st2, w2, d), r)
      BY <1>6, <2>1, <2>2
    <3> QED
      BY <3>1, <3>2
  <2>4. next2 \in [Procs -> Procs0] /\ r \in [Procs -> Int]
    BY <1>1, <2>1
  <2>5. Queues(q2, next2, st2, w2, b2, r)
    BY <1>7, <1>8, <2>3, <2>4 DEF Queues
  <2> QED
    BY <2>5
<1>10. CASE senderQueue[d] # NULL
  <2>1. PICK z : z = Last(Queue(d))
    OBVIOUS
  <2>2. z \in S[d] /\ z \in Procs /\ senderNext[z] = NULL /\ z # s
    <3>1. S[d] \in SUBSET Procs /\ Threads(senderNext, senderQueue[d], NULL, S[d], r)
      BY <1>3
    <3>2. Last(Queue(d)) \in S[d] /\ senderNext[Last(Queue(d))] = NULL
      BY <1>1, <1>10, <3>1, QueueHolds
    <3> QED
      BY <1>3, <2>1, <3>1, <3>2
  <2>3. next2 = [senderNext EXCEPT ![z] = s] /\ q2[d] = senderQueue[d]
    BY <1>8, <1>10, <2>1 DEF Queueing
  <2>4. /\ next2 \in [Procs -> Procs0] /\ next2[z] = s
        /\ \A u \in Procs \ {z} : next2[u] = senderNext[u]
    BY <1>1, <2>2, <2>3
  <2>5. PICK r2 : r2 = [r EXCEPT ![s] = r[z] + 1]
    OBVIOUS
  <2>6. /\ r2 \in [Procs -> Int] /\ r2[s] = r[z] + 1
        /\ \A u \in Procs \ {s} : r2[u] = r[u]
    BY <1>1, <2>2, <2>5
  <2>7. ASSUME NEW e \in Procs
        PROVE  Threads(senderNext, senderQueue[e], NULL, S[e], r2)
    <3>1. \A u \in S[e] : senderNext[u] = senderNext[u] /\ r2[u] = r[u]
      BY <1>3, <2>6
    <3> QED
      BY <1>3, <3>1, ThreadsKept
  <2>8. ASSUME NEW e \in Procs, e # d
        PROVE  Threads(next2, q2[e], NULL, SendersTo(st2, w2, e), r2)
    <3>1. \A u \in S[e] : next2[u] = senderNext[u] /\ r2[u] = r2[u]
      BY <1>3, <1>4, <2>2, <2>4, <2>8
    <3>2. Threads(next2, senderQueue[e], NULL, S[e], r2)
      BY <2>7, <3>1, ThreadsKept
    <3> QED
      BY <1>6, <1>8, <2>8, <3>2
  <2>9. Threads(next2, q2[d], NULL, SendersTo(st2, w2, d), r2)
    <3>1. /\ NULL \notin S[d] /\ s \notin S[d] /\ s # NULL
          /\ Threads(senderNext, senderQueue[d], NULL, S[d], r)
      BY <1>1, <1>3
    <3>2. /\ next2[z] = s /\ next2[s] = NULL
          /\ \A u \in S[d] \ {z} : next2[u] = senderNext[u]
      BY <1>1, <1>3, <2>2, <2>4
    <3>3. /\ r2[s] \in Int /\ r[z] < r2[s]
          /\ \A u \in S[d] : r2[u] = r[u]
      BY <1>1, <1>3, <2>2, <2>6
    <3>4. z \in S[d] /\ senderNext[z] = NULL
      BY <2>2
    <3>5. Threads(next2, senderQueue[d], NULL, S[d] \cup {s}, r2)
      BY <3>1, <3>2, <3>3, <3>4, ThreadsAppend
    <3> QED
      BY <1>6, <2>3, <3>5
  <2>10. \A e \in Procs : Threads(next2, q2[e], NULL, SendersTo(st2, w2, e), r2)
    BY <2>8, <2>9
  <2> QED
    BY <1>7, <1>8, <2>4, <2>6, <2>10 DEF Queues
<1> QED
  BY <1>9, <1>10

\* What recv() writes when it takes f off d's queue.
Unqueueing(f, d, q2, next2) ==
  \/ /\ senderQueue[d] = f
     /\ q2 = [senderQueue EXCEPT ![d] = senderNext[f]]
     /\ next2 = senderNext
  \/ /\ senderQueue[d] # f
     /\ q2 = senderQueue
     /\ next2 = [s \in Procs |-> IF senderNext[s] = f /\ s \in ToSet(Queue(d))
                                 THEN senderNext[f] ELSE senderNext[s]]

\* The other queues and the rest of d's queue stay when f is taken off.
LEMMA QueuesRemove ==
  ASSUME NEW r, Queues(senderQueue, senderNext, state, waitingPid, buffer, r),
         NEW d \in Procs, NEW f \in SendersTo(state, waitingPid, d),
         NEW q2, NEW next2, Unqueueing(f, d, q2, next2),
         NEW st2, \A u \in Procs : st2[u] = "BLOCKED_SEND" <=>
                                     u # f /\ state[u] = "BLOCKED_SEND"
  PROVE  Queues(q2, next2, st2, waitingPid, buffer, r)
<1>1. /\ NULL \notin Procs /\ r \in [Procs -> Int]
      /\ senderQueue \in [Procs -> Procs0] /\ senderNext \in [Procs -> Procs0]
  BY ProcsAssumption DEF Queues
<1>2. PICK S : S = [e \in Procs |-> SendersTo(state, waitingPid, e)]
  OBVIOUS
<1>3. \A e \in Procs : /\ S[e] = SendersTo(state, waitingPid, e)
                       /\ S[e] \subseteq Procs /\ NULL \notin S[e]
                       /\ Threads(senderNext, senderQueue[e], NULL, S[e], r)
  BY <1>1, <1>2 DEF SendersTo, Queues
<1>4. \A e \in Procs \ {d} : S[e] \cap S[d] = {}
  BY <1>3 DEF SendersTo
<1>5. f \in S[d] /\ f \in Procs /\ f # NULL
  BY <1>1, <1>3
<1>6. \A e \in Procs : SendersTo(st2, waitingPid, e) = IF e = d THEN S[e] \ {f} ELSE S[e]
  BY <1>3, <1>4, <1>5 DEF SendersTo
<1>7. \A u \in Procs : st2[u] = "BLOCKED_SEND" =>
                         waitingPid[u] \in Procs /\ buffer[u] = waitingPid[u]
  BY DEF Queues
<1>8. CASE senderQueue[d] = f
  <2>1. /\ q2 \in [Procs -> Procs0] /\ next2 = senderNext /\ q2[d] = senderNext[f]
        /\ \A e \in Procs \ {d} : q2[e] = senderQueue[e]
    BY <1>1, <1>5, <1>8 DEF Unqueueing
  <2>2. Threads(senderNext, senderNext[f], NULL, S[d] \ {f}, r)
    <3>1. NULL \notin S[d] /\ Threads(senderNext, f, NULL, S[d], r)
      BY <1>3, <1>8
    <3> QED
      BY <1>5, <3>1, ThreadsTail
  <2>3. ASSUME NEW e \in Procs
        PROVE  Threads(next2, q2[e], NULL, SendersTo(st2, waitingPid, e), r)
    <3>1. CASE e = d
      <4>1. SendersTo(st2, waitingPid, e) = S[d] \ {f} /\ q2[e] = senderNext[f]
        BY <1>6, <2>1, <3>1
      <4> QED
        BY <2>1, <2>2, <4>1
    <3>2. CASE e # d
      <4>1. SendersTo(st2, waitingPid, e) = S[e] /\ q2[e] = senderQueue[e]
        BY <1>6, <2>1, <3>2
      <4> QED
        BY <1>3, <2>1, <4>1
    <3> QED
      BY <3>1, <3>2
  <2>4. next2 \in [Procs -> Procs0]
    BY <1>1, <2>1
  <2> QED
    BY <1>1, <1>7, <2>1, <2>3, <2>4 DEF Queues
<1>9. CASE senderQueue[d] # f
  <2>1. S[d] \in SUBSET Procs /\ Threads(senderNext, senderQueue[d], NULL, S[d], r)
    BY <1>3
  <2>2. PICK C : C = S[d]
    OBVIOUS
  <2>2a. C \in SUBSET Procs /\ Threads(senderNext, senderQueue[d], NULL, C, r)
    BY <2>1, <2>2
  <2>2b. /\ ToSet(Queue(d)) = C
        /\ \A t \in C \ {senderQueue[d]} :
             \E prev \in C : /\ senderNext[prev] = t
                             /\ \A s \in C : senderNext[s] = t => s = prev
    BY <1>1, <2>2a, QueueHolds
  <2>3. PICK prev \in S[d] : /\ senderNext[prev] = f
                             /\ \A s \in S[d] : senderNext[s] = f => s = prev
    BY <1>5, <1>9, <2>2, <2>2b
  <2>4. q2 = senderQueue
        /\ next2 = [s \in Procs |-> IF senderNext[s] = f /\ s \in S[d]
                                    THEN senderNext[f] ELSE senderNext[s]]
    BY <1>9, <2>2, <2>2b DEF Unqueueing
  <2>5. next2 \in [Procs -> Procs0]
    BY <1>1, <1>5, <2>4
  <2>6. next2[prev] = senderNext[f] /\ \A s \in S[d] \ {prev, f} : next2[s] = senderNext[s]
    BY <1>3, <2>3, <2>4
  <2>7. \A s \in Procs \ S[d] : next2[s] = senderNext[s]
    BY <2>4
  <2>8. Threads(next2, senderQueue[d], NULL, S[d] \ {f}, r)
    <3>1. NULL \notin S[d] /\ Threads(senderNext, senderQueue[d], NULL, S[d], r)
      BY <1>3
    <3>2. f \in S[d] /\ prev \in S[d] /\ senderNext[prev] = f
      BY <1>5, <2>3
    <3> QED
      BY <2>6, <3>1, <3>2, ThreadsUnlink
  <2>9. ASSUME NEW e \in Procs
        PROVE  Threads(next2, q2[e], NULL, SendersTo(st2, waitingPid, e), r)
    <3>1. CASE e = d
      <4>1. SendersTo(st2, waitingPid, e) = S[d] \ {f} /\ q2[e] = senderQueue[d]
        BY <1>6, <2>4, <3>1
      <4> QED
        BY <2>8, <4>1
    <3>2. CASE e # d
      <4>1. SendersTo(st2, waitingPid, e) = S[e] /\ q2[e] = senderQueue[e]
        BY <1>6, <2>4, <3>2
      <4>2. \A u \in S[e] : next2[u] = senderNext[u] /\ r[u] = r[u]
        BY <1>3, <1>4, <2>7, <3>2
      <4>3. Threads(senderNext, senderQueue[e], NULL, S[e], r)
        BY <1>3
      <4>4. Threads(next2, senderQueue[e], NULL, S[e], r)
        BY <4>2, <4>3, ThreadsKept
      <4> QED
        BY <4>1, <4>4
    <3> QED
      BY <3>1, <3>2
  <2>10. q2 \in [Procs -> Procs0]
    BY <1>1, <2>4
  <2> QED
    BY <1>1, <1>7, <2>5, <2>9, <2>10 DEF Queues
<1> QED
  BY <1>8, <1>9

-----------------------------------------------------------------------------
(* The steps. *)

\* A call that finds its partner q readies both.
LEMMA PairReady ==
  ASSUME ReadyOK, p # NULL, NEW q \in Procs, state[q] # "READY", NEW n, Pair(q, n)
  PROVE  ReadyOK'
<1>1. /\ p \in Procs /\ readyList \in Seq(Procs) /\ Distinct(readyList)
      /\ p \notin Members(readyList) /\ q \notin Members(readyList) /\ p # q
      /\ Members(readyList) \subseteq Procs /\ state \in [Procs -> MsgStates]
  BY DEF ReadyOK, Procs0, Members
<1>2. PICK M : M = Append(readyList, q)
  OBVIOUS
<1>3. M \in Seq(Procs) /\ Distinct(M) /\ Members(M) = Members(readyList) \cup {q}
  BY <1>1, <1>2, AppendDistinct
<1>4. PICK L : L = Append(M, p)
  OBVIOUS
<1>5. L \in Seq(Procs) /\ Distinct(L) /\ Members(L) = Members(readyList) \cup {q, p}
  <2>1. p \notin Members(M)
    BY <1>1, <1>3
  <2>2. L \in Seq(Procs) /\ Distinct(L) /\ Members(L) = Members(M) \cup {p}
    BY <1>1, <1>3, <1>4, <2>1, AppendDistinct
  <2> QED
    BY <1>3, <2>2
<1>6. readyList \o <<q, p>> = L
  BY <1>1, <1>2, <1>4
<1>7. Dispatch(L) /\ state' = [state EXCEPT ![q] = "READY", ![p] = "READY"]
  BY <1>6 DEF Pair
<1>8. /\ state' \in [Procs -> MsgStates]
      /\ \A s \in Members(L) : state'[s] = "READY"
  <2>1. \A s \in Members(readyList) : state[s] = "READY"
    BY DEF ReadyOK
  <2> QED
    BY <1>1, <1>5, <1>7, <2>1 DEF MsgStates
<1>9. /\ readyList' \in Seq(Procs) /\ Distinct(readyList')
      /\ p' \in Members(L) \cup {NULL} /\ p' \notin Members(readyList')
      /\ Members(readyList') \subseteq Members(L) /\ Members(L) \subseteq Procs
  BY <1>5, <1>7, DispatchDistinct
<1>10. Distinct(readyList)' /\ p' \notin Members(readyList)'
       /\ \A s \in Members(readyList)' : state'[s] = "READY"
  BY <1>8, <1>9 DEF Distinct, Members
<1> QED
  BY <1>8, <1>9, <1>10 DEF ReadyOK, Procs0

\* A call that finds no partner leaves the cpu.
LEMMA BlockReady ==
  ASSUME ReadyOK, p # NULL, NEW st \in MsgStates,
         state' = [state EXCEPT ![p] = st], Dispatch(readyList)
  PROVE  ReadyOK'
<1>1. /\ p \in Procs /\ readyList \in Seq(Procs) /\ Distinct(readyList)
      /\ p \notin Members(readyList) /\ Members(readyList) \subseteq Procs
      /\ state \in [Procs -> MsgStates]
      /\ \A s \in Members(readyList) : state[s] = "READY"
  BY DEF ReadyOK, Procs0, Members
<1>2. /\ state' \in [Procs -> MsgStates]
      /\ \A s \in Members(readyList) : state'[s] = "READY"
  BY <1>1
<1>3. /\ readyList' \in Seq(Procs) /\ Distinct(readyList')
      /\ p' \in Members(readyList) \cup {NULL} /\ p' \notin Members(readyList')
      /\ Members(readyList') \subseteq Members(readyList)
  BY <1>1, DispatchDistinct
<1>4. Distinct(readyList)' /\ p' \notin Members(readyList)'
      /\ \A s \in Members(readyList)' : state'[s] = "READY"
  BY <1>2, <1>3 DEF Distinct, Members
<1> QED
  BY <1>1, <1>2, <1>3, <1>4 DEF ReadyOK, Procs0

\* A timer interrupt.
LEMMA PreemptReady ==
  ASSUME ReadyOK, Preempt
  PROVE  ReadyOK'
<1>1. /\ p \in Procs0 /\ readyList \in Seq(Procs) /\ Distinct(readyList)
      /\ p \notin Members(readyList) /\ Members(readyList) \subseteq Procs
      /\ state \in [Procs -> MsgStates] /\ state' = state
  BY DEF ReadyOK, Members, Preempt
<1>2. PICK L : L = IF p = NULL THEN readyList ELSE Append(readyList, p)
  OBVIOUS
<1>3. /\ L \in Seq(Procs) /\ Distinct(L)
      /\ Members(L) = Members(readyList) \cup (IF p = NULL THEN {} ELSE {p})
  <2>1. CASE p = NULL
    BY <1>1, <1>2, <2>1
  <2>2. CASE p # NULL
    <3>1. p \in Procs
      BY <1>1, <2>2 DEF Procs0
    <3> QED
      BY <1>1, <1>2, <2>2, <3>1, AppendDistinct
  <2> QED
    BY <2>1, <2>2
<1>4. \A s \in Members(L) : state'[s] = "READY"
  BY <1>1, <1>3 DEF ReadyOK
<1>5. Dispatch(L)
  BY <1>2 DEF Preempt
<1>6. /\ readyList' \in Seq(Procs) /\ Distinct(readyList')
      /\ p' \in Members(L) \cup {NULL} /\ p' \notin Members(readyList')
      /\ Members(readyList') \subseteq Members(L) /\ Members(L) \subseteq Procs
  BY <1>3, <1>5, DispatchDistinct
<1>7. Distinct(readyList)' /\ p' \notin Members(readyList)'
      /\ \A s \in Members(readyList)' : state'[s] = "READY"
  BY <1>4, <1>6 DEF Distinct, Members
<1> QED
  BY <1>1, <1>4, <1>6, <1>7 DEF ReadyOK, Procs0

\* send(): to a receiver, or onto its queue.
LEMMA SendStep ==
  ASSUME MsgInv, NEW d \in Procs, NEW len, Send(d, len)
  PROVE  MsgInv'
<1>1. /\ ReadyOK /\ QueuesOK /\ GotOK /\ p # NULL /\ p \in Procs
      /\ state[p] = "READY" /\ d # p /\ stale' \in BOOLEAN
  BY DEF MsgInv, Send, ReadyOK, Procs0
<1> SUFFICES ASSUME ~stale' PROVE ReadyOK' /\ QueuesOK' /\ GotOK'
  BY <1>1 DEF MsgInv
<1>2. state \in [Procs -> MsgStates] /\ d \in Procs0
  BY <1>1 DEF ReadyOK, Procs0
<1>3. PICK r : Queues(senderQueue, senderNext, state, waitingPid, buffer, r)
  BY <1>1 DEF QueuesOK
<1>4. CASE Receives(d)
  <2>1. /\ state[d] = "BLOCKED_RECV"
        /\ MemCpy(d, d) /\ Pair(d, MinLen(len, buffer_len[d]))
        /\ UNCHANGED <<waitingPid, buffer, senderQueue, senderNext>>
    BY <1>4 DEF Send
  <2>2. ReadyOK'
    BY <1>1, <2>1, PairReady
  <2>3. state' = [state EXCEPT ![d] = "READY", ![p] = "READY"]
    BY <2>1 DEF Pair
  <2>4. \A s \in Procs :
          /\ state'[s] = "BLOCKED_SEND" <=> state[s] = "BLOCKED_SEND"
          /\ state[s] = "BLOCKED_SEND" => waitingPid[s] = waitingPid[s] /\ buffer[s] = buffer[s]
    BY <1>1, <1>2, <2>1, <2>3
  <2>5. Queues(senderQueue, senderNext, state', waitingPid, buffer, r)
    BY <1>3, <2>4, QueuesKept
  <2>6. QueuesOK'
    BY <1>1, <2>1, <2>5 DEF QueuesOK
  <2>7. GotOK'
    BY <1>1, <1>2, <2>1 DEF GotOK, MemCpy
  <2> QED
    BY <2>2, <2>6, <2>7
<1>5. CASE ~Receives(d)
  <2>1. /\ senderNext[p] = NULL /\ got' = got
        /\ senderQueue' = [senderQueue EXCEPT ![d] = IF @ = NULL THEN p ELSE @]
        /\ senderNext' = Appended(d) /\ Block("BLOCKED_SEND", d, d, len)
    BY <1>5 DEF Send
  <2>2. ReadyOK'
    BY <1>1, <2>1, BlockReady DEF Block, MsgStates
  <2>3. Queueing(p, d, senderQueue', senderNext', state', waitingPid', buffer')
    BY <2>1 DEF Block, Queueing, Appended
  <2>4. \E r2 : Queues(senderQueue', senderNext', state', waitingPid', buffer', r2)
    BY <1>1, <1>2, <1>3, <2>1, <2>3, QueuesAppend
  <2>5. waitingPid' \in [Procs -> Procs0 \cup {ANY}] /\ buffer' \in [Procs -> Procs0]
    BY <1>1, <1>2, <2>1 DEF Block, QueuesOK
  <2>6. QueuesOK'
    BY <2>4, <2>5 DEF QueuesOK
  <2>7. GotOK'
    BY <1>1, <2>1 DEF GotOK
  <2> QED
    BY <2>2, <2>6, <2>7
<1> QED
  BY <1>4, <1>5

\* A receiver that finds no sender blocks and leaves the queues alone.
LEMMA ReceiverBlocks ==
  ASSUME ReadyOK, QueuesOK, GotOK, p # NULL, NEW w \in Procs0 \cup {ANY}, NEW len,
         Block("BLOCKED_RECV", w, NULL, len), UNCHANGED <<senderQueue, senderNext, got>>
  PROVE  ReadyOK' /\ QueuesOK' /\ GotOK'
<1>1. /\ p \in Procs /\ state[p] = "READY" /\ state \in [Procs -> MsgStates]
      /\ waitingPid \in [Procs -> Procs0 \cup {ANY}] /\ buffer \in [Procs -> Procs0]
      /\ NULL \in Procs0
  BY DEF ReadyOK, QueuesOK, Procs0
<1>2. ReadyOK'
  BY BlockReady DEF Block, MsgStates
<1>3. PICK r : Queues(senderQueue, senderNext, state, waitingPid, buffer, r)
  BY DEF QueuesOK
<1>4. /\ state' = [state EXCEPT ![p] = "BLOCKED_RECV"]
      /\ waitingPid' = [waitingPid EXCEPT ![p] = w]
      /\ buffer' = [buffer EXCEPT ![p] = NULL]
  BY DEF Block
<1>5. \A s \in Procs :
        /\ state'[s] = "BLOCKED_SEND" <=> state[s] = "BLOCKED_SEND"
        /\ state[s] = "BLOCKED_SEND" => waitingPid'[s] = waitingPid[s] /\ buffer'[s] = buffer[s]
  BY <1>1, <1>4
<1>6. Queues(senderQueue, senderNext, state', waitingPid', buffer', r)
  BY <1>3, <1>5, QueuesKept
<1>7. waitingPid' \in [Procs -> Procs0 \cup {ANY}] /\ buffer' \in [Procs -> Procs0]
  BY <1>1, <1>4
<1>8. QueuesOK'
  BY <1>6, <1>7 DEF QueuesOK
<1>9. GotOK'
  BY DEF GotOK
<1> QED
  BY <1>2, <1>8, <1>9

\* A receiver that takes the sender f off its queue gets a message for itself.
LEMMA ReceiverTakes ==
  ASSUME ReadyOK, QueuesOK, GotOK, p # NULL, NEW f \in Procs,
         state[f] = "BLOCKED_SEND", waitingPid[f] = p,
         MemCpy(p, buffer[f]), NEW n, Pair(f, n),
         Unqueueing(f, p, senderQueue', senderNext'),
         UNCHANGED <<waitingPid, buffer>>
  PROVE  ReadyOK' /\ QueuesOK' /\ GotOK'
<1>1. /\ p \in Procs /\ state[p] = "READY" /\ state \in [Procs -> MsgStates]
      /\ waitingPid \in [Procs -> Procs0 \cup {ANY}] /\ buffer \in [Procs -> Procs0]
  BY DEF ReadyOK, QueuesOK, Procs0
<1>2. ReadyOK'
  BY PairReady
<1>3. PICK r : Queues(senderQueue, senderNext, state, waitingPid, buffer, r)
  BY DEF QueuesOK
<1>4. state' = [state EXCEPT ![f] = "READY", ![p] = "READY"]
  BY DEF Pair
<1>5. \A u \in Procs : state'[u] = "BLOCKED_SEND" <=> u # f /\ state[u] = "BLOCKED_SEND"
  BY <1>1, <1>4
<1>6. f \in SendersTo(state, waitingPid, p)
  BY DEF SendersTo
<1>7. Queues(senderQueue', senderNext', state', waitingPid, buffer, r)
  BY <1>1, <1>3, <1>5, <1>6, QueuesRemove
<1>8. QueuesOK'
  BY <1>1, <1>7 DEF QueuesOK
<1>9. buffer[f] = p
  BY <1>3 DEF Queues
<1>10. GotOK'
  BY <1>1, <1>9 DEF GotOK, MemCpy, Procs0
<1> QED
  BY <1>2, <1>8, <1>10

\* recv keeps the invariant, whether it finds its sender on the queue or
\* blocks.
LEMMA RecvStep ==
  ASSUME MsgInv, NEW f \in Procs, NEW len, Recv(f, len)
  PROVE  MsgInv'
<1>1. /\ ReadyOK /\ QueuesOK /\ GotOK /\ p # NULL /\ stale' = stale
      /\ f \in Procs0 \cup {ANY} /\ stale \in BOOLEAN
  BY DEF MsgInv, Recv, Procs0
<1>2. CASE state[f] = "BLOCKED_SEND" /\ waitingPid[f] = p
  <2>1. /\ MemCpy(p, buffer[f]) /\ Pair(f, MinLen(len, buffer_len[f]))
        /\ Unlinked(f) /\ UNCHANGED <<waitingPid, buffer>>
    BY <1>2 DEF Recv
  <2>2. Unqueueing(f, p, senderQueue', senderNext')
    BY <2>1 DEF Unlinked, Unqueueing
  <2> QED
    BY <1>1, <1>2, <2>1, <2>2, ReceiverTakes DEF MsgInv
<1>3. CASE ~(state[f] = "BLOCKED_SEND" /\ waitingPid[f] = p)
  <2>1. Block("BLOCKED_RECV", f, NULL, len) /\ UNCHANGED <<senderQueue, senderNext, got>>
    BY <1>3 DEF Recv
  <2> QED
    BY <1>1, <2>1, ReceiverBlocks DEF MsgInv
<1> QED
  BY <1>2, <1>3

\* recvAny keeps the invariant, whether it takes the first sender or blocks.
LEMMA RecvAnyStep ==
  ASSUME MsgInv, NEW len, RecvAny(len)
  PROVE  MsgInv'
<1>1. /\ ReadyOK /\ QueuesOK /\ GotOK /\ p # NULL /\ p \in Procs /\ stale' = stale
      /\ ANY \in Procs0 \cup {ANY} /\ stale \in BOOLEAN
  BY DEF MsgInv, RecvAny, ReadyOK, Procs0
<1>2. CASE senderQueue[p] # NULL
  <2>1. PICK f : f = senderQueue[p]
    OBVIOUS
  <2>2. /\ MemCpy(p, buffer[f]) /\ Pair(f, MinLen(len, buffer_len[f]))
        /\ QueueAdvanced /\ UNCHANGED <<waitingPid, buffer, senderNext>>
    BY <1>2, <2>1 DEF RecvAny
  <2>3. f \in Procs /\ state[f] = "BLOCKED_SEND" /\ waitingPid[f] = p
    <3>1. PICK r : Queues(senderQueue, senderNext, state, waitingPid, buffer, r)
      BY <1>1 DEF QueuesOK
    <3>2. Threads(senderNext, senderQueue[p], NULL, SendersTo(state, waitingPid, p), r)
      BY <1>1, <3>1 DEF Queues
    <3>3. f \in SendersTo(state, waitingPid, p)
      BY <1>2, <2>1, <3>2 DEF Threads
    <3> QED
      BY <3>3 DEF SendersTo
  <2>4. Unqueueing(f, p, senderQueue', senderNext')
    BY <2>1, <2>2 DEF QueueAdvanced, Unqueueing
  <2> QED
    BY <1>1, <2>2, <2>3, <2>4, ReceiverTakes DEF MsgInv
<1>3. CASE senderQueue[p] = NULL
  <2>1. Block("BLOCKED_RECV", ANY, NULL, len) /\ UNCHANGED <<senderQueue, senderNext, got>>
    BY <1>3 DEF RecvAny
  <2> QED
    BY <1>1, <2>1, ReceiverBlocks DEF MsgInv
<1> QED
  BY <1>2, <1>3

\* The invariant holds in every state of the specification.
LEMMA MsgInvariant == MsgSpec => []MsgInv
<1>1. MsgInit => MsgInv
  BY InitMsg
<1>2. MsgInv /\ [MsgNext]_msgvars => MsgInv'
  <2> SUFFICES ASSUME MsgInv, [MsgNext]_msgvars PROVE MsgInv'
    OBVIOUS
  <2>1. CASE Preempt
    <3>1. /\ ReadyOK /\ QueuesOK /\ GotOK /\ stale \in BOOLEAN
          /\ UNCHANGED <<state, waitingPid, buffer, senderQueue, senderNext, got, stale>>
      BY <2>1 DEF MsgInv, Preempt
    <3>2. ReadyOK' /\ QueuesOK' /\ GotOK'
      BY <2>1, <3>1, PreemptReady DEF QueuesOK, GotOK
    <3> QED
      BY <3>1, <3>2 DEF MsgInv
  <2>2. CASE UNCHANGED msgvars
    <3>1. ReadyOK' = ReadyOK
      BY <2>2 DEF msgvars, ReadyOK, Distinct, Members
    <3>2. QueuesOK' = QueuesOK /\ GotOK' = GotOK /\ stale' = stale
      BY <2>2 DEF msgvars, QueuesOK, GotOK
    <3> QED
      BY <3>1, <3>2 DEF MsgInv
  <2> QED
    BY <2>1, <2>2, SendStep, RecvStep, RecvAnyStep DEF MsgNext
<1> QED
  BY <1>1, <1>2, PTL DEF MsgSpec

\* The senders on a process' queue are the processes blocked in send to it,
\* each of them once, so that recv, which follows senderNext until it meets its
\* sender, meets it (msg.c: send, recv, recvAny), for any number of processes.
THEOREM SendersStayQueued == MsgSpec => []SendersQueued
<1>1. MsgInv => SendersQueued
  <2> SUFFICES ASSUME MsgInv, ~stale, NEW d \in Procs
               PROVE  /\ ToSet(Queue(d)) =
                           {s \in Procs : state[s] = "BLOCKED_SEND" /\ waitingPid[s] = d}
                      /\ Len(Queue(d)) = Cardinality(ToSet(Queue(d)))
    BY DEF SendersQueued, QueuesExact
  <2>1. PICK r : Queues(senderQueue, senderNext, state, waitingPid, buffer, r)
    BY DEF MsgInv, QueuesOK
  <2>2. PICK C : C = SendersTo(state, waitingPid, d)
    OBVIOUS
  <2>3. /\ senderQueue \in [Procs -> Procs0] /\ senderNext \in [Procs -> Procs0]
        /\ C \in SUBSET Procs /\ Threads(senderNext, senderQueue[d], NULL, C, r)
    BY <2>1, <2>2 DEF Queues, SendersTo
  <2>4. ToSet(Queue(d)) = C /\ Len(Queue(d)) = Cardinality(C)
    BY <2>3, QueueHolds
  <2> QED
    BY <2>2, <2>4 DEF SendersTo
<1> QED
  BY <1>1, MsgInvariant, PTL

\* A message reaches the process it was sent to and no other, also when the
\* receiver asks for any (msg.c: send, recv, recvAny), for any number of
\* processes.
THEOREM MessagesArrive == MsgSpec => []MeantForReader
<1>1. MsgInv => MeantForReader
  BY DEF MsgInv, GotOK, MeantForReader
<1> QED
  BY <1>1, MsgInvariant, PTL

=============================================================================
