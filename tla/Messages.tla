------------------------------ MODULE Messages ------------------------------
(***************************************************************************)
(* Message passing between processes (msg.c): send, recv and recvAny over  *)
(* the pcbs' waitingPid and their queues of blocked senders, which are     *)
(* threaded through senderNext.                                            *)
(*                                                                         *)
(* The dispatcher of this version has no system call for them.  It is      *)
(* external here, as msg.c uses it: a handler leaves its caller ready or   *)
(* blocked and returns, its answer becomes the caller's ret, and the next  *)
(* ready process runs; a call never names its own caller.                  *)
(***************************************************************************)
EXTENDS Naturals, Sequences, SequencesExt, FiniteSets

CONSTANTS
  Procs,     \* the processes, named by their pids
  NULL,
  ANY,       \* the pid -1 that recvAny waits for
  Lens       \* lengths of buffers

ASSUME ProcsAssumption ==
  /\ IsFiniteSet(Procs) /\ NULL \notin Procs /\ ANY \notin Procs /\ ANY # NULL
  /\ Lens \subseteq Nat

VARIABLES
  p,                          \* the process that runs, NULL for the idle one
  readyList,
  state, waitingPid, ret,
  buffer, buffer_len,         \* whom the message in the buffer was written for
  senderQueue, senderNext,
  got,                        \* the last message copied to each process
  stale                       \* see Send

msgvars == <<p, readyList, state, waitingPid, ret, buffer, buffer_len,
             senderQueue, senderNext, got, stale>>

\* Every process runs or is ready and none was sent or waited for anything.
MsgInit ==
  /\ readyList \in SetToSeqs(Procs)
  /\ p = NULL
  /\ state = [s \in Procs |-> "READY"]
  /\ waitingPid = [s \in Procs |-> NULL]
  /\ ret = [s \in Procs |-> 0]
  /\ buffer = [s \in Procs |-> NULL]
  /\ buffer_len = [s \in Procs |-> 0]
  /\ senderQueue = [s \in Procs |-> NULL]
  /\ senderNext = [s \in Procs |-> NULL]
  /\ got = [s \in Procs |-> NULL]
  /\ stale = FALSE

\* next() on the ready list L.
Dispatch(L) ==
  /\ p' = IF L = <<>> THEN NULL ELSE Head(L)
  /\ readyList' = IF L = <<>> THEN L ELSE Tail(L)

\* A timer interrupt.
Preempt ==
  /\ ~stale /\ readyList # <<>>
  /\ Dispatch(IF p = NULL THEN readyList ELSE Append(readyList, p))
  /\ UNCHANGED <<state, waitingPid, ret, buffer, buffer_len, senderQueue,
                 senderNext, got, stale>>

\* What a call that finds its partner q does: ready(q), ready(p), and the
\* number of bytes copied as the answer of both.
Pair(q, n) ==
  /\ state' = [state EXCEPT ![q] = "READY", ![p] = "READY"]
  /\ ret' = [ret EXCEPT ![q] = n, ![p] = n]
  /\ Dispatch(readyList \o <<q, p>>)

\* What a call that finds none does: the caller is blocked and answers 0.
Block(st, pid, message, len) ==
  /\ state' = [state EXCEPT ![p] = st]
  /\ waitingPid' = [waitingPid EXCEPT ![p] = pid]
  /\ buffer' = [buffer EXCEPT ![p] = message]
  /\ buffer_len' = [buffer_len EXCEPT ![p] = len]
  /\ ret' = [ret EXCEPT ![p] = 0]
  /\ Dispatch(readyList)

\* memCpy() of a message written for w into the buffer of q.
MemCpy(q, w) == got' = [got EXCEPT ![q] = w]

MinLen(n, m) == IF n < m THEN n ELSE m

\* The senders met from the head of d's queue along senderNext; NULL once the
\* queue has ended.
SenderAt(d) ==
  LET at[i \in Nat] == IF i = 0 THEN senderQueue[d]
                       ELSE IF at[i-1] = NULL THEN NULL ELSE senderNext[at[i-1]]
  IN at

\* The senders on d's queue in order, as far as they can be told apart.
Queue(d) ==
  LET at == SenderAt(d)
      met == {i \in 0..Cardinality(Procs) : at[i] # NULL}
  IN [i \in 1..Cardinality(met) |-> at[i-1]]

-----------------------------------------------------------------------------

\* d is taken for a receiver: the state is asked for only one of the two.
Receives(d) ==
  \/ state[d] = "BLOCKED_RECV" /\ waitingPid[d] = p
  \/ waitingPid[d] = ANY

\* senderNext with p linked behind the last sender on d's queue.
Appended(d) ==
  IF senderQueue[d] = NULL THEN senderNext
  ELSE [senderNext EXCEPT ![Last(Queue(d))] = p]

\* send().  waitingPid and senderNext are never reset.  The model follows the
\* program up to the first send that is misled by an old value: to a process
\* that is no longer in recvAny, or by a process still linked to another.
Send(d, len) ==
  /\ ~stale /\ p # NULL /\ d # p
  /\ \/ /\ Receives(d)
        /\ stale' = (state[d] # "BLOCKED_RECV")
        /\ MemCpy(d, d)
        /\ Pair(d, MinLen(len, buffer_len[d]))
        /\ UNCHANGED <<waitingPid, buffer, buffer_len, senderQueue, senderNext>>
     \/ /\ ~Receives(d)
        /\ stale' = (senderNext[p] # NULL)
        /\ senderQueue' = [senderQueue EXCEPT ![d] = IF @ = NULL THEN p ELSE @]
        /\ senderNext' = Appended(d)
        /\ Block("BLOCKED_SEND", d, d, len)
        /\ UNCHANGED got

UnlinkedHead(f) ==
  /\ senderQueue' = [senderQueue EXCEPT ![p] = senderNext[@]]
  /\ UNCHANGED senderNext

\* Take the sender f off p's queue.
Unlinked(f) ==
  IF senderQueue[p] = f
  THEN /\ senderQueue' = [senderQueue EXCEPT ![p] = senderNext[f]]
       /\ UNCHANGED senderNext
  ELSE /\ senderNext' = [s \in Procs |->
                           IF senderNext[s] = f /\ s \in ToSet(Queue(p))
                           THEN senderNext[f] ELSE senderNext[s]]
       /\ UNCHANGED senderQueue

\* recv().
Recv(f, len) ==
  /\ ~stale /\ p # NULL /\ f # p
  /\ \/ /\ state[f] = "BLOCKED_SEND" /\ waitingPid[f] = p
        /\ MemCpy(p, buffer[f])
        /\ Pair(f, MinLen(len, buffer_len[f]))
        /\ Unlinked(f)
        /\ UNCHANGED <<waitingPid, buffer, buffer_len>>
     \/ /\ ~(state[f] = "BLOCKED_SEND" /\ waitingPid[f] = p)
        /\ Block("BLOCKED_RECV", f, NULL, len)
        /\ UNCHANGED <<senderQueue, senderNext, got>>
  /\ UNCHANGED stale

QueueKept == UNCHANGED senderQueue

\* recvAny's own step along the queue.
QueueAdvanced == senderQueue' = [senderQueue EXCEPT ![p] = senderNext[@]]

\* recvAny().
RecvAny(len) ==
  /\ ~stale /\ p # NULL
  /\ \/ /\ senderQueue[p] # NULL
        /\ LET f == senderQueue[p]
           IN /\ MemCpy(p, buffer[f])
              /\ Pair(f, MinLen(len, buffer_len[f]))
        /\ QueueAdvanced
        /\ UNCHANGED <<waitingPid, buffer, buffer_len>>
     \/ /\ senderQueue[p] = NULL
        /\ Block("BLOCKED_RECV", ANY, NULL, len)
        /\ UNCHANGED <<senderQueue, got>>
  /\ UNCHANGED <<senderNext, stale>>

MsgNext ==
  \/ Preempt
  \/ \E q \in Procs, len \in Lens : Send(q, len) \/ Recv(q, len)
  \/ \E len \in Lens : RecvAny(len)

MsgSpec == MsgInit /\ [][MsgNext]_msgvars

-----------------------------------------------------------------------------
(* Properties.  SendersQueued and MeantForReader speak of the program up to *)
(* the first send that an old value misleads; such a send may make a queue *)
(* a cycle.                                                                *)

\* The senders on a process' queue are the processes blocked in send to it,
\* each of them once, so that recv, which follows senderNext until it meets its
\* sender, always meets it (msg.c: send, recv, recvAny).
QueuesExact ==
  \A d \in Procs :
    LET queue == Queue(d)
    IN /\ ToSet(queue) = {s \in Procs : state[s] = "BLOCKED_SEND" /\ waitingPid[s] = d}
       /\ Len(queue) = Cardinality(ToSet(queue))

\* Until an old field misleads a send, the queues are exact: through senders
\* appended, taken from the front by recvAny and from any place by recv (msg.c).
SendersQueued == stale \/ QueuesExact

\* A message reaches the process it was sent to and no other, also when the
\* receiver asks for any (msg.c: recvAny).
MeantForReader ==
  stale \/ \A s \in Procs : got[s] \in {NULL, s}

=============================================================================
