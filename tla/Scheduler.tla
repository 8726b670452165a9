----------------------------- MODULE Scheduler ------------------------------
(***************************************************************************)
(* What the Xeros process manager promises its programs: one process runs, *)
(* the runnable ones stand in a first-in first-out queue, every sleeping   *)
(* process has a countdown of its own, and every waiting process names the *)
(* process whose killing it waits for.  There are no pcbs here, no shared  *)
(* links and no delta list.                                                *)
(***************************************************************************)
EXTENDS Integers, Sequences, SequencesExt

CONSTANTS Slots, Names, First, Others

VARIABLES
  running,  \* the slot of the process that has the cpu
  queue,    \* the slots of the runnable processes
  asleep,   \* the ticks each sleeping process has left
  waiting,  \* the name each waiting process waits for
  name,     \* the name of each slot's last process
  phase     \* "user", or "tick" while expired sleepers are being woken

svars == <<running, queue, asleep, waiting, name, phase>>

Absent == Slots \ ({running} \cup Range(queue)
                   \cup DOMAIN asleep \cup DOMAIN waiting)

Init ==
  /\ running = First
  /\ queue = Others
  /\ asleep = << >>
  /\ waiting = << >>
  /\ name \in [Slots -> Names]
  /\ phase = "user"

Without(f, S) == [s \in DOMAIN f \ S |-> f[s]]
With(f, s, v) == [u \in DOMAIN f \cup {s} |-> IF u = s THEN v ELSE f[u]]

\* Give the cpu to the first process of q.
Switch(q) ==
  /\ q # <<>>
  /\ running' = Head(q)
  /\ queue' = Tail(q)

\* A new process, under a name of the implementation's choice.
Spawn(s) ==
  /\ phase = "user"
  /\ s \in Absent
  /\ queue' = Append(queue, s)
  /\ \E n \in Names : name' = [name EXCEPT ![s] = n]
  /\ UNCHANGED <<running, asleep, waiting, phase>>

Yield ==
  /\ phase = "user"
  /\ Switch(Append(queue, running))
  /\ UNCHANGED <<asleep, waiting, name, phase>>

Stop ==
  /\ phase = "user"
  /\ Switch(queue)
  /\ UNCHANGED <<asleep, waiting, name, phase>>

Wait ==
  /\ phase = "user"
  /\ Switch(queue)
  /\ \E n \in Names : waiting' = With(waiting, running, n)
  /\ UNCHANGED <<asleep, name, phase>>

Sleep ==
  /\ phase = "user"
  /\ Switch(queue)
  /\ \E ticks \in Names \ {0} : asleep' = With(asleep, running, ticks)
  /\ UNCHANGED <<waiting, name, phase>>

\* A signal interrupts a wait.
Interrupt(s) ==
  /\ phase = "user"
  /\ s \in DOMAIN waiting
  /\ waiting' = Without(waiting, {s})
  /\ queue' = Append(queue, s)
  /\ UNCHANGED <<running, asleep, name, phase>>

\* q with s taken out of it.
Dequeued(q, s) ==
  IF s \in Range(q) THEN RemoveAt(q, CHOOSE i \in DOMAIN q : q[i] = s) ELSE q

\* The kill signal: s is no longer runnable and those waiting for it are, in
\* the order of their slots.  A process that kills itself goes on running.
Kill(s) ==
  /\ phase = "user"
  /\ s \notin DOMAIN asleep
  /\ LET woken == {u \in DOMAIN waiting \ {s} : waiting[u] = name[s]}
     IN /\ waiting' = Without(waiting, woken \cup {s})
        /\ \E order \in [1..Cardinality(woken) -> woken] :
             /\ \A i, j \in DOMAIN order : i < j => order[i] < order[j]
             /\ queue' = Dequeued(queue, s) \o order
  /\ UNCHANGED <<running, asleep, name, phase>>

\* The timer: every countdown advances, then the expired sleepers are woken
\* one by one, then the running process goes to the end of the queue.
Tick ==
  /\ phase = "user"
  /\ phase' = "tick"
  /\ asleep' = [s \in DOMAIN asleep |-> asleep[s] - 1]
  /\ UNCHANGED <<running, queue, waiting, name>>

Wake(s) ==
  /\ phase = "tick"
  /\ s \in DOMAIN asleep /\ asleep[s] = 0
  /\ asleep' = Without(asleep, {s})
  /\ queue' = Append(queue, s)
  /\ UNCHANGED <<running, waiting, name, phase>>

Resume ==
  /\ phase = "tick"
  /\ \A s \in DOMAIN asleep : asleep[s] > 0
  /\ phase' = "user"
  /\ Switch(Append(queue, running))
  /\ UNCHANGED <<asleep, waiting, name>>

Next ==
  \/ Yield \/ Stop \/ Wait \/ Sleep
  \/ \E s \in Slots : Spawn(s) \/ Interrupt(s) \/ Kill(s) \/ Wake(s)
  \/ Tick \/ Resume

Spec == Init /\ [][Next]_svars

=============================================================================
