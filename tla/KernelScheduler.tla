-------------------------- MODULE KernelScheduler ---------------------------
(***************************************************************************)
(* The kernel implements the abstract scheduler: the refinement mapping    *)
(* reads the queue off the ready list's links and each sleeper's countdown *)
(* off the delta list.                                                     *)
(***************************************************************************)
EXTENDS Kernel

\* The ready list, in order.
QueueOf ==
  [i \in 1..Cardinality(OnList(rq.head)) |-> Chain(rq.next, rq.head)[i-1]]

\* The sums of the keys along at, nothing being added once the list has ended.
Sums(at, diff) ==
  LET sum[i \in Nat] == (IF i = 0 THEN 0 ELSE sum[i-1])
                           + (IF at[i] = NULL THEN 0 ELSE diff[at[i]])
  IN sum

\* The ticks a sleeper has left: the keys up to and including its own.
Remaining(s) ==
  LET at == Chain(rq.next, sleepQ)
  IN Sums(at, sleepdiff)[CHOOSE i \in 0..MAX_PROC : at[i] = s]

Asleep == [s \in OnList(sleepQ) |-> Remaining(s)]

Waiting == [s \in {u \in Slots : rq.state[u] = "WAIT"} |-> waitpid[s]]

Sched == INSTANCE Scheduler WITH
  Names <- Word, First <- Idle, Others <- <<Second>>,
  running <- p, queue <- QueueOf, asleep <- Asleep, waiting <- Waiting,
  name <- pid, phase <- mode

\* Every behaviour of the kernel is one of the abstract scheduler, as long as
\* no program signals a sleeping process or kills the idle process and none sleeps
\* for less than one tick (disp.c, sleep.c, create.c).
ImplementsScheduler == Sched!Spec

\* A sleep lasts as long as was asked for, wherever sleep() puts the caller
\* among those already asleep: of the countdowns that the delta list stands
\* for, the caller's starts at its own number of ticks and no other changes
\* (sleep.c).
SleepsAsAsked ==
  [][\A ms \in SleepLens : ms >= 1 /\ SysSleep(ms) =>
       Asleep' = Sched!With(Asleep, p, ms \div MILLISECONDS_TICK)]_vars

=============================================================================
