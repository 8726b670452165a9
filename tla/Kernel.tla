------------------------------- MODULE Kernel -------------------------------
(***************************************************************************)
(* The Xeros process manager: the dispatcher loop (disp.c) with the ready  *)
(* list, process creation (create.c), the sleep list (sleep.c), signal     *)
(* delivery (signal.c) and the part of the context switch that moves       *)
(* values between a process and its pcb (ctsw.c).                          *)
(*                                                                         *)
(* The kernel runs with interrupts off, so one trap is one step: between   *)
(* two steps the process p executes user code.  The only handler split     *)
(* into several steps is the timer interrupt, whose wake-up loop is one    *)
(* step per iteration (mode = "tick"); no other step is enabled meanwhile. *)
(*                                                                         *)
(* Both lists thread the same next field of the pcb, and the model keeps   *)
(* that field: a process put on a list while it is on another one corrupts *)
(* both here as it does in the code.                                       *)
(***************************************************************************)
EXTENDS Integers, Sequences, FiniteSetsExt

CONSTANTS
  MAX_PROC,          \* number of pcbs in proctab
  MAX_SIG,           \* number of signals; the highest one kills
  WORD,              \* 2^32: unsigned int and int wrap here
  CPU_WRAP,          \* where the cpuTime counter wraps
  MILLISECONDS_TICK, \* milliseconds per timer tick
  LOWMEM,            \* the word read as sleepdiff through a NULL pcb pointer
  EAX,               \* stands for the eax of a process stopped by an interrupt
  Handlers,          \* addresses a program may install as a handler
  BadHandlers,       \* addresses in the hole or beyond maxaddr
  SleepLens,         \* arguments of syssleep, in milliseconds
  PidArgs,           \* pids given to syskill and syswait
  SigArgs,           \* signal numbers given to syskill and syssignal
  Workload           \* the system calls the programs make

ASSUME TableAssumption ==
  /\ MAX_PROC \in Nat /\ MAX_PROC >= 2
  /\ MAX_SIG \in Nat /\ MAX_SIG >= 2
  /\ WORD \in Nat /\ WORD > MAX_PROC
  /\ WORD % MAX_PROC = 0
  /\ CPU_WRAP \in Nat \ {0}
  /\ MILLISECONDS_TICK \in Nat \ {0}

ASSUME ArgumentAssumption ==
  /\ LOWMEM \in 0..WORD-1
  /\ EAX \in Int
  /\ Handlers \subseteq Nat \ {0}
  /\ BadHandlers \subseteq Nat \ {0}
  /\ Handlers \cap BadHandlers = {}
  /\ SleepLens \subseteq Nat
  /\ \A len \in SleepLens : len \div MILLISECONDS_TICK \in 0..WORD-1
  /\ PidArgs \subseteq 0..WORD-1
  /\ SigArgs \subseteq Int

Slots   == 0..MAX_PROC-1
NULL    == -1
Ptr     == Slots \cup {NULL}
Word    == 0..WORD-1
Signals == 0..MAX_SIG-1
KILL    == MAX_SIG-1
States  == {"STOPPED", "READY", "WAIT", "SLEEP", "BLOCKED"}

\* The idle process: the first one created, hence pid 1 in slot 1.
Idle == 1

\* The signed reading of a 32 bit word.
AsInt(w) == IF 2 * w >= WORD THEN w - WORD ELSE w

VARIABLES
  p,          \* the dispatcher's p: the process holding the cpu
  mode,       \* "user", in the "tick" loop, or "hung" in a kernel for(;;)
  rq,         \* per pcb state and next, and the ready list's head and tail
  sleepQ,     \* head of the delta list
  sleepdiff,  \* per pcb key of the delta list
  pid, nextpid,
  ret,        \* what contextswitch loads into eax
  waitpid,
  sigtab, sigmask, currSigLvl,
  frames,     \* signal frames on the process' stack, innermost last
  cpuTime

sigvars == <<sigtab, sigmask, currSigLvl, frames>>
vars == <<p, mode, rq, sleepQ, sleepdiff, pid, nextpid, ret, waitpid,
          sigvars, cpuTime>>

Frame == [handler : Nat, old_ret : Int, sigLvl : Signals]

Lists == [state : [Slots -> States], next : [Slots -> Ptr],
          head : Ptr, tail : Ptr]

TypeOK ==
  /\ p \in Slots
  /\ mode \in {"user", "tick", "hung"}
  /\ rq \in Lists
  /\ sleepQ \in Ptr
  /\ sleepdiff \in [Slots -> Word]
  /\ pid \in [Slots -> Word]
  /\ nextpid \in Word
  /\ ret \in [Slots -> Int]
  /\ waitpid \in [Slots -> Word]
  /\ sigtab \in [Slots -> [Signals -> Nat]]
  /\ sigmask \in [Slots -> SUBSET Signals]
  /\ currSigLvl \in [Slots -> Signals]
  /\ frames \in [Slots -> Seq(Frame)]
  /\ cpuTime \in [Slots -> 0..CPU_WRAP-1]

-----------------------------------------------------------------------------
(* The lists.  L is a value of rq. *)

\* The pcbs met from start along next; NULL once the list has ended.
Chain(next, start) ==
  LET follow == [s \in Ptr |-> IF s = NULL THEN NULL ELSE next[s]]
      at[i \in Nat] == IF i = 0 THEN start ELSE follow[at[i-1]]
  IN at

\* ready(): append s.  Appending the pcb that is the tail links it to itself.
Ready(L, s) ==
  [state |-> [L.state EXCEPT ![s] = "READY"],
   next  |-> [i \in Slots |-> IF i = L.tail THEN s
                              ELSE IF i = s THEN NULL ELSE L.next[i]],
   head  |-> IF L.tail = NULL THEN s ELSE L.head,
   tail  |-> s]

\* ready() of every member of W, in proctab order.
ReadyAll(L, W) ==
  IF W = {} THEN L
  ELSE [state |-> [i \in Slots |-> IF i \in W THEN "READY" ELSE L.state[i]],
        next  |-> [i \in Slots |->
                     IF i \in W
                     THEN IF i # Max(W) THEN Min({j \in W : j > i})
                          ELSE IF W = {L.tail} THEN i ELSE NULL
                     ELSE IF i = L.tail THEN Min(W) ELSE L.next[i]],
        head  |-> IF L.tail = NULL THEN Min(W) ELSE L.head,
        tail  |-> Max(W)]

DispatchKeepsTail(L) ==
  /\ L.head # NULL
  /\ mode' = "user"
  /\ p' = L.head
  /\ rq' = [L EXCEPT !.head = L.next[L.head], !.next[L.head] = NULL]

DispatchUnchecked(L) ==
  /\ mode' = "user"
  /\ p' = L.head
  /\ rq' = IF L.head = NULL THEN L
           ELSE [L EXCEPT !.head = L.next[L.head],
                          !.tail = IF L.next[L.head] = NULL THEN NULL ELSE @,
                          !.next[L.head] = NULL]

\* next(): take the head of L and run it.  With an empty list the kernel
\* prints BAD and spins.
Dispatch(L) ==
  \/ /\ L.head = NULL
     /\ mode' = "hung"
     /\ rq' = L
     /\ UNCHANGED p
  \/ /\ L.head # NULL
     /\ mode' = "user"
     /\ p' = L.head
     /\ rq' = [L EXCEPT !.head = L.next[L.head],
                        !.tail = IF L.next[L.head] = NULL THEN NULL ELSE @,
                        !.next[L.head] = NULL]

\* s is the pcb in front of t on the ready list, as the loop of
\* removeFromReady meets them.
Before(L, s, t) ==
  LET at == Chain(L.next, L.head)
  IN /\ L.next[s] = t
     /\ \E i \in 0..MAX_PROC-1 : at[i] = s /\ \A j \in 0..i : at[j] # t

\* The loop of removeFromReady meets neither t nor the end of the list.
SearchSpins(L, t) ==
  \A i \in 0..MAX_PROC : Chain(L.next, L.head)[i] \notin {t, NULL}

RemoveButKeepTail(L, t) ==
  IF L.head = t THEN [L EXCEPT !.head = L.next[t]]
  ELSE [L EXCEPT !.next =
          [s \in Slots |-> IF @[s] = t THEN L.next[t]
                           ELSE IF s = t THEN NULL ELSE @[s]]]

RemoveFromReady(L, t) ==
  IF L.head = t
  THEN [L EXCEPT !.head = L.next[t],
                 !.tail = IF L.next[t] = NULL THEN NULL ELSE @]
  ELSE IF \E s \in Slots : Before(L, s, t)
  THEN LET prev == CHOOSE s \in Slots : Before(L, s, t)
       IN [L EXCEPT !.next = [[@ EXCEPT ![prev] = L.next[t]] EXCEPT ![t] = NULL],
                    !.tail = IF @ = t THEN prev ELSE @]
  ELSE L

-----------------------------------------------------------------------------
(* initproc: create(idleproc), create(initProgram), dispatch(). *)

Second == 2 % MAX_PROC

Init ==
  /\ p = Idle
  /\ mode = "user"
  /\ rq = [state |-> [s \in Slots |-> IF s \in {Idle, Second} THEN "READY"
                                      ELSE "STOPPED"],
           next |-> [s \in Slots |-> NULL], head |-> Second, tail |-> Second]
  /\ sleepQ = NULL
  /\ sleepdiff = [s \in Slots |-> 0]
  /\ pid = [s \in Slots |-> CASE s = Idle -> 1 [] s = Second -> 2 [] OTHER -> 0]
  /\ nextpid = 2
  /\ ret = [s \in Slots |-> 0]
  /\ waitpid = [s \in Slots |-> 0]
  /\ sigtab = [s \in Slots |-> [sig \in Signals |-> 0]]
  /\ sigmask = [s \in Slots |-> {}]
  /\ currSigLvl = [s \in Slots |-> 0]
  /\ frames = [s \in Slots |-> <<>>]
  /\ cpuTime = [s \in Slots |-> 0]

-----------------------------------------------------------------------------
(* System calls of p.  The idle process only ever yields. *)

Trap == mode = "user"
UserTrap == Trap /\ p # Idle

\* findPCB(): the first slot holding pid n; a stopped process is found too.
Holders(n) == {s \in Slots : pid[s] = n}
FindPCB(n) == IF Holders(n) = {} THEN NULL ELSE Min(Holders(n))

\* create(): the pid and the slot the i-th iteration looks at, and the
\* iterations that meet a stopped slot.
Proposed(i) == (nextpid + i) % WORD

SlotInTableOrder(i) == i - 1
SlotOf(i) == Proposed(i) % MAX_PROC

FreeProbesButLast == {i \in 1..MAX_PROC-1 : rq.state[SlotOf(i)] = "STOPPED"}
FreeProbes == {i \in 1..MAX_PROC : rq.state[SlotOf(i)] = "STOPPED"}

\* SYS_CREATE.  gotStack: whether kmalloc finds room for the stack.
SysCreate(gotStack) ==
  /\ UserTrap
  /\ \/ /\ FreeProbes = {}
        /\ nextpid' = Proposed(MAX_PROC)
        /\ ret' = [ret EXCEPT ![p] = -1]
        /\ UNCHANGED <<rq, pid, frames>>
     \/ /\ FreeProbes # {}
        /\ nextpid' = Proposed(Min(FreeProbes))
        /\ LET s == SlotOf(Min(FreeProbes))
           IN \/ /\ ~gotStack
                 /\ ret' = [ret EXCEPT ![p] = -1]
                 /\ UNCHANGED <<rq, pid, frames>>
              \/ /\ gotStack
                 /\ pid' = [pid EXCEPT ![s] = nextpid']
                 /\ frames' = [frames EXCEPT ![s] = <<>>]
                 /\ rq' = Ready(rq, s)
                 /\ ret' = [ret EXCEPT ![p] = AsInt(nextpid')]
  /\ UNCHANGED <<p, mode, sleepQ, sleepdiff, waitpid, sigtab, sigmask,
                 currSigLvl, cpuTime>>

SysYield ==
  /\ Trap
  /\ Dispatch(Ready(rq, p))
  /\ UNCHANGED <<sleepQ, sleepdiff, pid, nextpid, ret, waitpid, sigvars,
                 cpuTime>>

\* SYS_STOP, also reached by returning from the process' main function.
SysStop ==
  /\ UserTrap
  /\ Dispatch([rq EXCEPT !.state[p] = "STOPPED"])
  /\ UNCHANGED <<sleepQ, sleepdiff, pid, nextpid, ret, waitpid, sigvars,
                 cpuTime>>

\* SYS_GETPID, SYS_PUTS and SYS_CPUTIMES only answer the caller.  The answers
\* of getCPUtimes are its two address checks and the last slot it filled.
Live == {s \in Slots : rq.state[s] # "STOPPED"}

Answer(v) ==
  /\ UserTrap
  /\ ret' = [ret EXCEPT ![p] = v]
  /\ UNCHANGED <<p, mode, rq, sleepQ, sleepdiff, pid, nextpid, waitpid,
                 sigvars, cpuTime>>

SysGetpid   == Answer(AsInt(pid[p]))
SysPuts     == Answer(0)
SysCpuTimes == \E v \in {-1, -2, Cardinality(Live) - 1} : Answer(v)

\* SYS_WAIT.
SysWait(n) ==
  /\ UserTrap
  /\ \/ /\ n = 0 \/ FindPCB(n) = NULL
        /\ ret' = [ret EXCEPT ![p] = -1]
        /\ UNCHANGED <<p, mode, rq, waitpid>>
     \/ /\ n # 0 /\ FindPCB(n) # NULL
        /\ waitpid' = [waitpid EXCEPT ![p] = n]
        /\ ret' = [ret EXCEPT ![p] = 0]
        /\ Dispatch([rq EXCEPT !.state[p] = "WAIT"])
  /\ UNCHANGED <<sleepQ, sleepdiff, pid, nextpid, sigvars, cpuTime>>

-----------------------------------------------------------------------------
(* The sleep list: each key is the distance to the one before it. *)

\* The search of sleep() goes past the pcb that follows w.tmp.
Passes(next, w) ==
  /\ next[w.tmp] # NULL
  /\ w.len >= sleepdiff[next[w.tmp]]

SleepSearchKeepsHeadKey(next, len) ==
  LET Step(w) == IF Passes(next, w)
                 THEN [tmp |-> next[w.tmp],
                       len |-> (w.len - sleepdiff[next[w.tmp]]) % WORD]
                 ELSE w
      at[i \in Nat] == IF i = 0 THEN [tmp |-> sleepQ, len |-> len]
                       ELSE Step(at[i-1])
  IN at[WORD * MAX_PROC]

\* Where the search stands after as many iterations as it can make without
\* repeating itself.  It starts at the head with the head's key taken off.
SleepSearch(next, len) ==
  LET Step(w) == IF Passes(next, w)
                 THEN [tmp |-> next[w.tmp],
                       len |-> (w.len - sleepdiff[next[w.tmp]]) % WORD]
                 ELSE w
      at[i \in Nat] == IF i = 0
                       THEN [tmp |-> sleepQ,
                             len |-> (len - sleepdiff[sleepQ]) % WORD]
                       ELSE Step(at[i-1])
  IN at[WORD * MAX_PROC]

\* It never leaves the pcbs some pointer leads to.
Linked(next) == {s \in Slots : s = sleepQ \/ \E u \in Slots : next[u] = s}
Search(next) == [tmp : Linked(next), len : Word]

InsertAndKeepNextKey(L, spot, d) ==
  /\ sleepdiff' = [sleepdiff EXCEPT ![p] = d]
  /\ Dispatch([L EXCEPT !.next = [[@ EXCEPT ![p] = L.next[spot]]
                                     EXCEPT ![spot] = p]])

\* Insert p after spot, then shorten the key of whatever p->next now is.
InsertAfter(L, spot, d) ==
  LET next == [[L.next EXCEPT ![p] = L.next[spot]] EXCEPT ![spot] = p]
      diff == [sleepdiff EXCEPT ![p] = d]
  IN /\ sleepdiff' = IF next[p] = NULL THEN diff
                     ELSE [diff EXCEPT ![next[p]] = (@ - d) % WORD]
     /\ Dispatch([L EXCEPT !.next = next])

\* SYS_SLEEP.
SysSleep(ms) ==
  /\ UserTrap
  /\ LET len == ms \div MILLISECONDS_TICK
         L == [rq EXCEPT !.state[p] = "SLEEP", !.next[p] = NULL]
     IN \/ /\ ms < 1
           /\ Dispatch(Ready(rq, p))
           /\ UNCHANGED <<sleepQ, sleepdiff>>
        \/ /\ ms >= 1 /\ sleepQ = NULL
           /\ sleepQ' = p
           /\ sleepdiff' = [sleepdiff EXCEPT ![p] = len]
           /\ Dispatch(L)
        \/ /\ ms >= 1 /\ sleepQ # NULL
           /\ sleepdiff[sleepQ] > len
           /\ sleepQ' = p
           /\ sleepdiff' = [[sleepdiff EXCEPT ![sleepQ] = @ - len]
                                       EXCEPT ![p] = len]
           /\ Dispatch([L EXCEPT !.next[p] = sleepQ])
        \/ /\ ms >= 1 /\ sleepQ # NULL
           /\ sleepdiff[sleepQ] <= len
           /\ LET w == SleepSearch(L.next, len)
              IN /\ w \in Search(L.next) /\ ~Passes(L.next, w)
                 /\ InsertAfter(L, w.tmp, w.len)
           /\ UNCHANGED sleepQ
        \/ /\ ms >= 1 /\ sleepQ # NULL
           /\ sleepdiff[sleepQ] <= len
           /\ Passes(L.next, SleepSearch(L.next, len))
           /\ rq' = L
           /\ mode' = "hung"
           /\ UNCHANGED <<p, sleepQ, sleepdiff>>
  /\ UNCHANGED <<pid, nextpid, ret, waitpid, sigvars, cpuTime>>

TimerWithoutDecrement ==
  /\ Trap
  /\ mode' = "tick"
  /\ ret' = [ret EXCEPT ![p] = EAX]
  /\ UNCHANGED <<p, rq, sleepQ, sleepdiff, pid, nextpid, waitpid, sigvars,
                 cpuTime>>

\* SYS_TIMER, up to the decrement at the head of tick()'s loop.  The
\* interrupted eax is kept in ret.
SysTimer ==
  /\ Trap
  /\ mode' = "tick"
  /\ ret' = [ret EXCEPT ![p] = EAX]
  /\ sleepdiff' = IF sleepQ = NULL THEN sleepdiff
                  ELSE [sleepdiff EXCEPT ![sleepQ] = (@ - 1) % WORD]
  /\ UNCHANGED <<p, rq, sleepQ, pid, nextpid, waitpid, sigvars, cpuTime>>

Expired == sleepQ # NULL /\ sleepdiff[sleepQ] = 0

TickDropsRest ==
  /\ mode = "tick" /\ Expired
  /\ sleepQ' = NULL
  /\ rq' = Ready(rq, sleepQ)
  /\ ret' = [ret EXCEPT ![sleepQ] = 0]
  /\ UNCHANGED <<p, mode, sleepdiff, pid, nextpid, waitpid, sigvars, cpuTime>>

\* One iteration of tick()'s loop.
TickWake ==
  /\ mode = "tick" /\ Expired
  /\ sleepQ' = rq.next[sleepQ]
  /\ rq' = Ready(rq, sleepQ)
  /\ ret' = [ret EXCEPT ![sleepQ] = 0]
  /\ UNCHANGED <<p, mode, sleepdiff, pid, nextpid, waitpid, sigvars, cpuTime>>

TimerForgetsCaller ==
  /\ mode = "tick" /\ ~Expired
  /\ cpuTime' = [cpuTime EXCEPT ![p] = (@ + 1) % CPU_WRAP]
  /\ Dispatch(rq)
  /\ UNCHANGED <<sleepQ, sleepdiff, pid, nextpid, ret, waitpid, sigvars>>

TimerKeepsCpu ==
  /\ mode = "tick" /\ ~Expired
  /\ cpuTime' = [cpuTime EXCEPT ![p] = (@ + 1) % CPU_WRAP]
  /\ mode' = "user"
  /\ UNCHANGED <<p, rq, sleepQ, sleepdiff, pid, nextpid, ret, waitpid, sigvars>>

\* The rest of SYS_TIMER.
TimerDone ==
  /\ mode = "tick" /\ ~Expired
  /\ cpuTime' = [cpuTime EXCEPT ![p] = (@ + 1) % CPU_WRAP]
  /\ Dispatch(Ready(rq, p))
  /\ UNCHANGED <<sleepQ, sleepdiff, pid, nextpid, ret, waitpid, sigvars>>

-----------------------------------------------------------------------------
(* Signals. *)

\* killInSleep(): what an interrupted syssleep returns.
KillInSleep(t) ==
  LET ticks == CASE t = sleepQ -> sleepdiff[t]
                 [] sleepQ = NULL -> sleepdiff[t] + LOWMEM
                 [] OTHER -> sleepdiff[t] + sleepdiff[sleepQ]
  IN AsInt((ticks * MILLISECONDS_TICK) % WORD)

\* What a call of t returns once a signal was posted to t.
InterruptedEvenIfReady(t) ==
  IF rq.state[t] = "SLEEP" THEN KillInSleep(t) ELSE -666

Interrupted(t) ==
  CASE rq.state[t] = "WAIT" -> -666
    [] rq.state[t] = "SLEEP" -> KillInSleep(t)
    [] OTHER -> ret[t]

SignalAnyLevel(t, sig, saved) ==
  /\ sigtab[t][sig] # 0
  /\ sigmask' = [sigmask EXCEPT ![t] = @ \cup {sig}]
  /\ frames' = [frames EXCEPT ![t] =
       Append(@, [handler |-> sigtab[t][sig], old_ret |-> saved,
                  sigLvl |-> currSigLvl[t]])]
  /\ currSigLvl' = [currSigLvl EXCEPT ![t] = sig]
  /\ UNCHANGED sigtab

\* signal(): mark sig pending and, above the current level, push a frame.
\* saved is the target's ret at that point.
Signal(t, sig, saved) ==
  \/ /\ sigtab[t][sig] = 0
     /\ UNCHANGED sigvars
  \/ /\ sigtab[t][sig] # 0
     /\ sigmask' = [sigmask EXCEPT ![t] = @ \cup {sig}]
     /\ \/ /\ sig > currSigLvl[t]
           /\ frames' = [frames EXCEPT ![t] =
                Append(@, [handler |-> sigtab[t][sig], old_ret |-> saved,
                           sigLvl |-> currSigLvl[t]])]
           /\ currSigLvl' = [currSigLvl EXCEPT ![t] = sig]
        \/ /\ sig <= currSigLvl[t]
           /\ UNCHANGED <<frames, currSigLvl>>
     /\ UNCHANGED sigtab

WaitersInAnyState(L, t) == {s \in Slots : waitpid[s] = pid[t]}

AnyWaiter(L, t) == {s \in Slots : L.state[s] = "WAIT"}

\* The processes blocked in syswait for the process in slot t.
Waiters(L, t) == {s \in Slots : L.state[s] = "WAIT" /\ waitpid[s] = pid[t]}

\* kill() once the target is known and sig is not yet marked for it.  A
\* waiting or sleeping target is readied first, so that its state is never
\* SLEEP when the kill signal unlinks it: removeFromSleep is not reached.
Post(t, sig) ==
  LET asked == rq.state[t]
      saved == Interrupted(t)
      L1 == IF asked \in {"WAIT", "SLEEP"} THEN Ready(rq, t) ELSE rq
      unlink == sig = KILL /\ L1.state[t] = "READY"
      L2 == IF unlink THEN RemoveFromReady(L1, t) ELSE L1
      woken == IF sig = KILL THEN Waiters(L2, t) ELSE {}
  IN \/ /\ ~(unlink /\ SearchSpins(L1, t))
        /\ rq' = ReadyAll(L2, woken)
        /\ waitpid' = [s \in Slots |-> IF s \in woken THEN 0 ELSE waitpid[s]]
        /\ Signal(t, sig, saved)
        /\ ret' = [[ret EXCEPT ![t] = saved] EXCEPT ![p] = 0]
        /\ UNCHANGED mode
     \/ /\ unlink /\ SearchSpins(L1, t)
        /\ rq' = L1
        /\ ret' = [ret EXCEPT ![t] = saved]
        /\ mode' = "hung"
        /\ UNCHANGED <<waitpid, sigvars>>

\* SYS_KILL.
SysKill(n, sig) ==
  /\ UserTrap
  /\ \/ /\ sig \notin Signals
        /\ ret' = [ret EXCEPT ![p] = -1]
        /\ UNCHANGED <<mode, rq, waitpid, sigvars>>
     \/ /\ sig \in Signals /\ FindPCB(n) = NULL
        /\ ret' = [ret EXCEPT ![p] = -999]
        /\ UNCHANGED <<mode, rq, waitpid, sigvars>>
     \/ /\ sig \in Signals /\ FindPCB(n) # NULL
        /\ sig \in sigmask[FindPCB(n)]
        /\ ret' = [ret EXCEPT ![p] = 0]
        /\ UNCHANGED <<mode, rq, waitpid, sigvars>>
     \/ /\ sig \in Signals /\ FindPCB(n) # NULL
        /\ sig \notin sigmask[FindPCB(n)]
        /\ Post(FindPCB(n), sig)
  /\ UNCHANGED <<p, sleepQ, sleepdiff, pid, nextpid, cpuTime>>

\* SYS_SIGHANDLER, behind syssignal's own check of the signal number.
SysSighandler(sig, h) ==
  /\ UserTrap
  /\ sig \in 0..MAX_SIG-2
  /\ \/ /\ h \in BadHandlers
        /\ ret' = [ret EXCEPT ![p] = 0]
        /\ UNCHANGED sigtab
     \/ /\ h \notin BadHandlers
        /\ ret' = [ret EXCEPT ![p] = sigtab[p][sig]]
        /\ sigtab' = [sigtab EXCEPT ![p][sig] = h]
  /\ UNCHANGED <<p, mode, rq, sleepQ, sleepdiff, pid, nextpid, waitpid,
                 sigmask, currSigLvl, frames, cpuTime>>

\* The mask after SYS_SIGRETURN's loop over the bits, highest first.  It
\* starts at 1 << 31, which as an int is negative, and runs while i > 1.
LoopStart == -(2 ^ (MAX_SIG - 1))
Unmarked(mask) == IF LoopStart > 1 /\ mask \ {0} # {}
                  THEN mask \ {Max(mask \ {0})} ELSE mask

\* SYS_SIGRETURN, made by sigtramp with the values of the innermost frame.
SysSigreturn ==
  /\ UserTrap
  /\ frames[p] # <<>>
  /\ LET top == frames[p][Len(frames[p])]
     IN /\ sigmask' = [sigmask EXCEPT ![p] = Unmarked(@)]
        /\ frames' = [frames EXCEPT ![p] = SubSeq(@, 1, Len(@) - 1)]
        /\ currSigLvl' = [currSigLvl EXCEPT ![p] = top.sigLvl]
        /\ ret' = [ret EXCEPT ![p] = top.old_ret]
  /\ UNCHANGED <<p, mode, rq, sleepQ, sleepdiff, pid, nextpid, waitpid,
                 sigtab, cpuTime>>

-----------------------------------------------------------------------------
(* The programs.  Workload names what they do: a signal to a sleeping      *)
(* process and killing the idle process are named apart, for the runs that ask     *)
(* what holds as long as no program does so.                               *)

MayKill(n, sig) ==
  LET t == FindPCB(n)
  IN /\ t # NULL /\ rq.state[t] = "SLEEP" => "killSleeping" \in Workload
     /\ t = Idle /\ sig = KILL => "killIdle" \in Workload

Calls ==
  \/ "create" \in Workload /\ \E gotStack \in BOOLEAN : SysCreate(gotStack)
  \/ "stop" \in Workload /\ SysStop
  \/ "answers" \in Workload /\ (SysGetpid \/ SysPuts \/ SysCpuTimes)
  \/ "wait" \in Workload /\ \E n \in PidArgs : SysWait(n)
  \/ "sleep" \in Workload /\ \E ms \in SleepLens : SysSleep(ms)
  \/ "kill" \in Workload /\ \E n \in PidArgs, sig \in SigArgs :
                              MayKill(n, sig) /\ SysKill(n, sig)
  \/ "signal" \in Workload /\ \E sig \in SigArgs,
                                 h \in Handlers \cup BadHandlers \cup {0} :
                                SysSighandler(sig, h)
  \/ SysSigreturn
  \/ SysYield

Next == Calls \/ SysTimer \/ TickWake \/ TimerDone

Spec == Init /\ [][Next]_vars

\* The timer keeps interrupting user code (initPIT(100)), and the kernel's own
\* code keeps running once entered.  No program is assumed to do anything.
Fairness == WF_vars(SysTimer) /\ WF_vars(TickWake) /\ WF_vars(TimerDone)

FairSpec == Spec /\ Fairness

-----------------------------------------------------------------------------
(* Properties of every behaviour. *)

\* The pcbs that create() has filled; the first pcb, which a pid of 0 fits,
\* counts as one of them from the start.
Made == {s \in Slots : pid[s] % MAX_PROC = s}

\* However corrupt the lists, the kernel runs and links only pcbs that create()
\* has filled: not even a kill of the pid 0 of an empty pcb, a second kill or
\* a sleep list that leads into the ready list puts one without a stack where
\* next() takes it from (disp.c: ready, next, removeFromReady, kill; sleep.c).
PointersFilled ==
  {p, rq.head, rq.tail, sleepQ} \cup {rq.next[s] : s \in Slots}
    \subseteq Made \cup {NULL}

\* findPCB() applied to the pid of a process that is not stopped finds that
\* process and no other, although create() never scans for the pid it hands
\* out and nextpid wraps (create.c).
LiveFound ==
  \A s \in Live : FindPCB(pid[s]) = s

\* create() refuses a process only when proctab is full, wherever nextpid
\* stands and also when the scan crosses the wrap of nextpid (create.c).
CreateFindsFree ==
  (\E s \in Slots : rq.state[s] = "STOPPED") => FreeProbes # {}

\* Handlers nest by priority: each signal frame was pushed at a strictly
\* higher level than the one it interrupted, so that a process never has two
\* frames of one signal and its stack holds fewer than MAX_SIG (signal.c).
Levels(s) == Append([i \in DOMAIN frames[s] |-> frames[s][i].sigLvl],
                    currSigLvl[s])

SignalNesting ==
  \A s \in Slots : \A i \in DOMAIN frames[s] : Levels(s)[i] < Levels(s)[i+1]

-----------------------------------------------------------------------------
(* Properties of the lists, as long as no program signals a sleeping       *)
(* process or kills the idle process; ReadyMeansQueued moreover as long as *)
(* no kill signal is sent, which takes a process off the list and leaves   *)
(* its state READY, and SleeperWakes as long as no program sleeps for less *)
(* than one tick.                                                          *)

OnList(start) == {Chain(rq.next, start)[i] : i \in 0..MAX_PROC} \ {NULL}

Ends(start) == Chain(rq.next, start)[MAX_PROC] = NULL

\* The ready list and the sleep list end, share no pcb although they share
\* the next field, and hold processes of the state they are for; the running
\* process is on neither and neither stopped nor blocked; tail is the end of
\* the ready list (disp.c, sleep.c).
ListsSound ==
  /\ Ends(rq.head) /\ Ends(sleepQ)
  /\ OnList(rq.head) \cap OnList(sleepQ) = {}
  /\ rq.state[p] = "READY" /\ p \notin OnList(rq.head) \cup OnList(sleepQ)
  /\ \A s \in OnList(rq.head) : rq.state[s] = "READY"
  /\ \A s \in OnList(sleepQ) : rq.state[s] = "SLEEP"
  /\ rq.head = NULL <=> rq.tail = NULL
  /\ rq.tail # NULL => rq.tail \in OnList(rq.head) /\ rq.next[rq.tail] = NULL

\* A process in state READY runs or is on the ready list: removeFromReady
\* calls anything else a kernel bug (disp.c).
ReadyMeansQueued ==
  \A s \in Slots : rq.state[s] = "READY" => s = p \/ s \in OnList(rq.head)

\* A process in state SLEEP is on the sleep list: removeFromSleep calls
\* anything else a corrupt sleep queue (sleep.c).
SleepersListed ==
  \A s \in Slots : rq.state[s] = "SLEEP" => s \in OnList(sleepQ)

\* While a process stands on the ready list nobody touches the value its
\* interrupted call will return: neither a signal posted to it nor the timer
\* that woke others (disp.c: kill; sleep.c: tick; ctsw.c).
ReturnKept ==
  [][\A s \in OnList(rq.head) \cap OnList(rq.head)' : ret'[s] = ret[s]]_vars

\* A wait ends in one of two ways: with -666 by a signal to the waiter's own
\* pid, or with 0 by the kill signal to the very pid it waits for, which leaves
\* the process found by that pid off the ready list.  Neither the stop of the
\* awaited process nor the reuse of its pcb ends a wait, nor does the kill of
\* the next process in that pcb (disp.c: SYS_WAIT, SYS_STOP, kill).
WaitEnds ==
  [][\A s \in Slots :
       rq.state[s] = "WAIT" /\ rq'.state[s] # "WAIT" =>
         \/ ret'[s] = -666 /\ \E sig \in SigArgs : SysKill(pid[s], sig)
         \/ /\ ret'[s] = 0 /\ SysKill(waitpid[s], KILL)
            /\ FindPCB(waitpid[s]) \notin OnList(rq.head)']_vars

\* Every process on the ready list gets the cpu (disp.c: ready, next,
\* SYS_TIMER), whatever the other programs do as long as none sends the kill
\* signal, which takes a process off the list for good.
ReadyRuns ==
  \A s \in Slots : s \in OnList(rq.head) ~> p = s

\* Every sleeping process is woken (sleep.c: sleep, tick).
SleeperWakes ==
  \A s \in Slots : rq.state[s] = "SLEEP" ~> rq.state[s] # "SLEEP"

=============================================================================
