---------------------------- MODULE KernelProofs ----------------------------
(***************************************************************************)
(* Proofs about module Kernel, for every value of its constants:           *)
(*   TypeCorrect         the type invariant, pointers included;            *)
(*   HandlersNest        signal frames nest by strictly rising priority;   *)
(*   PidsNameProcesses   the pid of a live process leads findPCB to it;    *)
(*   CreateFills         create() fails only when the table is full.       *)
(* They rest on nothing but TableAssumption and ArgumentAssumption, and    *)
(* hold for every Workload: a program that corrupts the lists included.    *)
(***************************************************************************)
EXTENDS Kernel, TLAPS, FiniteSetTheorems, WellFoundedInduction

USE DEF NULL

\* Arithmetic modulo WORD stays in a word, and its signed reading is an int.
LEMMA Remainder ==
  ASSUME NEW a \in Int
  PROVE  /\ a % WORD \in Word
         /\ AsInt(a % WORD) \in Int
<1>1. WORD \in Nat /\ WORD > 0
  BY TableAssumption
<1>2. a % WORD \in 0..WORD-1
  BY <1>1
<1> QED
  BY <1>1, <1>2 DEF Word, AsInt

\* A non-empty set of naturals has the least element Min picks.
LEMMA Least ==
  ASSUME NEW S, S \subseteq Nat, S # {}
  PROVE  Min(S) \in S /\ \A y \in S : Min(S) <= y
<1>1. PICK x \in S : \A y \in S : ~(<<y, x>> \in OpToRel(<, Nat))
  BY WFMin, NatLessThanWellFounded
<1>2. \A y \in S : x <= y
  <2> SUFFICES ASSUME NEW y \in S PROVE x <= y
    OBVIOUS
  <2>1. x \in Nat /\ y \in Nat
    OBVIOUS
  <2>2. ~(y < x)
    BY <1>1, <2>1 DEF OpToRel
  <2> QED
    BY <2>1, <2>2
<1> QED
  BY <1>1, <1>2 DEF Min

\* A non-empty set of slots has the greatest element Max picks.
LEMMA Greatest ==
  ASSUME NEW S, S \subseteq Slots, S # {}
  PROVE  Max(S) \in S /\ \A y \in S : y <= Max(S)
<1> DEFINE T == {MAX_PROC - x : x \in S}
<1>0. MAX_PROC \in Nat
  BY TableAssumption
<1>1. T \subseteq Nat /\ T # {}
  <2>1. \A x \in S : MAX_PROC - x \in Nat
    BY <1>0 DEF Slots
  <2>2. PICK x \in S : TRUE
    OBVIOUS
  <2> QED
    BY <2>1, <2>2
<1>2. Min(T) \in T /\ \A y \in T : Min(T) <= y
  BY <1>1, Least
<1>3. PICK x \in S : Min(T) = MAX_PROC - x
  BY <1>2
<1>4. \A y \in S : y <= x
  <2> SUFFICES ASSUME NEW y \in S PROVE y <= x
    OBVIOUS
  <2>1. MAX_PROC - y \in T
    OBVIOUS
  <2>2. MAX_PROC - x <= MAX_PROC - y
    BY <1>2, <1>3, <2>1
  <2> QED
    BY <2>2, <1>0 DEF Slots
<1>5. \A y \in S : x >= y
  BY <1>4, <1>0 DEF Slots
<1> QED
  BY <1>3, <1>4, <1>5, <1>0 DEF Max, Slots

-----------------------------------------------------------------------------
(* The list operations keep to a set C of slots. *)

Sound(L, C) ==
  /\ L \in Lists
  /\ L.head \in C \cup {NULL} /\ L.tail \in C \cup {NULL}
  /\ \A s \in Slots : /\ L.next[s] \in C \cup {NULL}
                      /\ L.next[s] # NULL => s \in C
                      /\ L.state[s] # "STOPPED" => s \in C

\* Slots are naturals and NULL is none of them.
LEMMA SlotsAreNat == Slots \subseteq Nat /\ NULL \notin Slots /\ MAX_PROC \in Nat
BY TableAssumption DEF Slots

\* ready() of a slot of C keeps the list inside C.
LEMMA ReadySound ==
  ASSUME NEW C \in SUBSET Slots, NEW L, Sound(L, C), NEW s \in C
  PROVE  Sound(Ready(L, s), C)
<1>1. "READY" \in States
  BY DEF States
<1>2. Ready(L, s) \in Lists
  BY <1>1 DEF Sound, Ready, Lists, Ptr
<1> QED
  BY <1>2, SlotsAreNat DEF Sound, Ready, Lists

\* kill()'s wake-up loop over slots of C keeps the list inside C.
LEMMA ReadyAllSound ==
  ASSUME NEW C \in SUBSET Slots, NEW L, Sound(L, C), NEW W \in SUBSET C
  PROVE  Sound(ReadyAll(L, W), C)
<1>1. CASE W = {}
  BY <1>1 DEF ReadyAll
<1>2. CASE W # {}
  <2>1. W \subseteq Nat
    BY SlotsAreNat
  <2>2. Min(W) \in W /\ Max(W) \in W /\ \A i \in W : i <= Max(W)
    BY <1>2, <2>1, Least, Greatest
  <2>3. \A i \in W : i # Max(W) => Min({j \in W : j > i}) \in W
    <3> SUFFICES ASSUME NEW i \in W, i # Max(W)
                 PROVE  Min({j \in W : j > i}) \in W
      OBVIOUS
    <3> DEFINE S == {j \in W : j > i}
    <3>1. Max(W) > i
      <4>1. i \in Nat /\ Max(W) \in Nat /\ i <= Max(W)
        BY <2>1, <2>2
      <4> QED
        BY <4>1
    <3>2. S \subseteq Nat /\ S # {}
      BY <2>1, <2>2, <3>1
    <3>3. Min(S) \in S
      BY <3>2, Least
    <3> QED
      BY <3>3
  <2> HIDE DEF NULL
  <2> DEFINE after(i) == Min({j \in W : j > i})
             first == Min(W)
             last == Max(W)
  <2>4. first \in W /\ last \in W /\ \A i \in W : i # last => after(i) \in W
    BY <2>2, <2>3
  <2>5. ReadyAll(L, W) =
          [state |-> [i \in Slots |-> IF i \in W THEN "READY" ELSE L.state[i]],
           next  |-> [i \in Slots |->
                        IF i \in W
                        THEN IF i # last THEN after(i)
                             ELSE IF W = {L.tail} THEN i ELSE NULL
                        ELSE IF i = L.tail THEN first ELSE L.next[i]],
           head  |-> IF L.tail = NULL THEN first ELSE L.head,
           tail  |-> last]
    BY <1>2 DEF ReadyAll
  <2> HIDE DEF after, first, last
  <2>6. "READY" \in States /\ "READY" # "STOPPED"
    BY DEF States
  <2>7. ReadyAll(L, W) \in Lists
    BY <2>4, <2>5, <2>6 DEF Sound, Lists, Ptr
  <2> DEFINE R == ReadyAll(L, W)
  <2>8. R.head \in C \cup {NULL} /\ R.tail \in C \cup {NULL}
    BY <2>4, <2>5 DEF Sound
  <2>9. ASSUME NEW s \in Slots
        PROVE  /\ R.next[s] \in C \cup {NULL}
               /\ R.next[s] # NULL => s \in C
               /\ R.state[s] # "STOPPED" => s \in C
    <3>1. R.state[s] = IF s \in W THEN "READY" ELSE L.state[s]
      BY <2>5
    <3>2. R.next[s] = IF s \in W
                      THEN IF s # last THEN after(s)
                           ELSE IF W = {L.tail} THEN s ELSE NULL
                      ELSE IF s = L.tail THEN first ELSE L.next[s]
      BY <2>5
    <3>3. s = L.tail => s \in C
      BY SlotsAreNat DEF Sound
    <3> QED
      BY <3>1, <3>2, <3>3, <2>4 DEF Sound
  <2> QED
    BY <2>7, <2>8, <2>9 DEF Sound
<1> QED
  BY <1>1, <1>2

\* removeFromReady() keeps the list inside C, whether it finds its target or
\* not.
LEMMA RemoveSound ==
  ASSUME NEW C \in SUBSET Slots, NEW L, Sound(L, C), NEW t \in Slots
  PROVE  Sound(RemoveFromReady(L, t), C)
<1> DEFINE R == RemoveFromReady(L, t)
<1>1. CASE L.head = t
  <2>1. R = [L EXCEPT !.head = L.next[t],
                      !.tail = IF L.next[t] = NULL THEN NULL ELSE @]
    BY <1>1 DEF RemoveFromReady
  <2> QED
    BY <2>1 DEF Sound, Lists, Ptr
<1>2. CASE L.head # t /\ \E s \in Slots : Before(L, s, t)
  <2> DEFINE prev == CHOOSE s \in Slots : Before(L, s, t)
  <2>1. prev \in Slots /\ L.next[prev] = t
    BY <1>2 DEF Before
  <2>2. R = [L EXCEPT !.next = [[@ EXCEPT ![prev] = L.next[t]] EXCEPT ![t] = NULL],
                      !.tail = IF @ = t THEN prev ELSE @]
    BY <1>2 DEF RemoveFromReady
  <2> HIDE DEF prev
  <2>3. prev \in C
    BY <2>1, SlotsAreNat DEF Sound
  <2>4. R \in Lists
    BY <2>2, <2>3 DEF Sound, Lists, Ptr
  <2> QED
    BY <2>2, <2>3, <2>4 DEF Sound, Lists
<1>3. CASE L.head # t /\ ~ \E s \in Slots : Before(L, s, t)
  BY <1>3 DEF RemoveFromReady
<1> QED
  BY <1>1, <1>2, <1>3

\* next() runs a slot of C and keeps the rest of the list inside C.
LEMMA DispatchSound ==
  ASSUME NEW C \in SUBSET Slots, NEW L, Sound(L, C), p \in C, Dispatch(L)
  PROVE  /\ Sound(rq', C)
         /\ p' \in C
         /\ mode' \in {"user", "hung"}
<1>1. CASE L.head = NULL
  BY <1>1 DEF Dispatch
<1>2. CASE L.head # NULL
  <2>1. /\ mode' = "user"
        /\ p' = L.head
        /\ rq' = [L EXCEPT !.head = L.next[L.head],
                           !.tail = IF L.next[L.head] = NULL THEN NULL ELSE @,
                           !.next[L.head] = NULL]
    BY <1>2 DEF Dispatch
  <2>2. L.head \in C
    BY <1>2 DEF Sound
  <2>3. rq' \in Lists
    BY <2>1, <2>2 DEF Sound, Lists, Ptr
  <2> QED
    BY <2>1, <2>2, <2>3 DEF Sound, Lists
<1> QED
  BY <1>1, <1>2

\* Every well-typed list is sound for the set of all slots.
LEMMA AllSlotsSound ==
  ASSUME NEW L \in Lists
  PROVE  Sound(L, Slots)
BY DEF Sound, Lists, Ptr

\* next() keeps the types of p, mode and the list.
LEMMA DispatchType ==
  ASSUME NEW L \in Lists, p \in Slots, Dispatch(L)
  PROVE  rq' \in Lists /\ p' \in Slots /\ mode' \in {"user", "hung"}
BY AllSlotsSound, DispatchSound DEF Sound

\* ready() keeps the type of the list.
LEMMA ReadyType ==
  ASSUME NEW L \in Lists, NEW s \in Slots
  PROVE  Ready(L, s) \in Lists
BY AllSlotsSound, ReadySound DEF Sound

-----------------------------------------------------------------------------
(* Type correctness, action by action. *)

\* initproc() establishes the types.
LEMMA InitType == Init => TypeOK
<1> SUFFICES ASSUME Init PROVE TypeOK
  OBVIOUS
<1>1. /\ MAX_PROC \in Nat /\ MAX_PROC >= 2 /\ WORD \in Nat /\ WORD > MAX_PROC
      /\ MAX_SIG \in Nat /\ MAX_SIG >= 2 /\ CPU_WRAP \in Nat \ {0}
  BY TableAssumption
<1>2. Idle \in Slots /\ Second \in Slots
  BY <1>1 DEF Idle, Second, Slots
<1>3. rq \in Lists
  BY <1>2 DEF Init, Lists, Ptr, States
<1>4. pid \in [Slots -> Word] /\ nextpid \in Word
  BY <1>1 DEF Init, Word
<1>5. /\ sleepdiff \in [Slots -> Word] /\ waitpid \in [Slots -> Word]
      /\ cpuTime \in [Slots -> 0..CPU_WRAP-1] /\ ret \in [Slots -> Int]
  BY <1>1 DEF Init, Word
<1>6. /\ sigtab \in [Slots -> [Signals -> Nat]]
      /\ sigmask \in [Slots -> SUBSET Signals]
      /\ currSigLvl \in [Slots -> Signals]
      /\ frames \in [Slots -> Seq(Frame)]
  BY <1>1 DEF Init, Signals
<1> QED
  BY <1>2, <1>3, <1>4, <1>5, <1>6 DEF Init, TypeOK, Ptr

\* SYS_CREATE keeps the types: pids stay words although nextpid wraps.
LEMMA CreateType ==
  ASSUME TypeOK, NEW gotStack \in BOOLEAN, SysCreate(gotStack)
  PROVE  TypeOK'
<1>1. \A i \in 1..MAX_PROC : Proposed(i) \in Word /\ AsInt(Proposed(i)) \in Int
  <2>1. \A i \in 1..MAX_PROC : nextpid + i \in Int
    BY TableAssumption DEF TypeOK, Word
  <2> QED
    BY <2>1, Remainder DEF Proposed
<1>2. \A i \in 1..MAX_PROC : SlotOf(i) \in Slots
  BY <1>1, TableAssumption DEF SlotOf, Slots, Word
<1>3. MAX_PROC \in 1..MAX_PROC
  BY TableAssumption
<1>4. FreeProbes # {} => Min(FreeProbes) \in 1..MAX_PROC
  <2>1. FreeProbes \subseteq 1..MAX_PROC /\ 1..MAX_PROC \subseteq Nat
    BY TableAssumption DEF FreeProbes
  <2> QED
    BY <2>1, Least
<1>5. nextpid' \in Word
  BY <1>1, <1>3, <1>4 DEF SysCreate
<1>6. ret' \in [Slots -> Int]
  BY <1>1, <1>3, <1>4 DEF SysCreate, TypeOK
<1>7. rq' \in Lists
  BY <1>2, <1>4, ReadyType DEF SysCreate, TypeOK
<1>8. pid' \in [Slots -> Word]
  BY <1>2, <1>4, <1>5 DEF SysCreate, TypeOK
<1>9. frames' \in [Slots -> Seq(Frame)]
  <2>1. <<>> \in Seq(Frame)
    OBVIOUS
  <2> QED
    BY <1>2, <1>4, <2>1 DEF SysCreate, TypeOK
<1> QED
  BY <1>5, <1>6, <1>7, <1>8, <1>9 DEF SysCreate, TypeOK

\* SYS_YIELD keeps the types.
LEMMA YieldType ==
  ASSUME TypeOK, SysYield
  PROVE  TypeOK'
<1>1. Ready(rq, p) \in Lists
  BY ReadyType DEF TypeOK
<1> QED
  BY <1>1, DispatchType DEF SysYield, TypeOK, sigvars

\* SYS_STOP keeps the types.
LEMMA StopType ==
  ASSUME TypeOK, SysStop
  PROVE  TypeOK'
<1>1. [rq EXCEPT !.state[p] = "STOPPED"] \in Lists
  BY DEF TypeOK, Lists, States
<1> QED
  BY <1>1, DispatchType DEF SysStop, TypeOK, sigvars

\* A call that only answers an int keeps the types.
LEMMA AnswerType ==
  ASSUME TypeOK, NEW v \in Int, Answer(v)
  PROVE  TypeOK'
BY DEF Answer, TypeOK, sigvars

\* SYS_GETPID, SYS_PUTS and SYS_CPUTIMES keep the types.
LEMMA AnswersType ==
  ASSUME TypeOK, SysGetpid \/ SysPuts \/ SysCpuTimes
  PROVE  TypeOK'
<1>1. AsInt(pid[p]) \in Int
  BY TableAssumption DEF TypeOK, Word, AsInt
<1>2. Cardinality(Live) \in Nat
  <2>1. IsFiniteSet(Slots)
    BY FS_Interval, TableAssumption DEF Slots
  <2>2. Live \subseteq Slots
    BY DEF Live
  <2> QED
    BY <2>1, <2>2, FS_Subset, FS_CardinalityType
<1>3. \A v \in {-1, -2, Cardinality(Live) - 1} : v \in Int
  BY <1>2
<1> QED
  BY <1>1, <1>3, AnswerType DEF SysGetpid, SysPuts, SysCpuTimes

\* SYS_WAIT keeps the types.
LEMMA WaitType ==
  ASSUME TypeOK, NEW n \in PidArgs, SysWait(n)
  PROVE  TypeOK'
<1>1. n \in Word
  BY ArgumentAssumption DEF Word
<1>2. [rq EXCEPT !.state[p] = "WAIT"] \in Lists
  BY DEF TypeOK, Lists, States
<1>3. CASE n = 0 \/ FindPCB(n) = NULL
  BY <1>3 DEF SysWait, TypeOK, sigvars
<1>4. CASE n # 0 /\ FindPCB(n) # NULL
  <2>1. rq' \in Lists /\ p' \in Slots /\ mode' \in {"user", "hung"}
    BY <1>2, <1>4, DispatchType DEF SysWait, TypeOK
  <2>2. /\ waitpid' = [waitpid EXCEPT ![p] = n]
        /\ ret' = [ret EXCEPT ![p] = 0]
    BY <1>4 DEF SysWait
  <2>3. waitpid' \in [Slots -> Word] /\ ret' \in [Slots -> Int]
    BY <1>1, <2>2 DEF TypeOK
  <2> QED
    BY <2>1, <2>3 DEF SysWait, TypeOK, sigvars
<1> QED
  BY <1>3, <1>4

\* Linking p into the middle of the delta list keeps the types, the key of its
\* successor included, which may wrap.
LEMMA InsertType ==
  ASSUME TypeOK, NEW L \in Lists, NEW spot \in Slots, NEW d \in Word,
         InsertAfter(L, spot, d)
  PROVE  /\ sleepdiff' \in [Slots -> Word]
         /\ rq' \in Lists /\ p' \in Slots /\ mode' \in {"user", "hung"}
<1> DEFINE next == [[L.next EXCEPT ![p] = L.next[spot]] EXCEPT ![spot] = p]
           diff == [sleepdiff EXCEPT ![p] = d]
<1>1. next \in [Slots -> Ptr] /\ diff \in [Slots -> Word]
  BY DEF TypeOK, Lists, Ptr
<1>2. [L EXCEPT !.next = next] \in Lists
  BY <1>1 DEF Lists
<1>3. Dispatch([L EXCEPT !.next = next])
  BY DEF InsertAfter
<1>4. sleepdiff' = IF next[p] = NULL THEN diff
                   ELSE [diff EXCEPT ![next[p]] = (@ - d) % WORD]
  BY DEF InsertAfter
<1> HIDE DEF next, diff
<1>5. sleepdiff' \in [Slots -> Word]
  <2>1. next[p] \in Ptr
    BY <1>1 DEF TypeOK
  <2>2. CASE next[p] = NULL
    BY <1>1, <1>4, <2>2
  <2>3. CASE next[p] # NULL
    <3>1. next[p] \in Slots
      BY <2>1, <2>3 DEF Ptr
    <3>2. diff[next[p]] - d \in Int
      BY <1>1, <3>1, TableAssumption DEF Word
    <3>3. (diff[next[p]] - d) % WORD \in Word
      BY <3>2, Remainder
    <3> QED
      BY <1>1, <1>4, <2>3, <3>1, <3>3
  <2> QED
    BY <2>2, <2>3
<1> QED
  BY <1>2, <1>3, <1>5, DispatchType DEF TypeOK

\* SYS_SLEEP keeps the types, in each of its five cases.
LEMMA SleepType ==
  ASSUME TypeOK, NEW ms \in SleepLens, SysSleep(ms)
  PROVE  TypeOK'
<1> DEFINE len == ms \div MILLISECONDS_TICK
           L == [rq EXCEPT !.state[p] = "SLEEP", !.next[p] = NULL]
           w == SleepSearch(L.next, len)
           None  == /\ Dispatch(Ready(rq, p))
                    /\ UNCHANGED <<sleepQ, sleepdiff>>
           First == /\ sleepQ' = p
                    /\ sleepdiff' = [sleepdiff EXCEPT ![p] = len]
                    /\ Dispatch(L)
           Front == /\ sleepQ # NULL /\ sleepdiff[sleepQ] > len
                    /\ sleepQ' = p
                    /\ sleepdiff' = [[sleepdiff EXCEPT ![sleepQ] = @ - len]
                                                EXCEPT ![p] = len]
                    /\ Dispatch([L EXCEPT !.next[p] = sleepQ])
           After == /\ w \in Search(L.next)
                    /\ InsertAfter(L, w.tmp, w.len)
                    /\ UNCHANGED sleepQ
           Spin  == /\ rq' = L /\ mode' = "hung"
                    /\ UNCHANGED <<p, sleepQ, sleepdiff>>
<1>1. len \in Word /\ WORD \in Nat
  BY ArgumentAssumption, TableAssumption DEF Word
<1>2. L \in Lists /\ p \in Slots /\ rq \in Lists
  BY DEF TypeOK, Lists, States, Ptr
<1>3. None \/ First \/ Front \/ After \/ Spin
  BY DEF SysSleep
<1> SUFFICES /\ rq' \in Lists /\ p' \in Slots /\ mode' \in {"user", "hung"}
             /\ sleepQ' \in Ptr /\ sleepdiff' \in [Slots -> Word]
  BY DEF SysSleep, TypeOK, sigvars
<1> HIDE DEF len, L, w
<1>4. CASE None
  <2>1. Ready(rq, p) \in Lists
    BY <1>2, ReadyType
  <2>2. rq' \in Lists /\ p' \in Slots /\ mode' \in {"user", "hung"}
    BY <1>2, <1>4, <2>1, DispatchType
  <2> QED
    BY <1>4, <2>2 DEF TypeOK
<1>5. CASE First
  BY <1>1, <1>2, <1>5, DispatchType DEF TypeOK, Ptr
<1>6. CASE Front
  <2>1. [L EXCEPT !.next[p] = sleepQ] \in Lists
    BY <1>2 DEF TypeOK, Lists
  <2>2. sleepQ \in Slots
    BY <1>6 DEF TypeOK, Ptr
  <2>3. sleepdiff[sleepQ] - len \in Word
    <3>1. sleepdiff[sleepQ] \in Word
      BY <2>2 DEF TypeOK
    <3> QED
      BY <1>1, <1>6, <3>1 DEF Word
  <2>4. rq' \in Lists /\ p' \in Slots /\ mode' \in {"user", "hung"}
    BY <1>2, <1>6, <2>1, DispatchType
  <2>5. sleepdiff' \in [Slots -> Word]
    BY <1>1, <1>2, <1>6, <2>2, <2>3 DEF TypeOK
  <2> QED
    BY <1>2, <1>6, <2>4, <2>5 DEF Ptr
<1>7. CASE After
  <2>1. w.tmp \in Slots /\ w.len \in Word
    BY <1>7 DEF Search, Linked
  <2> QED
    BY <1>2, <1>7, <2>1, InsertType DEF TypeOK
<1>8. CASE Spin
  BY <1>2, <1>8 DEF TypeOK
<1> QED
  BY <1>3, <1>4, <1>5, <1>6, <1>7, <1>8

\* The decrement of tick() keeps the types: a key of 0 wraps.
LEMMA TimerType ==
  ASSUME TypeOK, SysTimer
  PROVE  TypeOK'
<1>1. ret' \in [Slots -> Int]
  BY ArgumentAssumption DEF SysTimer, TypeOK
<1>2. sleepdiff' \in [Slots -> Word]
  <2>1. CASE sleepQ = NULL
    BY <2>1 DEF SysTimer, TypeOK
  <2>2. CASE sleepQ # NULL
    <3>1. sleepQ \in Slots
      BY <2>2 DEF TypeOK, Ptr
    <3>2. sleepdiff[sleepQ] - 1 \in Int
      BY <3>1, TableAssumption DEF TypeOK, Word
    <3>3. (sleepdiff[sleepQ] - 1) % WORD \in Word
      BY <3>2, Remainder
    <3> QED
      BY <2>2, <3>1, <3>3 DEF SysTimer, TypeOK
  <2> QED
    BY <2>1, <2>2
<1> QED
  BY <1>1, <1>2 DEF SysTimer, TypeOK, sigvars

\* One iteration of tick()'s loop keeps the types.
LEMMA TickWakeType ==
  ASSUME TypeOK, TickWake
  PROVE  TypeOK'
<1>1. sleepQ \in Slots
  BY DEF TickWake, Expired, TypeOK, Ptr
<1>2. rq' \in Lists
  BY <1>1, ReadyType DEF TickWake, TypeOK
<1>3. sleepQ' \in Ptr
  BY <1>1 DEF TickWake, TypeOK, Lists
<1>4. ret' \in [Slots -> Int]
  BY <1>1 DEF TickWake, TypeOK
<1> QED
  BY <1>2, <1>3, <1>4 DEF TickWake, TypeOK, sigvars

\* The end of SYS_TIMER keeps the types.
LEMMA TimerDoneType ==
  ASSUME TypeOK, TimerDone
  PROVE  TypeOK'
<1>1. Ready(rq, p) \in Lists
  BY ReadyType DEF TypeOK
<1>2. rq' \in Lists /\ p' \in Slots /\ mode' \in {"user", "hung"}
  BY <1>1, DispatchType DEF TimerDone, TypeOK
<1>3. cpuTime' \in [Slots -> 0..CPU_WRAP-1]
  <2>1. \A c \in 0..CPU_WRAP-1 : (c + 1) % CPU_WRAP \in 0..CPU_WRAP-1
    BY TableAssumption
  <2> QED
    BY <2>1 DEF TimerDone, TypeOK
<1> QED
  BY <1>2, <1>3 DEF TimerDone, TypeOK, sigvars

\* findPCB() returns NULL or a slot.
LEMMA FindPCBType ==
  ASSUME NEW n
  PROVE  /\ FindPCB(n) \in Ptr
         /\ FindPCB(n) # NULL =>
              /\ FindPCB(n) \in Slots /\ pid[FindPCB(n)] = n
              /\ \A s \in Slots : pid[s] = n => FindPCB(n) <= s
<1>1. Holders(n) \subseteq Slots /\ Holders(n) \subseteq Nat
  BY SlotsAreNat DEF Holders
<1>2. CASE Holders(n) = {}
  BY <1>2 DEF FindPCB, Ptr
<1>3. CASE Holders(n) # {}
  <2>1. /\ Min(Holders(n)) \in Holders(n)
        /\ \A y \in Holders(n) : Min(Holders(n)) <= y
    BY <1>1, <1>3, Least
  <2>2. FindPCB(n) = Min(Holders(n))
    BY <1>3 DEF FindPCB
  <2> QED
    BY <1>1, <2>1, <2>2 DEF Holders, Ptr
<1> QED
  BY <1>2, <1>3

\* What an interrupted call returns is an int.
LEMMA InterruptedType ==
  ASSUME TypeOK, NEW t \in Slots
  PROVE  Interrupted(t) \in Int
<1>1. KillInSleep(t) \in Int
  <2> DEFINE ticks == CASE t = sleepQ -> sleepdiff[t]
                        [] sleepQ = NULL -> sleepdiff[t] + LOWMEM
                        [] OTHER -> sleepdiff[t] + sleepdiff[sleepQ]
  <2>1. /\ WORD \in Nat /\ LOWMEM \in Nat /\ MILLISECONDS_TICK \in Nat
        /\ sleepdiff[t] \in Nat
        /\ sleepQ # NULL => sleepdiff[sleepQ] \in Nat
    BY TableAssumption, ArgumentAssumption DEF TypeOK, Word, Ptr
  <2>2. ticks \in Nat
    BY <2>1
  <2>3. ticks * MILLISECONDS_TICK \in Int
    BY <2>1, <2>2
  <2>4. KillInSleep(t) = AsInt((ticks * MILLISECONDS_TICK) % WORD)
    BY DEF KillInSleep
  <2> HIDE DEF ticks
  <2> QED
    BY <2>3, <2>4, Remainder
<1> QED
  BY <1>1 DEF Interrupted, TypeOK

\* signal() keeps the types of the signal state.
LEMMA SignalType ==
  ASSUME TypeOK, NEW t \in Slots, NEW sig \in Signals, NEW saved \in Int,
         Signal(t, sig, saved)
  PROVE  /\ sigtab' \in [Slots -> [Signals -> Nat]]
         /\ sigmask' \in [Slots -> SUBSET Signals]
         /\ currSigLvl' \in [Slots -> Signals]
         /\ frames' \in [Slots -> Seq(Frame)]
<1> DEFINE frame == [handler |-> sigtab[t][sig], old_ret |-> saved,
                     sigLvl |-> currSigLvl[t]]
<1>1. frame \in Frame
  BY DEF TypeOK, Frame
<1>2. Append(frames[t], frame) \in Seq(Frame)
  BY <1>1 DEF TypeOK
<1>3. sigtab' \in [Slots -> [Signals -> Nat]]
  BY DEF Signal, TypeOK, sigvars
<1>4. sigmask' \in [Slots -> SUBSET Signals]
  <2>1. sigmask' = sigmask \/ sigmask' = [sigmask EXCEPT ![t] = @ \cup {sig}]
    BY DEF Signal, sigvars
  <2>2. sigmask[t] \cup {sig} \in SUBSET Signals
    BY DEF TypeOK
  <2> QED
    BY <2>1, <2>2 DEF TypeOK
<1>5. currSigLvl' \in [Slots -> Signals]
  BY DEF Signal, TypeOK, sigvars
<1>6. frames' \in [Slots -> Seq(Frame)]
  <2>1. frames' = frames \/ frames' = [frames EXCEPT ![t] = Append(@, frame)]
    BY DEF Signal, sigvars
  <2> HIDE DEF frame
  <2> QED
    BY <1>2, <2>1 DEF TypeOK
<1> QED
  BY <1>3, <1>4, <1>5, <1>6

\* The lists kill() leaves behind.
LEMMA PostSound ==
  ASSUME TypeOK, NEW C \in SUBSET Slots, Sound(rq, C),
         NEW t \in Slots, NEW sig, Post(t, sig)
  PROVE  Sound(rq', C)
<1> DEFINE L1 == IF rq.state[t] \in {"WAIT", "SLEEP"} THEN Ready(rq, t) ELSE rq
           unlink == sig = KILL /\ L1.state[t] = "READY"
           L2 == IF unlink THEN RemoveFromReady(L1, t) ELSE L1
           woken == IF sig = KILL THEN Waiters(L2, t) ELSE {}
<1>1. rq' = ReadyAll(L2, woken) \/ rq' = L1
  BY DEF Post
<1>2. Sound(L1, C)
  <2>1. rq.state[t] \in {"WAIT", "SLEEP"} => t \in C
    BY DEF Sound
  <2> QED
    BY <2>1, ReadySound
<1> HIDE DEF L1
<1>3. Sound(L2, C)
  BY <1>2, RemoveSound
<1> HIDE DEF L2
<1>4. woken \subseteq C
  BY <1>3 DEF Sound, Waiters
<1> HIDE DEF woken
<1> QED
  BY <1>1, <1>2, <1>3, <1>4, ReadyAllSound

\* SYS_KILL keeps the types, in every one of its answers.
LEMMA KillType ==
  ASSUME TypeOK, NEW n \in PidArgs, NEW sig \in SigArgs, SysKill(n, sig)
  PROVE  TypeOK'
<1> DEFINE t == FindPCB(n)
           Posted == sig \in Signals /\ t # NULL /\ Post(t, sig)
<1>1. CASE ~Posted
  <2>1. /\ \E r \in {-1, -999, 0} : ret' = [ret EXCEPT ![p] = r]
        /\ UNCHANGED <<mode, rq, waitpid, sigvars>>
    BY <1>1 DEF SysKill
  <2>2. ret' \in [Slots -> Int]
    BY <2>1 DEF TypeOK
  <2> QED
    BY <2>1, <2>2 DEF SysKill, TypeOK, sigvars
<1>2. CASE Posted
  <2>1. t \in Slots
    BY <1>2, FindPCBType
  <2>2. Interrupted(t) \in Int
    BY <2>1, InterruptedType
  <2>3. rq' \in Lists
    <3>1. Sound(rq, Slots)
      BY AllSlotsSound DEF TypeOK
    <3> QED
      BY <1>2, <2>1, <3>1, PostSound DEF Sound
  <2>4. mode' \in {"user", "tick", "hung"}
    BY <1>2 DEF Post, TypeOK
  <2> DEFINE posted == [ret EXCEPT ![t] = Interrupted(t)]
  <2>5. ret' = [posted EXCEPT ![p] = 0] \/ ret' = posted
    BY <1>2 DEF Post
  <2>6. ret' \in [Slots -> Int]
    <3> HIDE DEF t
    <3>1. posted \in [Slots -> Int]
      BY <2>1, <2>2 DEF TypeOK
    <3> HIDE DEF posted
    <3> QED
      BY <2>5, <3>1 DEF TypeOK
  <2>7. waitpid' \in [Slots -> Word]
    <3>1. \/ waitpid' = waitpid
          \/ \E S : waitpid' = [s \in Slots |-> IF s \in S THEN 0 ELSE waitpid[s]]
      BY <1>2 DEF Post
    <3>2. 0 \in Word
      BY TableAssumption DEF Word
    <3> QED
      BY <3>1, <3>2 DEF TypeOK
  <2>8. Signal(t, sig, Interrupted(t)) \/ UNCHANGED sigvars
    BY <1>2 DEF Post
  <2>9. /\ sigtab' \in [Slots -> [Signals -> Nat]]
        /\ sigmask' \in [Slots -> SUBSET Signals]
        /\ currSigLvl' \in [Slots -> Signals]
        /\ frames' \in [Slots -> Seq(Frame)]
    BY <1>2, <2>1, <2>2, <2>8, SignalType DEF TypeOK, sigvars
  <2> HIDE DEF t
  <2> QED
    BY <2>3, <2>4, <2>6, <2>7, <2>9 DEF SysKill, TypeOK
<1> QED
  BY <1>1, <1>2

\* SYS_SIGHANDLER keeps the types.
LEMMA SighandlerType ==
  ASSUME TypeOK, NEW sig \in SigArgs, NEW h \in Handlers \cup BadHandlers \cup {0},
         SysSighandler(sig, h)
  PROVE  TypeOK'
<1>1. h \in Nat /\ sig \in Signals
  BY ArgumentAssumption, TableAssumption DEF SysSighandler, Signals
<1>2. sigtab' \in [Slots -> [Signals -> Nat]]
  <2>1. \/ sigtab' = sigtab
        \/ sigtab' = [sigtab EXCEPT ![p] = [sigtab[p] EXCEPT ![sig] = h]]
    BY DEF SysSighandler
  <2>2. [sigtab[p] EXCEPT ![sig] = h] \in [Signals -> Nat]
    BY <1>1 DEF TypeOK
  <2> QED
    BY <2>1, <2>2 DEF TypeOK
<1>3. ret' \in [Slots -> Int]
  BY <1>1 DEF SysSighandler, TypeOK
<1> QED
  BY <1>2, <1>3 DEF SysSighandler, TypeOK

\* SYS_SIGRETURN keeps the types.
LEMMA SigreturnType ==
  ASSUME TypeOK, SysSigreturn
  PROVE  TypeOK'
<1>1. /\ frames[p] \in Seq(Frame) /\ frames[p] # <<>>
      /\ Len(frames[p]) \in Nat /\ Len(frames[p]) >= 1
  BY DEF SysSigreturn, TypeOK
<1>2. frames[p][Len(frames[p])] \in Frame
  BY <1>1
<1>3. SubSeq(frames[p], 1, Len(frames[p]) - 1) \in Seq(Frame)
  BY <1>1
<1>4. frames' \in [Slots -> Seq(Frame)]
  BY <1>3 DEF SysSigreturn, TypeOK
<1>5. /\ currSigLvl' \in [Slots -> Signals]
      /\ ret' \in [Slots -> Int]
  BY <1>2 DEF SysSigreturn, TypeOK, Frame
<1>6. sigmask' \in [Slots -> SUBSET Signals]
  <2>1. \A mask \in SUBSET Signals : Unmarked(mask) \in SUBSET Signals
    BY DEF Unmarked
  <2> QED
    BY <2>1 DEF SysSigreturn, TypeOK
<1> QED
  BY <1>4, <1>5, <1>6 DEF SysSigreturn, TypeOK

\* The steps of the next-state relation, with the arguments they are given.
Step ==
  \/ \E gotStack \in BOOLEAN : SysCreate(gotStack)
  \/ SysStop \/ SysYield
  \/ SysGetpid \/ SysPuts \/ SysCpuTimes
  \/ \E n \in PidArgs : SysWait(n)
  \/ \E ms \in SleepLens : SysSleep(ms)
  \/ \E n \in PidArgs, sig \in SigArgs : SysKill(n, sig)
  \/ \E sig \in SigArgs, h \in Handlers \cup BadHandlers \cup {0} :
       SysSighandler(sig, h)
  \/ SysSigreturn
  \/ SysTimer \/ TickWake \/ TimerDone

\* Every step is one of the listed kinds, whatever the Workload.
LEMMA NextIsStep == Next => Step
BY DEF Next, Calls, Step

\* Every step of the kernel keeps the types.
LEMMA StepType ==
  ASSUME TypeOK, [Next]_vars
  PROVE  TypeOK'
<1>1. CASE UNCHANGED vars
  BY <1>1 DEF vars, sigvars, TypeOK
<1>2. CASE Next
  <2>1. Step
    BY <1>2, NextIsStep
  <2> QED
    BY <2>1, CreateType, StopType, YieldType, AnswersType, WaitType,
       SleepType, KillType, SighandlerType, SigreturnType, TimerType,
       TickWakeType, TimerDoneType DEF Step
<1> QED
  BY <1>1, <1>2

\* The pcbs, the lists and the signal state keep their types: in particular
\* every pointer leads to a pcb or is NULL, whatever the programs do.
THEOREM TypeCorrect == Spec => []TypeOK
<1>1. Init => TypeOK
  BY InitType
<1>2. TypeOK /\ [Next]_vars => TypeOK'
  BY StepType
<1> QED
  BY <1>1, <1>2, PTL DEF Spec

-----------------------------------------------------------------------------
(* Handlers nest by priority. *)

\* SignalNesting without the sequence of levels: what it says of one process.
Nested(s) ==
  \A i \in 1..Len(frames[s]) :
    frames[s][i].sigLvl < (IF i = Len(frames[s]) THEN currSigLvl[s]
                           ELSE frames[s][i+1].sigLvl)

\* Nested for every process is SignalNesting.
LEMMA NestedIsNesting ==
  ASSUME TypeOK
  PROVE  SignalNesting <=> \A s \in Slots : Nested(s)
<1> SUFFICES ASSUME NEW s \in Slots
             PROVE  (\A i \in DOMAIN frames[s] : Levels(s)[i] < Levels(s)[i+1])
                      <=> Nested(s)
  BY DEF SignalNesting
<1> DEFINE f == frames[s]
           lv == [i \in DOMAIN f |-> f[i].sigLvl]
<1>1. f \in Seq(Frame) /\ Len(f) \in Nat /\ DOMAIN f = 1..Len(f)
  BY DEF TypeOK
<1>2. \A i \in 1..Len(f) : f[i].sigLvl \in Signals
  <2>1. \A i \in 1..Len(f) : f[i] \in Frame
    BY <1>1
  <2> HIDE DEF f
  <2> QED
    BY <2>1 DEF Frame
<1>3. lv \in Seq(Signals) /\ Len(lv) = Len(f)
  BY <1>1, <1>2
<1>4. currSigLvl[s] \in Signals
  BY DEF TypeOK
<1>5. Levels(s) = Append(lv, currSigLvl[s])
  BY DEF Levels
<1>6. \A i \in 1..Len(f) :
        /\ Levels(s)[i] = f[i].sigLvl
        /\ Levels(s)[i+1] = IF i = Len(f) THEN currSigLvl[s] ELSE f[i+1].sigLvl
  BY <1>1, <1>3, <1>4, <1>5
<1> QED
  BY <1>1, <1>6 DEF Nested

\* signal() pushes a frame only above the current level.
LEMMA SignalKeepsNesting ==
  ASSUME TypeOK, \A s \in Slots : Nested(s),
         NEW t \in Slots, NEW sig \in Signals, NEW saved \in Int,
         Signal(t, sig, saved)
  PROVE  \A s \in Slots : Nested(s)'
<1> SUFFICES ASSUME NEW s \in Slots PROVE Nested(s)'
  OBVIOUS
<1> DEFINE frame == [handler |-> sigtab[t][sig], old_ret |-> saved,
                     sigLvl |-> currSigLvl[t]]
<1>1. \/ UNCHANGED <<frames, currSigLvl>>
      \/ /\ sig > currSigLvl[t]
         /\ frames' = [frames EXCEPT ![t] = Append(@, frame)]
         /\ currSigLvl' = [currSigLvl EXCEPT ![t] = sig]
  BY DEF Signal, sigvars
<1>2. CASE UNCHANGED <<frames, currSigLvl>>
  BY <1>2 DEF Nested
<1>3. CASE /\ sig > currSigLvl[t]
           /\ frames' = [frames EXCEPT ![t] = Append(@, frame)]
           /\ currSigLvl' = [currSigLvl EXCEPT ![t] = sig]
  <2>1. CASE s # t
    <3>1. frames'[s] = frames[s] /\ currSigLvl'[s] = currSigLvl[s]
      BY <1>3, <2>1 DEF TypeOK
    <3> QED
      BY <3>1 DEF Nested
  <2>2. CASE s = t
    <3>0. Signals \subseteq Nat
      BY TableAssumption DEF Signals
    <3>1. /\ frames'[s] = Append(frames[s], frame) /\ currSigLvl'[s] = sig
          /\ frames[s] \in Seq(Frame) /\ Len(frames[s]) \in Nat
          /\ currSigLvl[s] \in Nat /\ sig \in Nat /\ sig > currSigLvl[s]
      <4>1. frames'[s] = Append(frames[s], frame) /\ currSigLvl'[s] = sig
        BY <1>3, <2>2 DEF TypeOK
      <4>2. frames[s] \in Seq(Frame) /\ Len(frames[s]) \in Nat
        BY DEF TypeOK
      <4>3. currSigLvl[s] \in Nat /\ sig \in Nat /\ sig > currSigLvl[s]
        BY <1>3, <2>2, <3>0 DEF TypeOK
      <4> QED
        BY <4>1, <4>2, <4>3
    <3>2. frame \in Frame /\ frame.sigLvl = currSigLvl[s]
      BY <2>2 DEF TypeOK, Frame
    <3> HIDE DEF frame
    <3>3. /\ Len(frames'[s]) = Len(frames[s]) + 1
          /\ \A i \in 1..Len(frames[s]) : frames'[s][i] = frames[s][i]
          /\ frames'[s][Len(frames[s]) + 1] = frame
      BY <3>1, <3>2
    <3>4. ASSUME NEW i \in 1..Len(frames'[s])
          PROVE  frames'[s][i].sigLvl <
                   IF i = Len(frames'[s]) THEN currSigLvl'[s]
                   ELSE frames'[s][i+1].sigLvl
      <4>1. CASE i = Len(frames[s]) + 1
        BY <3>1, <3>2, <3>3, <4>1
      <4>2. CASE i = Len(frames[s])
        BY <3>1, <3>2, <3>3, <4>2 DEF Nested
      <4>3. CASE i < Len(frames[s])
        BY <3>1, <3>2, <3>3, <4>3 DEF Nested
      <4> QED
        BY <3>1, <3>3, <4>1, <4>2, <4>3
    <3> QED
      BY <3>4 DEF Nested
  <2> QED
    BY <2>1, <2>2
<1> QED
  BY <1>1, <1>2, <1>3

\* SYS_SIGRETURN restores the level that the popped frame interrupted.
LEMMA SigreturnKeepsNesting ==
  ASSUME TypeOK, \A s \in Slots : Nested(s), SysSigreturn
  PROVE  \A s \in Slots : Nested(s)'
<1> SUFFICES ASSUME NEW s \in Slots PROVE Nested(s)'
  OBVIOUS
<1> DEFINE n == Len(frames[p])
<1>1. /\ frames' = [frames EXCEPT ![p] = SubSeq(@, 1, n - 1)]
      /\ currSigLvl' = [currSigLvl EXCEPT ![p] = frames[p][n].sigLvl]
      /\ frames[p] # <<>>
  BY DEF SysSigreturn
<1>2. CASE s # p
  <2>1. frames'[s] = frames[s] /\ currSigLvl'[s] = currSigLvl[s]
    BY <1>1, <1>2 DEF TypeOK
  <2> QED
    BY <2>1 DEF Nested
<1>3. CASE s = p
  <2>1. /\ frames[p] \in Seq(Frame) /\ n \in Nat /\ n >= 1
    BY <1>1 DEF TypeOK
  <2>2. /\ frames'[s] = SubSeq(frames[p], 1, n - 1)
        /\ currSigLvl'[s] = frames[p][n].sigLvl
    BY <1>1, <1>3 DEF TypeOK
  <2>3. /\ Len(frames'[s]) = n - 1
        /\ \A i \in 1..n-1 : frames'[s][i] = frames[p][i]
    BY <2>1, <2>2
  <2>4. \A i \in 1..n-1 : frames[p][i].sigLvl < frames[p][i+1].sigLvl
    <3>1. Nested(p)
      BY DEF TypeOK
    <3>2. \A i \in 1..n-1 : i \in 1..n /\ i # n
      BY <2>1
    <3> QED
      BY <3>1, <3>2 DEF Nested
  <2>5. ASSUME NEW i \in 1..Len(frames'[s])
        PROVE  frames'[s][i].sigLvl <
                 IF i = Len(frames'[s]) THEN currSigLvl'[s]
                 ELSE frames'[s][i+1].sigLvl
    <3>1. CASE i = n - 1
      BY <2>1, <2>2, <2>3, <2>4, <3>1
    <3>2. CASE i < n - 1
      BY <2>1, <2>2, <2>3, <2>4, <3>2
    <3> QED
      BY <2>1, <2>3, <3>1, <3>2
  <2> QED
    BY <2>5 DEF Nested
<1> QED
  BY <1>2, <1>3

\* create() starts its process on a stack without frames.
LEMMA CreateKeepsNesting ==
  ASSUME TypeOK, \A s \in Slots : Nested(s),
         NEW gotStack \in BOOLEAN, SysCreate(gotStack)
  PROVE  \A s \in Slots : Nested(s)'
<1> SUFFICES ASSUME NEW s \in Slots PROVE Nested(s)'
  OBVIOUS
<1>1. currSigLvl' = currSigLvl
  BY DEF SysCreate
<1>2. frames'[s] = frames[s] \/ frames'[s] = <<>>
  BY DEF SysCreate, TypeOK
<1>3. CASE frames'[s] = frames[s]
  BY <1>1, <1>3 DEF Nested
<1>4. CASE frames'[s] = <<>>
  BY <1>4 DEF Nested
<1> QED
  BY <1>2, <1>3, <1>4

\* No handler ever interrupts one of its own or of a higher priority, for
\* every number of processes and signals.
THEOREM HandlersNest == Spec => []SignalNesting
<1> DEFINE Inv == \A s \in Slots : Nested(s)
<1>1. Init => Inv
  BY DEF Init, Nested
<1>2. TypeOK /\ Inv /\ [Next]_vars => Inv'
  <2> SUFFICES ASSUME TypeOK, Inv, [Next]_vars PROVE Inv'
    OBVIOUS
  <2>1. CASE UNCHANGED <<frames, currSigLvl>>
    BY <2>1 DEF Nested
  <2>2. ASSUME NEW n \in PidArgs, NEW sig \in SigArgs, SysKill(n, sig)
        PROVE  Inv'
    <3> DEFINE t == FindPCB(n)
    <3>1. \/ UNCHANGED sigvars
          \/ sig \in Signals /\ t # NULL /\ Signal(t, sig, Interrupted(t))
      BY <2>2 DEF SysKill, Post
    <3>2. CASE UNCHANGED sigvars
      BY <2>1, <3>2 DEF sigvars
    <3>3. CASE sig \in Signals /\ t # NULL /\ Signal(t, sig, Interrupted(t))
      <4>1. t \in Slots
        BY <3>3, FindPCBType
      <4>2. Interrupted(t) \in Int
        BY <4>1, InterruptedType
      <4> QED
        BY <3>3, <4>1, <4>2, SignalKeepsNesting
    <3> QED
      BY <3>1, <3>2, <3>3
  <2>3. CASE Next
    <3>1. Step
      BY <2>3, NextIsStep
    <3>2. CASE \E gotStack \in BOOLEAN : SysCreate(gotStack)
      BY <3>2, CreateKeepsNesting
    <3>3. CASE \E n \in PidArgs, sig \in SigArgs : SysKill(n, sig)
      BY <2>2, <3>3
    <3>4. CASE SysSigreturn
      BY <3>4, SigreturnKeepsNesting
    <3>5. CASE \/ SysStop \/ SysYield \/ SysGetpid \/ SysPuts \/ SysCpuTimes
               \/ \E n \in PidArgs : SysWait(n)
               \/ \E ms \in SleepLens : SysSleep(ms)
               \/ \E sig \in SigArgs, h \in Handlers \cup BadHandlers \cup {0} :
                    SysSighandler(sig, h)
               \/ SysTimer \/ TickWake \/ TimerDone
      <4>1. UNCHANGED <<frames, currSigLvl>>
        BY <3>5 DEF SysStop, SysYield, SysGetpid, SysPuts, SysCpuTimes, Answer,
                    SysWait, SysSleep, SysSighandler, SysTimer, TickWake,
                    TimerDone, sigvars
      <4> QED
        BY <2>1, <4>1
    <3> QED
      BY <3>1, <3>2, <3>3, <3>4, <3>5 DEF Step
  <2>4. CASE UNCHANGED vars
    BY <2>1, <2>4 DEF vars, sigvars
  <2> QED
    BY <2>3, <2>4
<1>3. TypeOK /\ Inv => SignalNesting
  BY NestedIsNesting
<1> QED
  BY <1>1, <1>2, <1>3, TypeCorrect, PTL DEF Spec

-----------------------------------------------------------------------------
(* A pid names one live process. *)

\* The lists, p and sleepQ lead only to slots that were made, and the others
\* still have the pid 0 they were given by dispatchinit().
PidInv ==
  /\ Sound(rq, Made)
  /\ p \in Made
  /\ sleepQ \in Made \cup {NULL}
  /\ \A s \in Slots : pid[s] # 0 => s \in Made

\* initproc() creates the first two processes in the slots of their pids.
LEMMA InitPid == Init => PidInv
<1> SUFFICES ASSUME Init PROVE PidInv
  OBVIOUS
<1>1. MAX_PROC \in Nat /\ MAX_PROC >= 2
  BY TableAssumption
<1>2. Idle \in Slots /\ Second \in Slots
  BY <1>1 DEF Idle, Second, Slots
<1>3. Idle # Second
  BY <1>1 DEF Idle, Second
<1>4. pid[Idle] = 1 /\ pid[Second] = 2
  BY <1>2, <1>3 DEF Init
<1>5. 1 % MAX_PROC = Idle /\ 2 % MAX_PROC = Second
  BY <1>1 DEF Idle, Second
<1>6. Idle \in Made /\ Second \in Made
  BY <1>2, <1>4, <1>5 DEF Made
<1>7. \A s \in Slots : pid[s] # 0 => s \in {Idle, Second}
  BY DEF Init
<1>8. rq \in Lists
  BY InitType DEF TypeOK
<1>9. Sound(rq, Made)
  BY <1>6, <1>8 DEF Init, Sound
<1> QED
  BY <1>6, <1>7, <1>9 DEF Init, PidInv

\* A list sound for C is sound for every larger set.
LEMMA SoundMonotone ==
  ASSUME NEW L, NEW C, NEW D, C \subseteq D, Sound(L, C)
  PROVE  Sound(L, D)
BY DEF Sound

\* A process in the running state can be given another one.
LEMMA SetStateSound ==
  ASSUME NEW C \in SUBSET Slots, NEW L, Sound(L, C), NEW s \in C,
         NEW st \in States
  PROVE  Sound([L EXCEPT !.state[s] = st], C)
<1>1. [L EXCEPT !.state[s] = st] \in Lists
  BY DEF Sound, Lists
<1> QED
  BY <1>1 DEF Sound, Lists

\* A slot of C can be linked to another slot of C.
LEMMA SetNextSound ==
  ASSUME NEW C \in SUBSET Slots, NEW L, Sound(L, C), NEW s \in C,
         NEW u \in C \cup {NULL}
  PROVE  Sound([L EXCEPT !.next[s] = u], C)
<1>1. [L EXCEPT !.next[s] = u] \in Lists
  BY DEF Sound, Lists, Ptr
<1> QED
  BY <1>1 DEF Sound, Lists

\* create() puts its pid in the slot of that pid modulo the table's size.
LEMMA CreatePid ==
  ASSUME TypeOK, PidInv, NEW gotStack \in BOOLEAN, SysCreate(gotStack)
  PROVE  PidInv'
<1>1. \/ UNCHANGED <<rq, pid, p, sleepQ>>
      \/ \E i \in 1..MAX_PROC :
           /\ pid' = [pid EXCEPT ![SlotOf(i)] = Proposed(i)]
           /\ rq' = Ready(rq, SlotOf(i))
           /\ UNCHANGED <<p, sleepQ>>
  <2>1. FreeProbes # {} => Min(FreeProbes) \in 1..MAX_PROC
    <3>1. FreeProbes \subseteq 1..MAX_PROC /\ 1..MAX_PROC \subseteq Nat
      BY TableAssumption DEF FreeProbes
    <3> QED
      BY <3>1, Least
  <2> QED
    BY <2>1 DEF SysCreate
<1>2. CASE UNCHANGED <<rq, pid, p, sleepQ>>
  BY <1>2 DEF PidInv, Made, Sound
<1>3. ASSUME NEW i \in 1..MAX_PROC,
             pid' = [pid EXCEPT ![SlotOf(i)] = Proposed(i)],
             rq' = Ready(rq, SlotOf(i)),
             UNCHANGED <<p, sleepQ>>
      PROVE  PidInv'
  <2> DEFINE s == SlotOf(i)
  <2>1. Proposed(i) \in Word
    <3>1. nextpid + i \in Int
      BY TableAssumption DEF TypeOK, Word
    <3> QED
      BY <3>1, Remainder DEF Proposed
  <2>2. s \in Slots /\ Proposed(i) % MAX_PROC = s
    BY <2>1, TableAssumption DEF SlotOf, Slots, Word
  <2> HIDE DEF s
  <2>3. s \in Made' /\ Made \subseteq Made' /\ Made' \subseteq Slots
    BY <1>3, <2>2 DEF Made, TypeOK, s
  <2>4. Sound(rq, Made')
    BY <2>3, SoundMonotone DEF PidInv
  <2>5. Sound(Ready(rq, s), Made')
    BY <2>3, <2>4, ReadySound
  <2>6. Sound(rq', Made')
    BY <1>3, <2>5 DEF s
  <2>7. \A u \in Slots : pid'[u] # 0 => u \in Made'
    BY <1>3, <2>2, <2>3 DEF PidInv, TypeOK, s
  <2>8. Sound(rq, Made)'
    BY <2>6 DEF Sound
  <2> QED
    BY <1>3, <2>3, <2>7, <2>8 DEF PidInv
<1> QED
  BY <1>1, <1>2, <1>3

\* A step that leaves the pids alone has only the pointers to account for.
LEMMA SamePids ==
  ASSUME PidInv, pid' = pid, Sound(rq', Made), p' \in Made,
         sleepQ' \in Made \cup {NULL}
  PROVE  PidInv'
<1>1. Made' = Made
  BY DEF Made
<1> QED
  BY <1>1 DEF PidInv, Sound

\* SYS_SLEEP links only made slots.
LEMMA SleepPid ==
  ASSUME TypeOK, PidInv, NEW ms \in SleepLens, SysSleep(ms)
  PROVE  PidInv'
<1> DEFINE len == ms \div MILLISECONDS_TICK
           L == [rq EXCEPT !.state[p] = "SLEEP", !.next[p] = NULL]
           w == SleepSearch(L.next, len)
           After == /\ w \in Search(L.next)
                    /\ InsertAfter(L, w.tmp, w.len)
                    /\ UNCHANGED sleepQ
<1>1. \/ Dispatch(Ready(rq, p)) /\ UNCHANGED sleepQ
      \/ Dispatch(L) /\ sleepQ' = p
      \/ Dispatch([L EXCEPT !.next[p] = sleepQ]) /\ sleepQ' = p
      \/ After
      \/ rq' = L /\ UNCHANGED <<p, sleepQ>>
  BY DEF SysSleep
<1>2. /\ Made \subseteq Slots /\ p \in Made /\ sleepQ \in Made \cup {NULL}
      /\ Sound(rq, Made)
  BY DEF PidInv, Made
<1>3. Sound(L, Made)
  <2> DEFINE M == [rq EXCEPT !.state[p] = "SLEEP"]
  <2>1. Sound(M, Made)
    BY <1>2, SetStateSound DEF States
  <2>2. L = [M EXCEPT !.next[p] = NULL]
    BY <1>2 DEF Sound, Lists
  <2> HIDE DEF M
  <2>3. Sound([M EXCEPT !.next[p] = NULL], Made)
    BY <1>2, <2>1, SetNextSound
  <2> QED
    BY <2>2, <2>3
<1> HIDE DEF len, L, w
<1> SUFFICES /\ Sound(rq', Made) /\ p' \in Made
             /\ sleepQ' \in Made \cup {NULL}
  BY SamePids DEF SysSleep
<1>4. CASE Dispatch(Ready(rq, p)) /\ UNCHANGED sleepQ
  BY <1>2, <1>4, ReadySound, DispatchSound
<1>5. CASE Dispatch(L) /\ sleepQ' = p
  BY <1>2, <1>3, <1>5, DispatchSound
<1>6. CASE Dispatch([L EXCEPT !.next[p] = sleepQ]) /\ sleepQ' = p
  <2>1. Sound([L EXCEPT !.next[p] = sleepQ], Made)
    BY <1>2, <1>3, SetNextSound
  <2> QED
    BY <1>2, <1>6, <2>1, DispatchSound
<1>7. CASE After
  <2>1. w.tmp \in Made
    <3>1. w.tmp \in Linked(L.next)
      BY <1>7 DEF Search
    <3> QED
      BY <1>2, <1>3, <3>1, SlotsAreNat DEF Linked, Sound
  <2> DEFINE M == [L EXCEPT !.next[p] = L.next[w.tmp]]
  <2>2. L.next[w.tmp] \in Made \cup {NULL}
    BY <1>2, <1>3, <2>1 DEF Sound
  <2>3. Sound(M, Made)
    BY <1>2, <1>3, <2>2, SetNextSound
  <2>4. Sound([M EXCEPT !.next[w.tmp] = p], Made)
    <3> HIDE DEF M
    <3> QED
      BY <1>2, <2>1, <2>3, SetNextSound
  <2>5. [M EXCEPT !.next[w.tmp] = p] =
          [L EXCEPT !.next = [[L.next EXCEPT ![p] = L.next[w.tmp]]
                                      EXCEPT ![w.tmp] = p]]
    BY <1>3 DEF Sound, Lists
  <2>6. Dispatch([L EXCEPT !.next = [[L.next EXCEPT ![p] = L.next[w.tmp]]
                                             EXCEPT ![w.tmp] = p]])
    BY <1>7 DEF InsertAfter
  <2> QED
    BY <1>2, <1>7, <2>4, <2>5, <2>6, DispatchSound
<1>8. CASE rq' = L /\ UNCHANGED <<p, sleepQ>>
  BY <1>2, <1>3, <1>8
<1> QED
  BY <1>1, <1>4, <1>5, <1>6, <1>7, <1>8

\* The steps that link no pcb but p, or none at all, keep to made slots.
LEMMA OtherPid ==
  ASSUME TypeOK, PidInv,
         \/ SysStop \/ SysYield \/ SysGetpid \/ SysPuts \/ SysCpuTimes
         \/ \E n \in PidArgs : SysWait(n)
         \/ \E sig \in SigArgs, h \in Handlers \cup BadHandlers \cup {0} :
              SysSighandler(sig, h)
         \/ SysSigreturn \/ SysTimer \/ TimerDone
  PROVE  PidInv'
<1>1. /\ Made \subseteq Slots /\ p \in Made /\ sleepQ \in Made \cup {NULL}
      /\ Sound(rq, Made)
  BY DEF PidInv, Made
<1>2. pid' = pid /\ sleepQ' = sleepQ
  BY DEF SysStop, SysYield, SysGetpid, SysPuts, SysCpuTimes, Answer, SysWait,
         SysSighandler, SysSigreturn, SysTimer, TimerDone
<1>3. \/ UNCHANGED <<rq, p>>
      \/ Dispatch(Ready(rq, p))
      \/ Dispatch([rq EXCEPT !.state[p] = "STOPPED"])
      \/ Dispatch([rq EXCEPT !.state[p] = "WAIT"])
  BY DEF SysStop, SysYield, SysGetpid, SysPuts, SysCpuTimes, Answer, SysWait,
         SysSighandler, SysSigreturn, SysTimer, TimerDone
<1>4. /\ Sound(Ready(rq, p), Made)
      /\ Sound([rq EXCEPT !.state[p] = "STOPPED"], Made)
      /\ Sound([rq EXCEPT !.state[p] = "WAIT"], Made)
  BY <1>1, ReadySound, SetStateSound DEF States
<1>5. Sound(rq', Made) /\ p' \in Made
  BY <1>1, <1>3, <1>4, DispatchSound
<1> QED
  BY <1>1, <1>2, <1>5, SamePids

\* tick() readies only made slots.
LEMMA TickWakePid ==
  ASSUME TypeOK, PidInv, TickWake
  PROVE  PidInv'
<1>1. /\ Made \subseteq Slots /\ p \in Made /\ Sound(rq, Made)
      /\ sleepQ \in Made
  BY DEF PidInv, Made, TickWake, Expired
<1>2. rq.next[sleepQ] \in Made \cup {NULL}
  BY <1>1 DEF Sound
<1>3. Sound(Ready(rq, sleepQ), Made)
  BY <1>1, ReadySound
<1> QED
  BY <1>1, <1>2, <1>3, SamePids DEF TickWake

\* kill() readies and unlinks only made slots.
LEMMA KillPid ==
  ASSUME TypeOK, PidInv, NEW n \in PidArgs, NEW sig \in SigArgs,
         SysKill(n, sig)
  PROVE  PidInv'
<1>1. /\ Made \in SUBSET Slots /\ p \in Made /\ Sound(rq, Made)
      /\ sleepQ \in Made \cup {NULL}
  BY DEF PidInv, Made
<1>2. pid' = pid /\ sleepQ' = sleepQ /\ p' = p
  BY DEF SysKill
<1>3. rq' = rq \/ (FindPCB(n) # NULL /\ Post(FindPCB(n), sig))
  BY DEF SysKill
<1>4. FindPCB(n) # NULL => FindPCB(n) \in Slots
  BY FindPCBType
<1>5. Sound(rq', Made)
  BY <1>1, <1>3, <1>4, PostSound
<1> QED
  BY <1>1, <1>2, <1>5, SamePids

\* Made slots hold different pids, and slot 0 comes first among the slots that
\* hold pid 0: findPCB() finds the live process.
LEMMA PidInvImpliesLiveFound ==
  ASSUME TypeOK, PidInv
  PROVE  LiveFound
<1> SUFFICES ASSUME NEW s \in Live PROVE FindPCB(pid[s]) = s
  BY DEF LiveFound
<1> DEFINE n == pid[s]
           t == FindPCB(n)
<1>1. s \in Slots /\ s \in Made /\ n % MAX_PROC = s
  BY DEF Live, PidInv, Sound, Made
<1>2. t # NULL
  <2>1. Holders(n) # {}
    BY <1>1 DEF Holders
  <2>2. Min(Holders(n)) \in Slots
    <3>1. Holders(n) \subseteq Slots /\ Holders(n) \subseteq Nat
      BY SlotsAreNat DEF Holders
    <3> QED
      BY <2>1, <3>1, Least
  <2> QED
    BY <2>1, <2>2, SlotsAreNat DEF FindPCB
<1>3. t \in Slots /\ pid[t] = n /\ t <= s
  BY <1>1, <1>2, FindPCBType
<1> HIDE DEF t
<1>4. CASE n # 0
  <2>1. t \in Made
    BY <1>3, <1>4 DEF PidInv
  <2> QED
    BY <1>1, <1>3, <2>1 DEF Made, t
<1>5. CASE n = 0
  <2>1. 0 % MAX_PROC = 0
    BY TableAssumption
  <2>2. s = 0
    BY <1>1, <1>5, <2>1
  <2> QED
    BY <1>3, <2>2, SlotsAreNat DEF t, Slots
<1> QED
  BY <1>4, <1>5

\* Every step keeps PidInv.
LEMMA PidStep ==
  ASSUME TypeOK, PidInv, [Next]_vars
  PROVE  PidInv'
<1>1. CASE UNCHANGED vars
  BY <1>1 DEF vars, sigvars, PidInv, Made, Sound
<1>2. CASE Next
  <2>1. Step
    BY <1>2, NextIsStep
  <2> QED
    BY <2>1, CreatePid, SleepPid, OtherPid, TickWakePid, KillPid DEF Step
<1> QED
  BY <1>1, <1>2

\* Every process that is not stopped is the one its pid finds, for every size
\* of the table and whatever the programs do to the lists.
THEOREM PidsNameProcesses == Spec => []LiveFound
<1>1. Init => PidInv
  BY InitPid
<1>2. TypeOK /\ PidInv /\ [Next]_vars => PidInv'
  BY PidStep
<1>3. TypeOK /\ PidInv => LiveFound
  BY PidInvImpliesLiveFound
<1> QED
  BY <1>1, <1>2, <1>3, TypeCorrect, PTL DEF Spec

\* Whatever the programs do to the lists, the kernel runs and links only pcbs
\* that create() has filled, for every table and word size.
THEOREM PointersStayFilled == Spec => []PointersFilled
<1>1. Init => PidInv
  BY InitPid
<1>2. TypeOK /\ PidInv /\ [Next]_vars => PidInv'
  BY PidStep
<1>3. PidInv => PointersFilled
  BY DEF PidInv, Sound, PointersFilled
<1> QED
  BY <1>1, <1>2, <1>3, TypeCorrect, PTL DEF Spec

-----------------------------------------------------------------------------
(* create() finds the free slots. *)

\* The remainder of a number congruent to r modulo m is r.
LEMMA Congruent ==
  ASSUME NEW m \in Nat, m > 0, NEW r \in 0..m-1, NEW k \in Int
  PROVE  (r + m * k) % m = r
<1> DEFINE a == r + m * k
<1>1. a \in Int /\ m * k \in Int
  OBVIOUS
<1> HIDE DEF a
<1>2. a = m * (a \div m) + (a % m) /\ a % m \in 0..m-1 /\ a \div m \in Int
  BY <1>1
<1>3. PICK q \in Int : a = m * q + (a % m)
  BY <1>2
<1>4. m * (k - q) = (a % m) - r
  <2>1. a = r + m * k
    BY DEF a
  <2>2. m * (k - q) = m * k - m * q /\ m * q \in Int
    OBVIOUS
  <2>3. a % m \in Int
    BY <1>2
  <2> DEFINE mk == m * k
             mq == m * q
             rem == a % m
  <2> HIDE DEF mk, mq, rem
  <2>4. mk - mq = rem - r
    <3>1. a = mq + rem /\ a = r + mk
      BY <1>3, <2>1 DEF mk, mq, rem
    <3>2. mk \in Int /\ mq \in Int /\ rem \in Int
      BY <1>1, <2>2, <2>3 DEF mk, mq, rem
    <3> QED
      BY <3>1, <3>2
  <2> QED
    BY <2>2, <2>4 DEF mk, mq, rem
<1>5. k - q = 0
  <2>1. m * (k - q) > -m /\ m * (k - q) < m
    <3> DEFINE rem == a % m
               z == m * (k - q)
    <3>1. rem \in 0..m-1 /\ z = rem - r
      BY <1>2, <1>4
    <3> HIDE DEF rem, z
    <3>2. z > -m /\ z < m
      BY <3>1
    <3> QED
      BY <3>2 DEF z
  <2>2. ~(k - q >= 1)
    <3> SUFFICES ASSUME k - q >= 1 PROVE FALSE
      OBVIOUS
    <3>1. m * (k - q) >= m
      OBVIOUS
    <3> QED
      BY <2>1, <3>1
  <2>3. ~(k - q <= -1)
    <3> SUFFICES ASSUME k - q <= -1 PROVE FALSE
      OBVIOUS
    <3>1. m * (k - q) <= -m
      OBVIOUS
    <3> QED
      BY <2>1, <3>1
  <2> QED
    BY <2>2, <2>3
<1>6. m * (k - q) = 0
  BY <1>5
<1>7. a % m = r
  BY <1>2, <1>4, <1>6
<1> QED
  BY <1>7 DEF a

\* The iterations of create()'s scan visit every slot, also across the wrap of
\* nextpid, because MAX_PROC divides 2^32.
LEMMA ScanCovers ==
  ASSUME TypeOK, NEW s \in Slots
  PROVE  \E i \in 1..MAX_PROC : SlotOf(i) = s
<1> DEFINE M == MAX_PROC
           c == (s - nextpid - 1) % M
           d == (s - nextpid - 1) \div M
           i == c + 1
<1>1. M \in Nat /\ M >= 2 /\ WORD \in Nat /\ WORD > M /\ WORD % M = 0
  BY TableAssumption
<1>2. s \in 0..M-1 /\ nextpid \in 0..WORD-1
  BY DEF Slots, TypeOK, Word
<1>3. /\ c \in 0..M-1 /\ d \in Int
      /\ s - nextpid - 1 = M * d + c
  BY <1>1, <1>2
<1>4. /\ WORD \div M \in Int
      /\ WORD = M * (WORD \div M)
  BY <1>1
<1> HIDE DEF c, d
<1>5. i \in 1..M
  BY <1>1, <1>3
<1>6. nextpid + i = s + M * (0 - d)
  <2>1. M * (0 - d) = 0 - M * d /\ M * d \in Int
    BY <1>1, <1>3
  <2> HIDE DEF M
  <2> QED
    BY <1>2, <1>3, <2>1
<1>7. PICK k \in Int : (nextpid + i) % WORD = s + M * k
  <2>1. CASE nextpid + i < WORD
    <3>1. (nextpid + i) % WORD = nextpid + i
      BY <1>1, <1>2, <1>5, <2>1
    <3> QED
      BY <1>3, <1>6, <3>1
  <2>2. CASE ~(nextpid + i < WORD)
    <3>1. (nextpid + i) % WORD = nextpid + i - WORD
      BY <1>1, <1>2, <1>5, <2>2
    <3>2. PICK q \in Int : WORD = M * q
      BY <1>4
    <3>3. M * (0 - d - q) = M * (0 - d) - M * q
      BY <1>1, <1>3
    <3>4. M * (0 - d) \in Int /\ M * q \in Int /\ 0 - d - q \in Int
      BY <1>1, <1>3
    <3>5. nextpid + i - WORD = s + M * (0 - d - q)
      <4> DEFINE x == M * (0 - d)
                 y == M * q
      <4>1. i \in Int
        BY <1>3
      <4>2. nextpid + i = s + x /\ WORD = y /\ x \in Int /\ y \in Int
        BY <1>6, <3>2, <3>4
      <4> HIDE DEF M, i, x, y
      <4>3. nextpid + i - WORD = s + (x - y)
        BY <1>2, <4>1, <4>2
      <4> QED
        BY <3>3, <4>3 DEF x, y
    <3> QED
      BY <3>1, <3>4, <3>5
  <2> QED
    BY <2>1, <2>2
<1>8. (s + M * k) % M = s
  BY <1>1, <1>2, Congruent
<1> QED
  BY <1>5, <1>7, <1>8 DEF SlotOf, Proposed

\* create() refuses a process only when proctab is full, for every size of the
\* table that divides 2^32 and wherever nextpid stands.
THEOREM CreateFills == Spec => []CreateFindsFree
<1>1. TypeOK => CreateFindsFree
  BY ScanCovers DEF CreateFindsFree, FreeProbes
<1> QED
  BY <1>1, TypeCorrect, PTL

=============================================================================
