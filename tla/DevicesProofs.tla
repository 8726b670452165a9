--------------------------- MODULE DevicesProofs ----------------------------
(***************************************************************************)
(* Proofs about module Devices, for every value of its constants:          *)
(*   DevicesTypeCorrect  the process manager keeps its types under the     *)
(*                       device calls and keyboard interrupts;             *)
(*   KeyboardMasked      the keyboard interrupts only while it is open.    *)
(***************************************************************************)
EXTENDS Devices, KernelProofs

\* A device call that answers an int keeps the kernel's types.
LEMMA ReturnType ==
  ASSUME TypeOK, KernelKept, NEW v \in Int, Return(v)
  PROVE  TypeOK'
BY DEF KernelKept, Return, TypeOK, sigvars

\* The first free descriptor is a descriptor and free.
LEMMA FirstFree ==
  ASSUME FreeFds # {}
  PROVE  Min(FreeFds) \in Fds /\ fdt[p][Min(FreeFds)] = NULL
<1>1. FreeFds \subseteq Nat
  BY DeviceAssumption DEF FreeFds, Fds
<1>2. Min(FreeFds) \in FreeFds
  BY <1>1, Least
<1> QED
  BY <1>2 DEF FreeFds

\* SYS_READ keeps the kernel's types, whether it answers, requeues its caller
\* or blocks it.
LEMMA ReadType ==
  ASSUME TypeOK, NEW fd, NEW inside, NEW n \in BuffLens,
         SysRead(fd, inside, n)
  PROVE  TypeOK'
<1>1. KernelKept /\ p \in Slots /\ rq \in Lists
  BY DEF SysRead, TypeOK
<1>2. n \in Nat
  BY DeviceAssumption
<1>3. RandBytes(n) \in Int /\ n \in Int /\ -1 \in Int
  BY <1>2 DEF RandBytes
<1>4. \/ \E v \in Int : Return(v)
      \/ KbdRead(fd)
  BY <1>3 DEF SysRead
<1>5. CASE \E v \in Int : Return(v)
  BY <1>1, <1>5, ReturnType
<1>6. CASE KbdRead(fd)
  <2>1. CASE /\ rq' = Ready(rq, p)
             /\ ret' = [ret EXCEPT ![p] = 1]
             /\ UNCHANGED <<p, mode>>
    <3>1. rq' \in Lists
      BY <1>1, <2>1, ReadyType
    <3> QED
      BY <1>1, <2>1, <3>1 DEF TypeOK, KernelKept, sigvars
  <2>2. CASE /\ Dispatch([rq EXCEPT !.state[p] = "BLOCKED"])
             /\ UNCHANGED ret
    <3>1. [rq EXCEPT !.state[p] = "BLOCKED"] \in Lists
      BY <1>1 DEF Lists, States
    <3>2. p' \in Slots /\ mode' \in {"user", "tick", "hung"} /\ rq' \in Lists
      BY <1>1, <2>2, <3>1, DispatchType
    <3> QED
      BY <1>1, <2>2, <3>2 DEF TypeOK, KernelKept, sigvars
  <2> QED
    BY <1>6, <2>1, <2>2 DEF KbdRead
<1> QED
  BY <1>4, <1>5, <1>6

\* The device calls and the keyboard interrupt keep the kernel's types.
LEMMA DeviceCallsType ==
  ASSUME TypeOK, DeviceCalls
  PROVE  TypeOK'
<1>1. ASSUME NEW d, SysOpen(d) PROVE TypeOK'
  <2>1. FreeFds # {} => Min(FreeFds) \in Int
    BY FirstFree, DeviceAssumption DEF Fds
  <2>2. KernelKept /\ \E v \in Int : Return(v)
    BY <1>1, <2>1 DEF SysOpen
  <2> QED
    BY <2>2, ReturnType
<1>2. ASSUME NEW fd, SysClose(fd) PROVE TypeOK'
  <2>1. KernelKept /\ \E v \in Int : Return(v)
    BY <1>2 DEF SysClose
  <2> QED
    BY <2>1, ReturnType
<1>3. ASSUME NEW fd, NEW inside, NEW n \in BuffLens, SysWrite(fd, inside, n)
      PROVE  TypeOK'
  <2>1. n \in Int
    BY DeviceAssumption
  <2>2. KernelKept /\ \E v \in Int : Return(v)
    BY <1>3, <2>1 DEF SysWrite
  <2> QED
    BY <2>2, ReturnType
<1>4. ASSUME NEW fd, NEW c, SysIoctl(fd, c) PROVE TypeOK'
  <2>1. KernelKept /\ \E v \in Int : Return(v)
    BY <1>4 DEF SysIoctl
  <2> QED
    BY <2>1, ReturnType
<1>5. ASSUME KernelKept, Return(EAX) PROVE TypeOK'
  BY <1>5, ArgumentAssumption, ReturnType
<1> QED
  BY <1>1, <1>2, <1>3, <1>4, <1>5, ReadType
     DEF DeviceCalls, SysKeyboard, SpuriousKeyboard

\* The process manager keeps its types under the devices: a reader that is
\* requeued while it runs corrupts the ready list and no pointer.
THEOREM DevicesTypeCorrect == DevSpec => []TypeOK
<1>1. DevInit => TypeOK
  BY InitType DEF DevInit
<1>2. TypeOK /\ [DevNext]_<<vars, dvars>> => TypeOK'
  <2> SUFFICES ASSUME TypeOK, [DevNext]_<<vars, dvars>> PROVE TypeOK'
    OBVIOUS
  <2>1. CASE [Next]_vars
    BY <2>1, StepType
  <2>2. CASE DeviceCalls
    BY <2>2, DeviceCallsType
  <2> QED
    BY <2>1, <2>2 DEF DevNext
<1> QED
  BY <1>1, <1>2, PTL DEF DevSpec

-----------------------------------------------------------------------------
(* The keyboard's interrupt line. *)

FdtOK == fdt \in [Slots -> [Fds -> Devs \cup {NULL}]]

IrqInv == FdtOK /\ IrqMeansOpen

\* SYS_OPEN unmasks the keyboard for a descriptor it has just filled, and
\* overwrites none.
LEMMA OpenKeepsIrq ==
  ASSUME TypeOK, IrqInv, NEW d, SysOpen(d)
  PROVE  IrqInv'
<1>1. CASE UNCHANGED dvars
  BY <1>1 DEF IrqInv, FdtOK, IrqMeansOpen, dvars, kbdvars
<1>2. CASE /\ d \in Devs /\ FreeFds # {}
           /\ fdt' = [fdt EXCEPT ![p][Min(FreeFds)] = d]
           /\ irq' = (irq \/ d = DEV_KBD)
  <2> DEFINE f == Min(FreeFds)
  <2>1. f \in Fds /\ fdt[p][f] = NULL /\ p \in Slots
    BY <1>2, FirstFree DEF TypeOK
  <2> HIDE DEF f
  <2>2. fdt' = [fdt EXCEPT ![p] = [fdt[p] EXCEPT ![f] = d]]
    BY <1>2 DEF f
  <2>3. FdtOK'
    <3>1. d \in Devs \cup {NULL} /\ fdt \in [Slots -> [Fds -> Devs \cup {NULL}]]
      BY <1>2 DEF IrqInv, FdtOK
    <3>2. [fdt[p] EXCEPT ![f] = d] \in [Fds -> Devs \cup {NULL}]
      BY <2>1, <3>1
    <3> QED
      BY <2>1, <2>2, <3>1, <3>2 DEF FdtOK
  <2>4. IrqMeansOpen'
    <3>1. CASE d = DEV_KBD
      <4>1. fdt'[p][f] = DEV_KBD
        BY <2>1, <2>2, <3>1 DEF IrqInv, FdtOK
      <4> QED
        BY <2>1, <4>1 DEF IrqMeansOpen
    <3>2. CASE d # DEV_KBD /\ irq
      <4>1. PICK s \in Slots, fd \in Fds : fdt[s][fd] = DEV_KBD
        BY <3>2 DEF IrqInv, IrqMeansOpen
      <4>2. fdt'[s][fd] = DEV_KBD
        <5>1. NULL # DEV_KBD
          BY SMT DEF DEV_KBD, NULL
        <5>2. ~(s = p /\ fd = f)
          BY <2>1, <4>1, <5>1, Zenon
        <5> QED
          BY <2>1, <2>2, <4>1, <5>2 DEF IrqInv, FdtOK
      <4> QED
        BY <4>2 DEF IrqMeansOpen
    <3>3. CASE d # DEV_KBD /\ ~irq
      BY <1>2, <3>3 DEF IrqMeansOpen
    <3> QED
      BY <3>1, <3>2, <3>3
  <2> QED
    BY <2>3, <2>4 DEF IrqInv
<1> QED
  BY <1>1, <1>2 DEF SysOpen

\* kbdClose() masks the keyboard.
LEMMA KbdCloseKeepsIrq ==
  ASSUME TypeOK, IrqInv, NEW fd \in Fds, KbdClose(fd)
  PROVE  IrqInv'
<1>1. p \in Slots
  BY DEF TypeOK
<1>2. fdt' = [fdt EXCEPT ![p] = [fdt[p] EXCEPT ![fd] = NULL]]
  BY DEF KbdClose
<1>3. FdtOK'
  BY <1>1, <1>2 DEF IrqInv, FdtOK
<1> QED
  BY <1>3 DEF IrqInv, IrqMeansOpen, KbdClose

\* Closing another device leaves the keyboard's descriptors open.
LEMMA CloseKeepsIrq ==
  ASSUME TypeOK, IrqInv, NEW fd, SysClose(fd)
  PROVE  IrqInv'
<1>1. CASE UNCHANGED <<fdt, irq>>
  BY <1>1 DEF IrqInv, FdtOK, IrqMeansOpen
<1>2. CASE ~Refused(fd) /\ KbdClose(fd)
  BY <1>2, KbdCloseKeepsIrq DEF Refused
<1>3. CASE /\ ~Refused(fd) /\ fdt[p][fd] # DEV_KBD
           /\ fdt' = [fdt EXCEPT ![p][fd] = NULL]
           /\ UNCHANGED irq
  <2>1. fd \in Fds /\ p \in Slots
    BY <1>3 DEF Refused, TypeOK
  <2>2. fdt' = [fdt EXCEPT ![p] = [fdt[p] EXCEPT ![fd] = NULL]]
    BY <1>3
  <2>3. FdtOK'
    BY <2>1, <2>2 DEF IrqInv, FdtOK
  <2>4. \A s \in Slots, g \in Fds :
          fdt[s][g] = DEV_KBD => fdt'[s][g] = DEV_KBD
    BY <1>3, <2>1, <2>2 DEF IrqInv, FdtOK
  <2> QED
    BY <1>3, <2>3, <2>4 DEF IrqInv, IrqMeansOpen
<1> QED
  BY <1>1, <1>2, <1>3 DEF SysClose

\* The keyboard interrupts only while some process has it open, whatever the
\* programs do and however slots are reused.
THEOREM KeyboardMasked == DevSpec => []IrqMeansOpen
<1>1. DevInit => IrqInv
  BY DEF DevInit, IrqInv, FdtOK, IrqMeansOpen
<1>2. TypeOK /\ IrqInv /\ [DevNext]_<<vars, dvars>> => IrqInv'
  <2> SUFFICES ASSUME TypeOK, IrqInv, [DevNext]_<<vars, dvars>> PROVE IrqInv'
    OBVIOUS
  <2>1. CASE UNCHANGED <<fdt, irq>>
    BY <2>1 DEF IrqInv, FdtOK, IrqMeansOpen
  <2>2. ASSUME NEW fd, NEW inside, NEW n, SysRead(fd, inside, n) PROVE IrqInv'
    BY <2>1, <2>2, KbdCloseKeepsIrq DEF SysRead, KbdRead, Refused
  <2>3. ASSUME NEW key, NEW up, SysKeyboard(key, up) PROVE IrqInv'
    <3>1. 0 \in Fds
      BY DeviceAssumption DEF Fds
    <3> QED
      BY <2>1, <2>3, <3>1, KbdCloseKeepsIrq DEF SysKeyboard
  <2>4. CASE \/ Next /\ UNCHANGED dvars
             \/ UNCHANGED <<vars, dvars>>
             \/ SpuriousKeyboard
             \/ \E fd \in FdArgs, inside \in BOOLEAN, n \in BuffLens :
                  SysWrite(fd, inside, n)
             \/ \E fd \in FdArgs, c \in Commands : SysIoctl(fd, c)
    BY <2>1, <2>4 DEF dvars, kbdvars, SpuriousKeyboard, SysWrite, SysIoctl
  <2> QED
    BY <2>2, <2>3, <2>4, OpenKeepsIrq, CloseKeepsIrq DEF DevNext, DeviceCalls
<1> QED
  BY <1>1, <1>2, DevicesTypeCorrect, PTL DEF DevSpec, IrqInv

=============================================================================
