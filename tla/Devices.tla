------------------------------ MODULE Devices -------------------------------
(***************************************************************************)
(* The devices of Xeros on top of the process manager: the descriptor      *)
(* tables and the device independent calls (di_calls.c), the zero and the  *)
(* random device (zerorand.c), and both halves of the keyboard (kbd.c).    *)
(*                                                                         *)
(* A device call is one trap, like the calls of module Kernel; so is a     *)
(* keyboard interrupt, which may hit any process while the keyboard's line *)
(* is unmasked and neither stops nor requeues the process it hits.         *)
(*                                                                         *)
(* What is copied into and out of programs' buffers is left out.           *)
(***************************************************************************)
EXTENDS Kernel

CONSTANTS
  MAX_FDT,    \* descriptors per process
  KBD_BUFF,   \* length of kbdbuff
  Keys,       \* the keys pressed and released, of Modifiers and kbcode below
  BuffLens,   \* lengths given to sysread and syswrite
  Commands,   \* commands given to sysioctl
  ArgAddrs    \* addresses of sysioctl's variable arguments

\* ArgAddrs are addresses of words on a stack.
ASSUME DeviceAssumption ==
  /\ MAX_FDT \in Nat \ {0}
  /\ KBD_BUFF \in Nat \ {0}
  /\ BuffLens \subseteq Nat
  /\ ArgAddrs \subseteq {a \in Nat : a > 256 /\ a % 4 = 0}

Fds     == 0..MAX_FDT-1
KbdSlots == 0..KBD_BUFF-1

DEV_ZERO == 0
DEV_RANDOM == 1
DEV_KBD == 2
Devs == {DEV_ZERO, DEV_RANDOM, DEV_KBD}

TAB    == 9
CTRL_D == 4
NOCHAR == 256

VARIABLES
  fdt,       \* per pcb and descriptor the device, NULL when closed
  irq,       \* the keyboard's interrupt line is unmasked
  echo, eof,
  kbdbuff,   \* 0 is an empty place
  kbdstate   \* the modifier keys that are down

kbdvars == <<irq, echo, eof, kbdbuff, kbdstate>>
dvars == <<fdt, kbdvars>>

DevInit ==
  /\ Init
  /\ fdt = [s \in Slots |-> [fd \in Fds |-> NULL]]
  /\ irq = FALSE
  /\ echo = TRUE
  /\ eof = CTRL_D
  /\ kbdbuff = [i \in KbdSlots |-> 0]
  /\ kbdstate = {}

\* What every device call leaves alone.
KernelKept ==
  UNCHANGED <<sleepQ, sleepdiff, pid, nextpid, waitpid, sigvars, cpuTime>>

\* A call that answers v and goes on in the caller.
Return(v) ==
  /\ ret' = [ret EXCEPT ![p] = v]
  /\ UNCHANGED <<p, mode, rq>>

-----------------------------------------------------------------------------
(* Opening and closing. *)

FreeFds == {fd \in Fds : fdt[p][fd] = NULL}

\* SYS_OPEN: zeroOpen, randOpen and kbdOpen take the first free descriptor,
\* and kbdOpen unmasks the keyboard.
SysOpen(device_no) ==
  /\ UserTrap /\ KernelKept
  /\ \/ /\ device_no \notin Devs \/ FreeFds = {}
        /\ Return(-1)
        /\ UNCHANGED dvars
     \/ /\ device_no \in Devs /\ FreeFds # {}
        /\ fdt' = [fdt EXCEPT ![p][Min(FreeFds)] = device_no]
        /\ irq' = (irq \/ device_no = DEV_KBD)
        /\ Return(Min(FreeFds))
        /\ UNCHANGED <<echo, eof, kbdbuff, kbdstate>>

KbdCloseLeavesIrq(fd) ==
  /\ echo' = TRUE
  /\ fdt' = [fdt EXCEPT ![p][fd] = NULL]
  /\ UNCHANGED irq

\* kbdClose(): masks the keyboard, whoever else has it open.
KbdClose(fd) ==
  /\ echo' = TRUE
  /\ irq' = FALSE
  /\ fdt' = [fdt EXCEPT ![p][fd] = NULL]

\* The descriptor check that all di_ calls but di_open make.
Refused(fd) == fd \in Fds => fdt[p][fd] = NULL

\* SYS_CLOSE.
SysClose(fd) ==
  /\ UserTrap /\ KernelKept
  /\ \/ /\ Refused(fd)
        /\ Return(-1)
        /\ UNCHANGED <<fdt, irq, echo>>
     \/ /\ ~Refused(fd) /\ fdt[p][fd] = DEV_KBD
        /\ KbdClose(fd)
        /\ Return(0)
     \/ /\ ~Refused(fd) /\ fdt[p][fd] # DEV_KBD
        /\ fdt' = [fdt EXCEPT ![p][fd] = NULL]
        /\ Return(0)
        /\ UNCHANGED <<irq, echo>>
  /\ UNCHANGED <<eof, kbdbuff, kbdstate>>

-----------------------------------------------------------------------------
(* Reading, writing and control. *)

\* SYS_WRITE.  inside: whether buff passes the address check.  The zero device
\* takes everything, the others support no write.
SysWrite(fd, inside, bufflen) ==
  /\ UserTrap /\ KernelKept
  /\ Return(IF ~Refused(fd) /\ inside /\ fdt[p][fd] = DEV_ZERO
            THEN bufflen ELSE -1)
  /\ UNCHANGED dvars

\* randRead() fills four bytes at a time.
RandBytes(bufflen) == 4 * ((bufflen + 3) \div 4)

Filled == {i \in KbdSlots : kbdbuff[i] # 0}

\* kbdRead() at the first filled place.  A program that reads eof is put on
\* the ready list and goes on running; one that reads anything else is blocked
\* and its answer is not written.  The case of a carriage return is not
\* reached: the places only ever hold the low byte of eof, which is CTRL_D or
\* that of a word's address.
KbdRead(fd) ==
  LET i == Min(Filled)
  IN /\ kbdbuff' = [kbdbuff EXCEPT ![i] = 0]
     /\ \/ /\ kbdbuff[i] = eof
           /\ KbdClose(fd)
           /\ rq' = Ready(rq, p)
           /\ ret' = [ret EXCEPT ![p] = 1]
           /\ UNCHANGED <<p, mode>>
        \/ /\ kbdbuff[i] # eof
           /\ Dispatch([rq EXCEPT !.state[p] = "BLOCKED"])
           /\ UNCHANGED <<ret, fdt, irq, echo>>

\* SYS_READ.
SysRead(fd, inside, bufflen) ==
  /\ UserTrap /\ KernelKept
  /\ \/ /\ Refused(fd) \/ ~inside
        /\ Return(-1)
        /\ UNCHANGED <<fdt, irq, echo, kbdbuff>>
     \/ /\ ~Refused(fd) /\ inside /\ fdt[p][fd] # DEV_KBD
        /\ Return(IF fdt[p][fd] = DEV_ZERO THEN bufflen ELSE RandBytes(bufflen))
        /\ UNCHANGED <<fdt, irq, echo, kbdbuff>>
     \/ /\ ~Refused(fd) /\ inside /\ fdt[p][fd] = DEV_KBD /\ Filled = {}
        /\ Return(-1)
        /\ UNCHANGED <<fdt, irq, echo, kbdbuff>>
     \/ /\ ~Refused(fd) /\ inside /\ fdt[p][fd] = DEV_KBD /\ Filled # {}
        /\ KbdRead(fd)
  /\ UNCHANGED <<eof, kbdstate>>

\* SYS_IOCTL.  sysioctl passes the address of its variable arguments on, so
\* that command 53 makes eof that address and not the character given.
SysIoctl(fd, command) ==
  /\ UserTrap /\ KernelKept
  /\ LET kbd == ~Refused(fd) /\ fdt[p][fd] = DEV_KBD
     IN \/ /\ kbd /\ command = 53
           /\ eof' \in ArgAddrs
           /\ Return(0)
           /\ UNCHANGED echo
        \/ /\ kbd /\ command \in {55, 56}
           /\ echo' = (command = 56)
           /\ Return(0)
           /\ UNCHANGED eof
        \/ /\ ~kbd \/ command \notin {53, 55, 56}
           /\ Return(IF ~Refused(fd) /\ fdt[p][fd] = DEV_RANDOM /\ command = 81
                     THEN 0 ELSE -1)
           /\ UNCHANGED <<eof, echo>>
  /\ UNCHANGED <<fdt, irq, kbdbuff, kbdstate>>

-----------------------------------------------------------------------------
(* The keyboard interrupt. *)

\* The modifier keys and the flag each one sets.  The escape for extended keys
\* has the bit of a key going up and sets nothing.
Modifiers == [LSHIFT |-> "INSHIFT", RSHIFT |-> "INSHIFT", CAPSL |-> "CAPSLOCK",
              LCTL |-> "INCTL", LMETA |-> "INMETA"]

\* Two keys of the translation tables: the one Ctrl turns into CTRL_D, and tab.
kbcode  == [d |-> 100, tab |-> TAB]
kbshift == [d |-> 68, tab |-> TAB]
kbctl   == [d |-> CTRL_D, tab |-> TAB]

\* kbtoa(): the flags after a key went up or down, and the character.
FlagsAfter(key, up) ==
  IF key \notin DOMAIN Modifiers THEN kbdstate
  ELSE IF up THEN kbdstate \ {Modifiers[key]}
  ELSE kbdstate \cup {Modifiers[key]}

KbToA(key, up) ==
  LET shifted == "CAPSLOCK" \in kbdstate <=> "INSHIFT" \notin kbdstate
      ch == CASE "INCTL" \in kbdstate -> kbctl[key]
              [] "INCTL" \notin kbdstate /\ shifted -> kbshift[key]
              [] OTHER -> kbcode[key]
  IN IF up \/ key \in DOMAIN Modifiers THEN NOCHAR
     ELSE IF "INMETA" \in kbdstate THEN ch + 128 ELSE ch

\* The buffer with eof, as a signed char, in its first empty place.  Both
\* branches of kbdHandler() store eof; ch, the character typed, is not stored.
Stored(ch) ==
  LET low == eof % 256
  IN IF Filled = KbdSlots THEN kbdbuff
     ELSE [kbdbuff EXCEPT ![Min(KbdSlots \ Filled)] =
             IF low >= 128 THEN low - 256 ELSE low]

\* SYS_KEYBOARD, kbdHandler().  The interrupted eax is kept in ret.  The end of
\* file closes descriptor 0 of the process that happens to run.
SysKeyboard(key, up) ==
  /\ Trap /\ irq /\ KernelKept
  /\ Return(EAX)
  /\ kbdstate' = FlagsAfter(key, up)
  /\ LET ch == KbToA(key, up)
     IN \/ /\ ch = eof
           /\ kbdbuff' = Stored(ch)
           /\ KbdClose(0)
        \/ /\ ch # eof /\ ch = TAB
           /\ echo' = ~echo
           /\ UNCHANGED <<fdt, irq, kbdbuff>>
        \/ /\ ch # eof /\ ch # TAB
           /\ kbdbuff' = Stored(ch)
           /\ UNCHANGED <<fdt, irq, echo>>
  /\ UNCHANGED eof

\* An interrupt that finds no data at the controller.
SpuriousKeyboard ==
  /\ Trap /\ irq /\ KernelKept
  /\ Return(EAX)
  /\ UNCHANGED dvars

-----------------------------------------------------------------------------

\* Descriptors a program passes: all of them and one that is none.
FdArgs == Fds \cup {MAX_FDT}

DeviceCalls ==
  \/ \E d \in Devs \cup {3} : SysOpen(d)
  \/ \E fd \in FdArgs : SysClose(fd)
  \/ \E fd \in FdArgs, inside \in BOOLEAN, n \in BuffLens : SysWrite(fd, inside, n)
  \/ \E fd \in FdArgs, inside \in BOOLEAN, n \in BuffLens : SysRead(fd, inside, n)
  \/ \E fd \in FdArgs, c \in Commands : SysIoctl(fd, c)
  \/ \E key \in Keys, up \in BOOLEAN : SysKeyboard(key, up)
  \/ SpuriousKeyboard

DevNext ==
  \/ Next /\ UNCHANGED dvars
  \/ DeviceCalls

DevSpec == DevInit /\ [][DevNext]_<<vars, dvars>>

-----------------------------------------------------------------------------
(* Properties. *)

\* The keyboard interrupts only while some process has it open, although one
\* close masks it for all, stopping closes nothing and a new process inherits
\* the descriptors of its slot (kbd.c: kbdOpen, kbdClose, kbdHandler).
IrqMeansOpen ==
  irq => \E s \in Slots, fd \in Fds : fdt[s][fd] = DEV_KBD

=============================================================================
