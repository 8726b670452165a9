---------------------------- MODULE KernelClaims ----------------------------
(***************************************************************************)
(* What a message of the repository says of the kernel and the code does   *)
(* not do.  SleepersListed, of module Kernel, and BlocksDisjoint, of module *)
(* Memory, hold for some programs and are refuted for others.              *)
(***************************************************************************)
EXTENDS Kernel

\* disp.c:232, in next(): "Nothing on the ready Q and there should at least be
\* the idle proc."  The kernel never gets stuck there.
IdleStands == mode # "hung"

=============================================================================
