------------------------------ MODULE MCKernel ------------------------------
(***************************************************************************)
(* Kernel for TLC: arguments no .cfg can write, and a check of the closed  *)
(* form of kill()'s wake-up loop against the loop.                         *)
(***************************************************************************)
EXTENDS KernelScheduler, KernelClaims

\* Signal numbers on both sides of the valid ones, for MAX_SIG = 4.
MCSigArgs == {-1, 1, 2}

\* kill()'s loop over proctab, up to and including slot i.
RECURSIVE ReadyLoop(_, _, _)
ReadyLoop(L, W, i) ==
  IF i < 0 THEN L
  ELSE LET M == ReadyLoop(L, W, i-1) IN IF i \in W THEN Ready(M, i) ELSE M

\* Lists of every shape on the first three slots, the broken ones included.
SmallLists ==
  {[state |-> [s \in Slots |-> "WAIT"],
    next |-> [s \in Slots |-> IF s \in DOMAIN n THEN n[s] ELSE NULL],
    head |-> h, tail |-> t] :
     n \in [0..2 -> -1..2], h \in -1..2, t \in -1..2}

ASSUME ReadyAllIsTheLoop ==
  \A L \in SmallLists : \A W \in SUBSET Slots :
    ReadyAll(L, W) = ReadyLoop(L, W, MAX_PROC-1)
=============================================================================
