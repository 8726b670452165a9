----------------------------- MODULE MCMessages -----------------------------
(***************************************************************************)
(* Messages for TLC: no action tells one process from another.             *)
(***************************************************************************)
EXTENDS Messages, TLC

Symmetry == Permutations(Procs)

=============================================================================
