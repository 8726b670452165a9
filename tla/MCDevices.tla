----------------------------- MODULE MCDevices ------------------------------
(***************************************************************************)
(* Devices for TLC, with the claim about the kernel underneath.             *)
(***************************************************************************)
EXTENDS Devices, KernelClaims
=============================================================================
