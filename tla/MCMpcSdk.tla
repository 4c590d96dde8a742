------------------------------- MODULE MCMpcSdk -------------------------------
(* Instance of MpcSdk for TLC.  Liveness is checked in the same run as       *)
(* safety, so the interchangeable calls are no symmetry set.                 *)
EXTENDS MpcSdk
=============================================================================
