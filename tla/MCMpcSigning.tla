----------------------------- MODULE MCMpcSigning -----------------------------
(* Instance of MpcSigning for TLC.  Liveness is checked in the same run as   *)
(* safety, so no symmetry is used.                                           *)
EXTENDS MpcSigning
=============================================================================
