--------------------------- MODULE MCStandaloneLedger ---------------------------
(* Instance of StandaloneLedger for TLC.                                     *)
EXTENDS StandaloneLedger
=============================================================================
