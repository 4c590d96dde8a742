-------------------------- MODULE MCStorageMigration --------------------------
(* Instance of StorageMigration for TLC: its runs check liveness or find a   *)
(* trace, so no symmetry is used.                                            *)
EXTENDS StorageMigration
=============================================================================
