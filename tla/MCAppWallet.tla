------------------------------ MODULE MCAppWallet ------------------------------
(* Instance of AppWallet for TLC: one vault with a password, one without.    *)
EXTENDS AppWallet
=============================================================================
