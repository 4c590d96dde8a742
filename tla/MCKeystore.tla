------------------------------ MODULE MCKeystore ------------------------------
(* Instance of Keystore for TLC.  Ids are only compared for equality, and so *)
(* are names and slots, so their permutations are symmetries.                *)
EXTENDS Keystore, TLC

KeystoreSymmetry == Permutations(Ids) \cup Permutations(Names) \cup Permutations(Slots)
=============================================================================
