------------------------------- MODULE MCStoreOpen -------------------------------
(* Small instances of StoreOpen for TLC.                                         *)
EXTENDS StoreOpen, TLC

ProgramSymmetry == Permutations(Programs)
================================================================================
