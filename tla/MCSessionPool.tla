----------------------------- MODULE MCSessionPool -----------------------------
(* Small instances of SessionPool for TLC.                                     *)
EXTENDS SessionPool, TLC

RequestSymmetry == Permutations(Requests)
================================================================================
