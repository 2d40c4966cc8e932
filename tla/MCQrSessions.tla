------------------------------ MODULE MCQrSessions ------------------------------
(* Small instances of QrSessions for TLC.                                      *)
EXTENDS QrSessions, TLC

Symmetry == Permutations(Requests) \cup Permutations(Sids)
RequestSymmetry == Permutations(Requests)
================================================================================
