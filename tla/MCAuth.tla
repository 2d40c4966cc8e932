--------------------------------- MODULE MCAuth ---------------------------------
(* Small instances of Auth for TLC.                                            *)
EXTENDS Auth, TLC

Symmetry ==
    Permutations(Requests) \cup Permutations(Cookies) \cup Permutations(Names)
================================================================================
