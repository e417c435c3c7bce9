--------------------------- MODULE MCRegistration ---------------------------
(* Registration for TLC.  Keys are told apart by RegInit, so only channels     *)
(* and callers are interchangeable.                                            *)
EXTENDS Registration, TLC

Symmetry == Permutations(Channel) \cup Permutations(Caller)
=============================================================================
