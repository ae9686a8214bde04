--------------------------- MODULE MCAuthzOutbox ---------------------------
(* Model-checking instance of AuthzOutbox.                                 *)
EXTENDS AuthzOutbox, TLC

Symmetry == Permutations(Workers) \cup Permutations(Groups) \cup Permutations(Parents)
=============================================================================
