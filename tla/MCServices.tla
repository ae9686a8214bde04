------------------------------ MODULE MCServices ------------------------------
(* The user service with the logins, and the access settings with their    *)
(* caches, which share no state here: a behaviour runs one of the two.     *)
EXTENDS Identity, Access, TLC

VARIABLE part

MCInit ==
    /\ part \in {"identity", "access"}
    /\ IdentityInit /\ AccessInit

MCNext ==
    \/ part = "identity" /\ IdentityNext /\ UNCHANGED <<part, accessVars>>
    \/ part = "access" /\ AccessNext /\ UNCHANGED <<part, identityVars>>

Symmetry == Permutations(Workers)
=============================================================================
