----------------------------- MODULE MCUserPool -----------------------------
(***************************************************************************)
(* A small instance of UserPool for TLC.                                    *)
(***************************************************************************)
EXTENDS UserPool, TLC

CONSTANTS a1, a2, p1, p2, c1

Holders == 1 .. MaxCalls
Symmetry == Permutations({a1, a2}) \cup Permutations({p1, p2})
=============================================================================
