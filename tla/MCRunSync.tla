------------------------------ MODULE MCRunSync ------------------------------
(* Instances of RunSync for TLC. *)
EXTENDS RunSync, TLC

CONSTANTS p1, p2, q1, q2, r1, r2

Symmetry == Permutations({q1, q2})
=============================================================================
