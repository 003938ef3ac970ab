--------------------------- MODULE MCRunExecution ---------------------------
(* Instances of RunExecution for TLC. *)
EXTENDS RunExecution, TLC

CONSTANTS p1, p2, q1, r1, r2

Symmetry == Permutations({p1, p2}) \union Permutations({r1, r2})
=============================================================================
