----------------------------- MODULE MCRunFollow -----------------------------
(* Instances of RunFollow for TLC.                                         *)
EXTENDS RunFollow, TLC

CONSTANTS p1, q1, r1

OneEach == p1 :> r1
=============================================================================
