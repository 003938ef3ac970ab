------------------------------ MODULE MCNodeUp -------------------------------
(* Instances of NodeUp for TLC.                                            *)
EXTENDS NodeUp

CONSTANTS s1, s2, r1, r2
=============================================================================
