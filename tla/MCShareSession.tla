--------------------------- MODULE MCShareSession ---------------------------
(* Instances of ShareSession for TLC. *)
EXTENDS ShareSession

CONSTANTS c, n1
=============================================================================
