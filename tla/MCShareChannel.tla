--------------------------- MODULE MCShareChannel ----------------------------
(* Instances of ShareChannel for TLC.                                      *)
EXTENDS ShareChannel

CONSTANTS w, s, request, closure
=============================================================================
