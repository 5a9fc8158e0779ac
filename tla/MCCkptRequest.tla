--------------------------- MODULE MCCkptRequest ---------------------------
(* Two backends; all counters wrap with the first checkpoint.              *)
EXTENDS CkptRequest

CONSTANTS b1, b2
=============================================================================
