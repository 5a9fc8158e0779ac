---------------------------- MODULE MCPostmaster ----------------------------
(* Instances of Postmaster for TLC. *)
EXTENDS Postmaster, TLC

CONSTANTS s1, s2

\* A primary that restarts after a crash, and a standby that does not.
PrimarySettings == {[standby |-> FALSE, restart |-> TRUE, max |-> 2]}
BothSettings == PrimarySettings \union {[standby |-> TRUE, restart |-> FALSE, max |-> 1]}

\* Backends are interchangeable.
SlotSymmetry == Permutations({s1, s2})
=============================================================================
