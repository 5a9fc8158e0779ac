----------------------------- MODULE MCPgServer -----------------------------
(* A few commands beside each other; process IDs are interchangeable. *)
EXTENDS PgServer, TLC

CONSTANTS p1, p2, p3

PidSymmetry == Permutations(Pid)
=============================================================================
