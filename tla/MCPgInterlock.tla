--------------------------- MODULE MCPgInterlock ---------------------------
(***************************************************************************)
(* Small numbers of starts, process IDs and restarts; the configurations   *)
(* differ in whether starts overlap and in what other programs do.         *)
(***************************************************************************)
EXTENDS PgInterlock

=============================================================================
