----------------------------- MODULE DataDirUse -----------------------------
(***************************************************************************)
(* What the interlock of a data directory promises: the processes of one   *)
(* server at a time.  A server is a postmaster together with its backends, *)
(* which may outlive it.                                                   *)
(***************************************************************************)
CONSTANT Server

VARIABLE users  \* the servers with a process that uses the data directory

Init == users = {}

\* A server starts to use the directory only when no one else does.
Enter(s) == users = {} /\ users' = {s}

Leave(s) == s \in users /\ users' = users \ {s}

Next == \E s \in Server : Enter(s) \/ Leave(s)

Spec == Init /\ [][Next]_users

=============================================================================
