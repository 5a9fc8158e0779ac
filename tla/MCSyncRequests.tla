--------------------------- MODULE MCSyncRequests ---------------------------
(* SyncRequests with one file of each kind and one backend beside the          *)
(* checkpointer.                                                               *)
EXTENDS SyncRequests

CONSTANTS f1, f2, b1

MCOther == {f2}
MCBackend == {b1}

=============================================================================
