------------------------------ MODULE MergeAbs ------------------------------
(***************************************************************************)
(* What a merge script promises, without the order of the files, the first *)
(* flag or the rows.  A run collects files one at a time; the first one it *)
(* gets makes the output free of rows of earlier runs, and the run         *)
(* succeeds exactly when it got something.                                 *)
(***************************************************************************)
CONSTANT File

VARIABLES status, \* "idle", "running", "ok", "error" or "killed"
          got,    \* the files whose rows are completely in the output
          dirty   \* the output holds rows of an earlier run

vars == <<status, got, dirty>>

Init == status = "idle" /\ got = {} /\ dirty = FALSE

Begin == /\ status # "running"
         /\ status' \in {"running", "error"}
         /\ got' = {}
         /\ dirty' \in BOOLEAN

Take(f) == /\ status = "running"
           /\ got' = got \union {f}
           /\ dirty' = FALSE
           /\ UNCHANGED status

\* A file that fails may still have cost the output its old rows.
Fail == /\ status = "running"
        /\ dirty' \in {dirty, FALSE}
        /\ UNCHANGED <<status, got>>

End == /\ status = "running"
       /\ status' = IF got = {} THEN "error" ELSE "ok"
       /\ UNCHANGED <<got, dirty>>

Killed == /\ status = "running"
          /\ status' = "killed"
          /\ dirty' \in {dirty, FALSE}
          /\ UNCHANGED got

Next == Begin \/ (\E f \in File : Take(f)) \/ Fail \/ End \/ Killed

Spec == Init /\ [][Next]_vars

=============================================================================
