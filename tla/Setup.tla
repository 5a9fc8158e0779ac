------------------------------- MODULE Setup -------------------------------
(***************************************************************************)
(* From a copy of the repository to a database cluster: the build scripts  *)
(* (Builds) and the runs of pg_start.sh (InitDb), which the user starts    *)
(* one after the other.                                                    *)
(***************************************************************************)
EXTENDS Builds

CONSTANT NumScripts \* runs of pg_start.sh

VARIABLES dpc, mode, dir, killed \* those of InitDb; dpc is its pc

dvars == <<dpc, mode, dir, killed>>

Db == INSTANCE InitDb WITH pc <- dpc, Serial <- TRUE, Kills <- TRUE

Starting == \E c \in Db!Script : dpc[c] \in {"guard"} \union Db!Working

SInit == BInit /\ Db!Init

Build == ~Starting /\ BNext /\ UNCHANGED dvars

TestPgCtl == "pg_ctl" \in installed

\* pg_start.sh goes no further without bin/pg_ctl.
PgStart(c) ==
    /\ step \in Stopped
    /\ dpc[c] = "none" => TestPgCtl
    /\ Db!Step(c)
    /\ UNCHANGED bvars

SNext == Build \/ \E c \in Db!Script : PgStart(c)

SSpec == SInit /\ [][SNext]_<<bvars, dvars>>

-----------------------------------------------------------------------------
\* pg_start.sh tests for bin/pg_ctl only.  Whatever became of the build, initdb and
\* the server it calls are there whenever it is at work.
ToolsAreThere == Starting => {"initdb", "postgres", "pg_ctl"} \subseteq installed

\* pg_start.sh goes on to pg_ctl with a complete cluster, see InitDb.
GuardIsEnough == Db!GuardIsEnough

=============================================================================
