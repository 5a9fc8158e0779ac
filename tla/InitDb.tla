------------------------------- MODULE InitDb -------------------------------
(***************************************************************************)
(* The first start of the database: pg_start.sh runs initdb when pg-data   *)
(* has no PG_VERSION, and initdb removes what it made when it fails.       *)
(* Several scripts may run; nothing but the directory itself keeps them    *)
(* apart.                                                                  *)
(*                                                                         *)
(* The many files of a cluster are three here: "pg_wal", the first that    *)
(* initdb creates, "PG_VERSION", and "base", which stands for everything   *)
(* written later.                                                          *)
(***************************************************************************)
EXTENDS Naturals

CONSTANTS NumScripts, \* runs of pg_start.sh
          Serial,     \* a run waits until the one before has ended
          Kills       \* initdb may be killed without cleaning up

Script == 1..NumScripts

VARIABLES pc,     \* where each script is
          mode,   \* made_new_pgdata, found_existing_pgdata or neither
          dir,    \* pg-data: whether it exists, and its files
          killed  \* an initdb was killed

vars == <<pc, mode, dir, killed>>

Files == {"pg_wal", "PG_VERSION", "base", "other"}
Complete == {"pg_wal", "PG_VERSION", "base"}

Absent == [exists |-> FALSE, files |-> {}]
With(files) == [exists |-> TRUE, files |-> files]

\* In initdb.
Working == {"check", "mkdir", "subdirs", "version", "bootstrap", "cleanup"}

\* Steps and directory contents have the values the program gives them.
TypeOK ==
    /\ pc \in [Script -> {"none", "guard", "go", "failed", "killed"} \union Working]
    /\ mode \in [Script -> {"none", "new", "existing"}]
    /\ dir \in [exists : BOOLEAN, files : SUBSET Files]
    /\ ~dir.exists => dir.files = {}
    /\ killed \in BOOLEAN

\* No directory, an empty one, a cluster, or one with something else in it.
Init ==
    /\ pc = [c \in Script |-> "none"]
    /\ mode = [c \in Script |-> "none"]
    /\ dir \in {Absent, With({}), With(Complete), With({"other"})}
    /\ killed = FALSE

Goto(c, where) == pc' = [pc EXCEPT ![c] = where]

Start(c) ==
    /\ pc[c] = "none"
    /\ \A d \in Script : d < c => pc[d] # "none"
    /\ Serial => \A d \in Script : pc[d] \notin {"guard"} \union Working
    /\ Goto(c, "guard")
    /\ UNCHANGED <<mode, dir, killed>>

\* pg_start.sh: -d pg-data and -f PG_VERSION.
Guard(c) ==
    /\ pc[c] = "guard"
    /\ Goto(c, IF "PG_VERSION" \in dir.files THEN "go" ELSE "check")
    /\ UNCHANGED <<mode, dir, killed>>

\* pg_check_dir, in create_data_directory.
CheckDir(c) ==
    /\ pc[c] = "check"
    /\ \/ ~dir.exists /\ Goto(c, "mkdir") /\ UNCHANGED mode
       \/ /\ dir.exists /\ dir.files = {}
          /\ mode' = [mode EXCEPT ![c] = "existing"]
          /\ Goto(c, "subdirs")
       \/ dir.files # {} /\ Goto(c, "cleanup") /\ UNCHANGED mode
    /\ UNCHANGED <<dir, killed>>

\* pg_mkdir_p, which is content with a directory that exists by now.
MakeDir(c) ==
    /\ pc[c] = "mkdir"
    /\ dir' = With(dir.files)
    /\ mode' = [mode EXCEPT ![c] = "new"]
    /\ Goto(c, "subdirs")
    /\ UNCHANGED killed

\* Files are added to an existing directory, or the step fails.
Adds(c, ok, file, next) ==
    \/ ok /\ dir' = With(dir.files \union {file}) /\ Goto(c, next)
    \/ ~ok /\ Goto(c, "cleanup") /\ UNCHANGED dir

\* mkdir of pg_wal and the other subdirectories: they must not exist.
MakeSubdirs(c) ==
    /\ pc[c] = "subdirs"
    /\ Adds(c, dir.exists /\ "pg_wal" \notin dir.files, "pg_wal", "version")
    /\ UNCHANGED <<mode, killed>>

\* write_version_file.
WriteVersion(c) ==
    /\ pc[c] = "version"
    /\ Adds(c, dir.exists, "PG_VERSION", "bootstrap")
    /\ UNCHANGED <<mode, killed>>

\* Configuration files, bootstrap and post-bootstrap.
Bootstrap(c) ==
    /\ pc[c] = "bootstrap"
    /\ Adds(c, {"pg_wal", "PG_VERSION"} \subseteq dir.files, "base", "go")
    /\ UNCHANGED <<mode, killed>>

\* Another step fails, or a signal arrives.
Fail(c) ==
    /\ pc[c] \in Working \ {"cleanup"}
    /\ Goto(c, "cleanup")
    /\ UNCHANGED <<mode, dir, killed>>

\* cleanup_directories_atexit.
LeaveAll(c) == dir
Cleaned(c) == CASE mode[c] = "new" -> Absent
                [] mode[c] = "existing" -> [dir EXCEPT !.files = {}]
                [] mode[c] = "none" -> dir

Cleanup(c) ==
    /\ pc[c] = "cleanup"
    /\ dir' = Cleaned(c)
    /\ Goto(c, "failed")
    /\ UNCHANGED <<mode, killed>>

\* kill -9, or the machine goes down.
Kill(c) ==
    /\ Kills
    /\ pc[c] \in Working
    /\ killed' = TRUE
    /\ Goto(c, "killed")
    /\ UNCHANGED <<mode, dir>>

Step(c) == \/ Start(c) \/ Guard(c) \/ CheckDir(c) \/ MakeDir(c) \/ MakeSubdirs(c)
           \/ WriteVersion(c) \/ Bootstrap(c) \/ Fail(c) \/ Cleanup(c) \/ Kill(c)

Next == \E c \in Script : Step(c)

Spec == Init /\ [][Next]_vars

-----------------------------------------------------------------------------
\* A script that goes on to pg_ctl has a complete cluster, unless an initdb was
\* killed: the presence of PG_VERSION, which initdb writes early, suffices as
\* the guard because a failing initdb takes it away again.
GuardIsEnough == ~killed => \A c \in Script : pc[c] = "go" => Complete \subseteq dir.files

=============================================================================
