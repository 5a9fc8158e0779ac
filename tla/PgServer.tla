------------------------------ MODULE PgServer ------------------------------
(***************************************************************************)
(* Starting and stopping the database server: pg_start.sh, pg_stop.sh and  *)
(* the pg_ctl status, start and stop commands they run, beside the servers *)
(* they start.  The commands see a server only through postmaster.pid and  *)
(* through signals to the process ID in it.                                *)
(*                                                                         *)
(* The server is abstracted to its use of postmaster.pid; that it takes    *)
(* the file over only from a dead one is the subject of PgInterlock.       *)
(* pg-data is a complete cluster (InitDb).                                 *)
(***************************************************************************)
EXTENDS Naturals

CONSTANTS Scripts,    \* runs of pg_start.sh
          Starts,     \* runs of pg_ctl start
          Stops,      \* runs of pg_stop.sh
          Pid,        \* process IDs
          MaxWaits,   \* wait_seconds * WAITS_PER_SEC (600)
          Interrupts, \* SIGINT may arrive
          MaxKills    \* bound: servers that die by kill -9

ASSUME ServerAssumption ==
    /\ Scripts \subseteq Nat \ {0} /\ Starts \subseteq Nat \ {0} /\ Stops \subseteq Nat \ {0}
    /\ Scripts \intersect Starts = {} /\ Stops \intersect (Scripts \union Starts) = {}
    /\ 0 \notin Pid /\ MaxWaits \in Nat \ {0} /\ MaxKills \in Nat
    /\ Interrupts \in BOOLEAN

Starters == Scripts \union Starts
Cmd == Starters \union Stops

VARIABLES pc,      \* where each command is
          got,     \* the process ID it read from postmaster.pid
          waits,   \* rounds it has waited
          before,  \* the servers that had started when its pg_ctl did
          hit,     \* the server that a stop command has signalled, 0 if none
          srv,     \* the server that each start command has started
          pid,     \* its process ID
          sig,     \* servers that were sent SIGINT
          opened,  \* servers that have been ready
          file,    \* postmaster.pid: its creator, 0 if there is no file, the
                   \* process ID, 0 if not written yet, and the status line
          others,  \* process IDs in use by unrelated processes (at most one)
          kills

vars == <<pc, got, waits, before, hit, srv, pid, sig, opened, file, others, kills>>
cmdVars == <<pc, got, waits, before, hit>>
srvVars == <<srv, pid, sig, opened, file, others, kills>>

NoFile == [by |-> 0, pid |-> 0, st |-> ""]

Ended == {"already", "started", "failed", "timeout", "interrupted", "aborted", "stopped"}

Live == {"exec", "locked", "named", "starting", "ready", "stopping", "unlocked"}

Place == {"status", "statuskill", "begin", "fork", "forked", "wait", "child",
          "read", "signal", "swait", "stest", "sfinal"} \union Ended

\* Commands, servers and file have the values the programs give them; no command
\* waits more rounds than it may.
TypeOK ==
    /\ pc \in [Cmd -> Place]
    /\ got \in [Cmd -> {0} \union Pid]
    /\ waits \in [Cmd -> 0..MaxWaits]
    /\ before \in [Starters -> SUBSET Starters]
    /\ hit \in [Stops -> {0} \union Starters]
    /\ srv \in [Starters -> {"none", "dead"} \union Live]
    /\ pid \in [Starters -> {0} \union Pid]
    /\ sig \subseteq Starters
    /\ opened \subseteq Starters
    /\ file \in [by : {0} \union Starters, pid : {0} \union Pid,
                 st : {"", "starting", "ready", "stopping"}]
    /\ others \subseteq Pid
    /\ kills \in 0..MaxKills

\* A command that the user has not run yet.
First(c) == IF c \in Scripts THEN "status" ELSE IF c \in Starts THEN "begin" ELSE "read"

Init ==
    /\ pc = [c \in Cmd |-> First(c)]
    /\ got = [c \in Cmd |-> 0]
    /\ waits = [c \in Cmd |-> 0]
    /\ before = [c \in Starters |-> {}]
    /\ hit = [c \in Stops |-> 0]
    /\ srv = [c \in Starters |-> "none"]
    /\ pid = [c \in Starters |-> 0]
    /\ sig = {}
    /\ opened = {}
    /\ file = NoFile
    /\ others = {}
    /\ kills = 0

Goto(c, where) == pc' = [pc EXCEPT ![c] = where]

\* kill(n, 0) = 0.  A dead server is a zombie as long as its pg_ctl waits.
Exists(n) ==
    \/ n \in others
    \/ \E s \in Starters : /\ pid[s] = n
                           /\ \/ srv[s] \in Live
                              \/ srv[s] = "dead" /\ pc[s] \in {"forked", "wait", "child"}

-----------------------------------------------------------------------------
\* pg_start.sh: what pg_ctl status prints on stdout is searched for "running".
\* The messages are not translated: the build has no --enable-nls.
GrepRunning(msg) == msg \in {"server_is_running", "no_server_running"}

AfterStatus(c, msg) == Goto(c, IF GrepRunning(msg) THEN "already" ELSE "begin")

\* do_status: get_pgpid, which prints only on stderr when the file has no PID, ...
StatusRead(c) ==
    /\ pc[c] = "status"
    /\ \/ file.by = 0 /\ AfterStatus(c, "no_server_running") /\ UNCHANGED got
       \/ file.by # 0 /\ file.pid = 0 /\ AfterStatus(c, "") /\ UNCHANGED got
       \/ file.pid # 0 /\ Goto(c, "statuskill") /\ got' = [got EXCEPT ![c] = file.pid]
    /\ UNCHANGED <<waits, before, hit>> /\ UNCHANGED srvVars

\* ... and postmaster_is_alive.
StatusKill(c) ==
    /\ pc[c] = "statuskill"
    /\ AfterStatus(c, IF Exists(got[c]) THEN "server_is_running" ELSE "no_server_running")
    /\ UNCHANGED <<got, waits, before, hit>> /\ UNCHANGED srvVars

\* do_start: get_pgpid, which gives up on a file without a PID.
DoStart(c) ==
    /\ pc[c] = "begin"
    /\ Goto(c, IF file.by # 0 /\ file.pid = 0 THEN "failed" ELSE "fork")
    /\ before' = [before EXCEPT ![c] = {s \in Starters : srv[s] # "none"}]
    /\ UNCHANGED <<got, waits, hit>> /\ UNCHANGED srvVars

\* The kernel issues process IDs in a cycle: an ID does not come back within the
\* run of a command that has seen it, or that is older than its last owner.
Seen(n) == \E c \in Cmd : pc[c] \notin Ended /\ got[c] = n

StartPostmaster(c) ==
    /\ pc[c] = "fork"
    /\ \E n \in Pid : /\ ~Exists(n) /\ ~Seen(n)
                      /\ \A s \in Starters \ before[c] : pid[s] # n
                      /\ pid' = [pid EXCEPT ![c] = n]
    /\ srv' = [srv EXCEPT ![c] = "exec"]
    /\ Goto(c, "forked")
    /\ UNCHANGED <<got, waits, before, hit, sig, opened, file, others, kills>>

\* The SIGINT handler is installed after the fork.
InstallHandler(c) ==
    /\ pc[c] = "forked"
    /\ Goto(c, "wait")
    /\ UNCHANGED <<got, waits, before, hit>> /\ UNCHANGED srvVars

\* wait_for_postmaster_start: the file must be our child's.  Its start time
\* tells it from the file of an earlier server with the same process ID (the
\* two seconds of slop are left out).
AnyPid(c) == file.by \notin before[c]
OurFile(c) == file.pid = pid[c] /\ file.by \notin before[c]

WaitRead(c) ==
    /\ pc[c] = "wait"
    /\ Goto(c, IF file.st = "ready" /\ OurFile(c) THEN "started" ELSE "child")
    /\ UNCHANGED <<got, waits, before, hit>> /\ UNCHANGED srvVars

\* waitpid, and the next round.
Counted(c) == [waits EXCEPT ![c] = @ + 1]
Uncounted(c) == waits
NextRound(c) == Counted(c)

OutOfPatience(c) == waits[c] + 1 >= MaxWaits

WaitChild(c) ==
    /\ pc[c] = "child"
    /\ \/ srv[c] = "dead" /\ Goto(c, "failed") /\ UNCHANGED waits
       \/ /\ srv[c] # "dead"
          /\ waits' = NextRound(c)
          /\ Goto(c, IF OutOfPatience(c) THEN "timeout" ELSE "wait")
    /\ UNCHANGED <<got, before, hit>> /\ UNCHANGED srvVars

\* SIGINT, from the handler's installation on passed on to the server
\* (trap_sigint_during_startup).
DropSignal(c) == sig
Forwarded(c) == sig \union {c}

Interrupt(c) ==
    /\ Interrupts
    /\ \/ pc[c] \in {"begin", "fork", "forked"} /\ Goto(c, "interrupted") /\ UNCHANGED sig
       \/ pc[c] \in {"wait", "child"} /\ Goto(c, "aborted") /\ sig' = Forwarded(c)
    /\ UNCHANGED <<got, waits, before, hit, srv, pid, opened, file, others, kills>>

-----------------------------------------------------------------------------
\* do_stop: get_pgpid, ...
StopRead(c) ==
    /\ pc[c] = "read"
    /\ Goto(c, IF file.pid = 0 THEN "failed" ELSE "signal")
    /\ got' = [got EXCEPT ![c] = file.pid]
    /\ UNCHANGED <<waits, before, hit>> /\ UNCHANGED srvVars

\* ... and kill, whichever process has the ID by now.
StopSignal(c) ==
    /\ pc[c] = "signal"
    /\ LET targets == {s \in Starters : srv[s] \in Live /\ pid[s] = got[c]}
       IN  /\ Goto(c, IF Exists(got[c]) THEN "swait" ELSE "failed")
           /\ sig' = sig \union targets
           /\ hit' = [hit EXCEPT ![c] = IF targets = {} THEN 0 ELSE CHOOSE s \in targets : TRUE]
    /\ UNCHANGED <<got, waits, before, srv, pid, opened, file, others, kills>>

\* wait_for_postmaster_stop.
StopWait(c) ==
    /\ pc[c] = "swait"
    /\ \/ file.by = 0 /\ Goto(c, "stopped") /\ UNCHANGED got
       \/ file.by # 0 /\ file.pid = 0 /\ Goto(c, "failed") /\ UNCHANGED got
       \/ file.pid # 0 /\ Goto(c, "stest") /\ got' = [got EXCEPT ![c] = file.pid]
    /\ UNCHANGED <<waits, before, hit>> /\ UNCHANGED srvVars

TimeoutIsSuccess == "stopped"
TimeoutResult == "timeout"

StopTest(c) ==
    /\ pc[c] = "stest"
    /\ \/ ~Exists(got[c]) /\ Goto(c, "sfinal") /\ UNCHANGED waits
       \/ /\ Exists(got[c])
          /\ waits' = NextRound(c)
          /\ Goto(c, IF OutOfPatience(c) THEN TimeoutResult ELSE "swait")
    /\ UNCHANGED <<got, before, hit>> /\ UNCHANGED srvVars

\* The file once more.
StopFinal(c) ==
    /\ pc[c] = "sfinal"
    /\ Goto(c, IF file.by = 0 THEN "stopped" ELSE "failed")
    /\ UNCHANGED <<got, waits, before, hit>> /\ UNCHANGED srvVars

-----------------------------------------------------------------------------
\* The server takes an absent or stale postmaster.pid, empty at first, or gives
\* up.
Lock(s) ==
    /\ srv[s] = "exec"
    /\ \/ /\ \/ file.by = 0
             \/ file.pid # 0 /\ srv[file.by] = "dead" /\ (Exists(file.pid) => file.pid = pid[s])
          /\ file' = [by |-> s, pid |-> 0, st |-> ""]
          /\ srv' = [srv EXCEPT ![s] = "locked"]
       \/ srv' = [srv EXCEPT ![s] = "dead"] /\ UNCHANGED file
    /\ UNCHANGED cmdVars /\ UNCHANGED <<pid, sig, opened, others, kills>>

\* It writes its PID, then the status line.
WithPid(n) == [by |-> file.by, pid |-> n, st |-> file.st]
WithStatus(st) == [by |-> file.by, pid |-> file.pid, st |-> st]

WriteFile(s) ==
    /\ \/ /\ srv[s] = "locked" /\ srv' = [srv EXCEPT ![s] = "named"]
          /\ file' = WithPid(pid[s])
       \/ /\ srv[s] = "named" /\ srv' = [srv EXCEPT ![s] = "starting"]
          /\ file' = WithStatus("starting")
    /\ UNCHANGED cmdVars /\ UNCHANGED <<pid, sig, opened, others, kills>>

Open(s) ==
    /\ srv[s] = "starting"
    /\ srv' = [srv EXCEPT ![s] = "ready"]
    /\ file' = WithStatus("ready")
    /\ opened' = opened \union {s}
    /\ UNCHANGED cmdVars /\ UNCHANGED <<pid, sig, others, kills>>

\* The server obeys SIGINT once it is in ServerLoop, or stops for a reason of
\* its own.
Stop(s) ==
    /\ srv[s] \in {"starting", "ready"}
    /\ srv' = [srv EXCEPT ![s] = "stopping"]
    /\ file' = WithStatus("stopping")
    /\ UNCHANGED cmdVars /\ UNCHANGED <<pid, sig, opened, others, kills>>

\* The file is removed last, then the process ends.
Exit(s) ==
    /\ \/ srv[s] = "stopping" /\ srv' = [srv EXCEPT ![s] = "unlocked"] /\ file' = NoFile
       \/ srv[s] = "unlocked" /\ srv' = [srv EXCEPT ![s] = "dead"] /\ UNCHANGED file
    /\ UNCHANGED cmdVars /\ UNCHANGED <<pid, sig, opened, others, kills>>

\* kill -9, which leaves the file; its process ID may go to someone else.
Kill9(s) ==
    /\ srv[s] \in Live
    /\ kills < MaxKills
    /\ kills' = kills + 1
    /\ srv' = [srv EXCEPT ![s] = "dead"]
    /\ UNCHANGED cmdVars /\ UNCHANGED <<pid, sig, opened, file, others>>

OtherProcess(n) ==
    /\ kills > 0
    /\ \/ others = {} /\ ~Exists(n) /\ ~Seen(n) /\ others' = {n}
       \/ n \in others /\ others' = {}
    /\ UNCHANGED cmdVars /\ UNCHANGED <<srv, pid, sig, opened, file, kills>>

StartStep(c) == \/ StatusRead(c) \/ StatusKill(c) \/ DoStart(c) \/ StartPostmaster(c)
                \/ InstallHandler(c) \/ WaitRead(c) \/ WaitChild(c)
StopStep(c) == StopRead(c) \/ StopSignal(c) \/ StopWait(c) \/ StopTest(c) \/ StopFinal(c)

Next == \/ \E c \in Starters : StartStep(c) \/ Interrupt(c)
        \/ \E c \in Stops : StopStep(c)
        \/ \E s \in Starters : \/ Lock(s) \/ WriteFile(s) \/ Open(s)
                               \/ Stop(s) \/ Exit(s) \/ Kill9(s)
        \/ \E n \in Pid : OtherProcess(n)

Spec == Init /\ [][Next]_vars

\* A command that was run goes on; a server that was signalled reaches ServerLoop and stops.
\* How long it takes to become ready is left open.
FairSpec ==
    /\ Spec
    /\ \A c \in Starters : WF_vars(pc[c] # First(c) /\ StartStep(c))
    /\ \A c \in Stops : WF_vars(pc[c] # First(c) /\ StopStep(c))
    /\ \A s \in Starters : /\ WF_vars(s \in sig /\ (Lock(s) \/ WriteFile(s) \/ Stop(s)))
                           /\ WF_vars(Exit(s))

-----------------------------------------------------------------------------
\* pg_ctl start reports success only when its own server has been ready, not
\* one that runs already or that left its file behind, whatever process IDs
\* come back.
StartReportsReady == \A c \in Starters : pc[c] = "started" => c \in opened

\* pg_stop.sh reports success only when the server that it signalled has
\* removed its file, that is, has nothing left to do in the data directory.
StopReportsGone ==
    \A c \in Stops : pc[c] = "stopped" /\ hit[c] # 0 => srv[hit[c]] \in {"unlocked", "dead"}

\* Every command ends, even when the server neither becomes ready nor stops.
CommandEnds == \A c \in Cmd : pc[c] # First(c) ~> pc[c] \in Ended

\* An interrupt while pg_ctl start waits aborts the launch ("the server launch
\* is aborted", pg_ctl.c): the server does not stay.
InterruptAborts == \A c \in Starters : pc[c] = "aborted" ~> srv[c] = "dead"

\* Documented by the message of pg_start.sh for this exit, "PostgreSQL is already
\* running": there is a process behind the PID file.
AlreadyRunningIsTrue ==
    [][\A c \in Scripts : pc[c] # "already" /\ pc'[c] = "already" =>
          \E s \in Starters : srv[s] \in Live]_vars

=============================================================================
