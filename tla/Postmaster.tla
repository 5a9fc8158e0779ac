----------------------------- MODULE Postmaster -----------------------------
(***************************************************************************)
(* The state machine by which the postmaster starts up, shuts down and     *)
(* recovers from the crash of a child (postmaster.c).                      *)
(*                                                                         *)
(* The postmaster is one process that handles one event at a time, while   *)
(* its children run, exit and crash beside it.  It learns of an exit only  *)
(* when it reaps the child, so that its own record of the children, which  *)
(* is what its decisions use, lags behind.  The handlers are functions on  *)
(* the record pm; "child" holds both what the postmaster knows (anything   *)
(* but "none" is a nonzero PID) and what the process really does.          *)
(*                                                                         *)
(* The syslogger, which every state disregards, is left out.               *)
(***************************************************************************)
EXTENDS Naturals, FiniteSets

CONSTANTS Special,           \* auxiliary processes in use, a subset of Auxiliary
          Slot,              \* the entries that BackendList may have
          MaxCrashes,        \* bound: crashes that no signal caused
          Stubborn,          \* children that may fail to react to SIGQUIT; to the
                             \* postmaster they look like slow ones
          Settings           \* "standby": the startup process may do archive recovery,
                             \* with hot standby, and archive_mode is "always";
                             \* "restart": restart_after_crash; "max": bound on the
                             \* members of BackendList at one time

Auxiliary == {"startup", "checkpointer", "bgwriter", "walwriter", "autovac",
              "walreceiver", "archiver"}

ASSUME PostmasterAssumption ==
    /\ Special \subseteq Auxiliary
    /\ {"startup", "checkpointer"} \subseteq Special
    /\ Slot \intersect Auxiliary = {}
    /\ MaxCrashes \in Nat
    /\ Stubborn \subseteq Special \union Slot
    /\ Settings \subseteq [standby : BOOLEAN, restart : BOOLEAN, max : Nat]

Child == Special \union Slot

VARIABLES pm,        \* the postmaster: pmState, Shutdown, FatalError, StartupStatus,
                     \* connsAllowed, AbortStartTime # 0, the children, the types in
                     \* BackendList, the settings, and the exit status
          reaping,   \* process_pm_child_exit is in its waitpid loop
          flags,     \* pmsignals sent by children and not handled yet
          ckpt,      \* the shutdown checkpoint has been written
          crashes    \* crashes so far that no signal caused

vars == <<pm, reaping, flags, ckpt, crashes>>

NoShutdown == 0
SmartShutdown == 1
FastShutdown == 2
ImmediateShutdown == 3

PMState == {"STARTUP", "RECOVERY", "HOT_STANDBY", "RUN", "STOP_BACKENDS",
            "WAIT_BACKENDS", "SHUTDOWN", "SHUTDOWN_2", "WAIT_DEAD_END", "NO_CHILDREN"}

\* "asked": told to finish, by SIGTERM or SIGUSR2; "stuck": told to quit, and
\* unable to.
Up == {"up", "asked", "quit", "stuck", "kill"}

\* Exited and not reaped; "crash" is any status but 0, 1 and 3, or an exit
\* that left the child's slot in use.
Zombie == {"exit0", "exit1", "exit3", "crash"}

Type == {"normal", "walsnd", "bgworker", "deadend"}

PmRecord ==
    [state : PMState, shut : 0..3, fatal : BOOLEAN, clock : BOOLEAN,
     startup : {"NOT_RUNNING", "RUNNING", "SIGNALED", "CRASHED"},
     conns : BOOLEAN, child : [Child -> {"none"} \union Up \union Zombie],
     type : [Slot -> Type], exit : {"no", "ok", "failed"}, set : Settings]

\* The postmaster's variables keep to their types, Shutdown to its four values.
TypeOK ==
    /\ pm \in PmRecord
    /\ reaping \in BOOLEAN
    /\ flags \in SUBSET {"recovery", "standby", "advance"}
    /\ ckpt \in BOOLEAN
    /\ crashes \in 0..MaxCrashes

\* The end of PostmasterMain: checkpointer and bgwriter run beside the startup
\* process, unless fork() failed.
Init ==
    /\ \E C \in SUBSET (Special \intersect {"checkpointer", "bgwriter"}), set \in Settings :
       pm = [state |-> "STARTUP", shut |-> NoShutdown, fatal |-> FALSE, clock |-> FALSE,
             startup |-> "RUNNING", conns |-> TRUE,
             child |-> [c \in Child |->
                          IF c \in C \union {"startup"} THEN "up" ELSE "none"],
             type |-> [c \in Slot |-> "normal"], exit |-> "no", set |-> set]
    /\ reaping = FALSE
    /\ flags = {}
    /\ ckpt = FALSE
    /\ crashes = 0

Running == pm.exit = "no"

\* The members of BackendList of these types.
Backends(s, types) == {c \in Slot : s.child[c] # "none" /\ s.type[c] \in types}

Gone(s, C) == \A c \in C : s.child[c] = "none"

-----------------------------------------------------------------------------
\* fork() of each child in C has succeeded.
Started(s, C) == [s EXCEPT !.child = [c \in Child |-> IF c \in C THEN "up" ELSE s.child[c]]]

\* signal_child for each child in C: a stronger signal replaces a weaker one.
Weaker(sig) == CASE sig = "asked" -> {"up"}
                 [] sig = "quit"  -> {"up", "asked"}
                 [] sig = "kill"  -> {"up", "asked", "quit", "stuck"}

Signalled(s, C, sig) ==
    [s EXCEPT !.child = [c \in Child |->
        IF c \in C /\ s.child[c] \in Weaker(sig) THEN sig ELSE s.child[c]]]

\* TerminateChildren: all but dead_end children.  The checkpointer ignores
\* SIGTERM.
TerminateChildren(s, sig) ==
    LET C == IF sig = "asked" THEN Special \ {"checkpointer"} ELSE Special
        t == Signalled(s, C \union Backends(s, Type \ {"deadend"}), sig)
    IN  [t EXCEPT !.startup = IF s.child["startup"] # "none" /\ sig # "asked" THEN "SIGNALED" ELSE @]

ExitPostmaster(s, status) == [s EXCEPT !.exit = status]

\* The stages of PostmasterStateMachine, in order.
SmartShutdownEnds(s) ==
    IF s.state \in {"RUN", "HOT_STANDBY"} /\ ~s.conns /\ Backends(s, {"normal"}) = {}
    THEN [s EXCEPT !.state = "STOP_BACKENDS"]
    ELSE s

\* Everyone but walsenders, checkpointer and archiver is told to finish.
ToStop(s) == Backends(s, {"normal", "bgworker"}) \union (Special \ {"checkpointer", "archiver"})

OnlyClients(s) == ToStop(s) \ Backends(s, {"bgworker"})
ToSignal(s) == ToStop(s)

StopBackends(s) ==
    IF s.state = "STOP_BACKENDS"
    THEN [Signalled(s, ToSignal(s), "asked") EXCEPT !.state = "WAIT_BACKENDS"]
    ELSE s

ForgetWorkers(s) == Gone(s, Backends(s, {"normal"}) \union (Special \ {"checkpointer", "archiver"}))
BackendsGone(s) == Gone(s, ToStop(s))

CheckpointerStays(s) == ~s.fatal
CheckpointerMayStay(s) == ~s.fatal /\ s.shut < ImmediateShutdown

\* forked: fork() of a new checkpointer succeeds, if one is needed.
WaitBackends(s, forked) ==
    IF ~(s.state = "WAIT_BACKENDS" /\ BackendsGone(s)
           /\ (s.child["checkpointer"] = "none" \/ CheckpointerMayStay(s)))
    THEN s
    ELSE IF s.shut >= ImmediateShutdown \/ s.fatal
    THEN [s EXCEPT !.state = "WAIT_DEAD_END"]
    ELSE IF s.child["checkpointer"] = "none" /\ ~forked
    THEN [Signalled(s, (Special \intersect {"archiver"}) \union Backends(s, Type \ {"deadend"}), "quit")
            EXCEPT !.fatal = TRUE, !.state = "WAIT_DEAD_END"]
    ELSE LET t == IF s.child["checkpointer"] = "none" THEN Started(s, {"checkpointer"}) ELSE s
         IN  [Signalled(t, {"checkpointer"}, "asked") EXCEPT !.state = "SHUTDOWN"]

Shutdown2(s) ==
    IF s.state = "SHUTDOWN_2" /\ Gone(s, Special \intersect {"archiver"})
         /\ Backends(s, Type \ {"deadend"}) = {}
    THEN [s EXCEPT !.state = "WAIT_DEAD_END"]
    ELSE s

ForgetDeadEnds(s) == Gone(s, Special \intersect {"archiver"})
AllGone(s) == Gone(s, Slot \union (Special \intersect {"archiver"}))

WaitDeadEnd(s) ==
    IF s.state = "WAIT_DEAD_END" /\ AllGone(s) THEN [s EXCEPT !.state = "NO_CHILDREN"] ELSE s

\* Exit, or reinitialize: the shared memory is made anew and the startup
\* process started; without it the postmaster exits.
NoChildren(s, forked) ==
    IF s.state # "NO_CHILDREN" THEN s
    ELSE IF s.shut > NoShutdown THEN ExitPostmaster(s, IF s.fatal THEN "failed" ELSE "ok")
    ELSE IF s.startup = "CRASHED" \/ ~s.set.restart THEN ExitPostmaster(s, "failed")
    ELSE IF ~s.fatal THEN s
    ELSE IF ~forked THEN ExitPostmaster(s, "failed")
    ELSE [Started(s, {"startup"}) EXCEPT !.startup = "RUNNING", !.state = "STARTUP", !.clock = FALSE]

PostmasterStateMachine(s, forked) ==
    NoChildren(WaitDeadEnd(Shutdown2(WaitBackends(StopBackends(SmartShutdownEnds(s)), forked))), forked)

-----------------------------------------------------------------------------
NoStopwatch(s) == s.clock
Stopwatch(s) == TRUE

\* What each mode does before it advances the state machine.
BeginShutdown(s, mode) ==
    LET t == [s EXCEPT !.shut = mode]
        starting == s.state \in {"STARTUP", "RECOVERY"}
        serving == s.state \in {"RUN", "HOT_STANDBY"}
    IN  CASE mode = SmartShutdown ->
               [t EXCEPT !.conns = IF serving THEN FALSE ELSE @,
                         !.state = IF starting THEN "STOP_BACKENDS" ELSE @]
          [] mode = FastShutdown ->
               [t EXCEPT !.state = IF starting \/ serving THEN "STOP_BACKENDS" ELSE @]
          [] mode = ImmediateShutdown ->
               [TerminateChildren(t, "quit") EXCEPT !.state = "WAIT_BACKENDS", !.clock = Stopwatch(s)]

\* process_pm_shutdown_request, for a signal that has arrived.  A request no
\* stronger than the shutdown under way is ignored.
ProcessShutdownRequest(mode) ==
    /\ Running /\ ~reaping
    /\ pm.shut < mode
    /\ \E forked \in BOOLEAN : pm' = PostmasterStateMachine(BeginShutdown(pm, mode), forked)
    /\ UNCHANGED <<reaping, flags, ckpt, crashes>>

-----------------------------------------------------------------------------
\* The child is no longer known; the type of a free slot means nothing.
Forget(s, c) ==
    [s EXCEPT !.child = [d \in Child |-> IF d = c THEN "none" ELSE s.child[d]],
              !.type = [d \in Slot |-> IF d = c THEN "normal" ELSE s.type[d]]]

\* HandleChildCrash: forget c, and tell everyone else to quit at once, dead_end
\* children included, unless that was done already.
ToQuit(c) == Child \ {c}

\* The clock for SIGKILL ticks from now on.
CrashClock(s) == TRUE

WaitsAfterCrash == {"RECOVERY", "HOT_STANDBY", "RUN", "STOP_BACKENDS", "SHUTDOWN"}

HandleChildCrash(s, c) ==
    LET act == ~s.fatal /\ s.shut # ImmediateShutdown
        t == IF act THEN Signalled(s, ToQuit(c), "quit") ELSE s
    IN  [Forget(t, c) EXCEPT
                  !.startup = IF act /\ c # "startup" /\ s.child["startup"] # "none"
                              THEN "SIGNALED" ELSE @,
                  !.fatal = @ \/ s.shut # ImmediateShutdown,
                  !.state = IF @ \in WaitsAfterCrash
                            THEN "WAIT_BACKENDS" ELSE @,
                  !.clock = CrashClock(s)]

AtLeastSmart(mode) == IF mode = NoShutdown THEN SmartShutdown ELSE mode

\* The startup process has exited with this status.
ReapStartup(s, status) ==
    LET t == Forget(s, "startup")
        failed == status # "exit0"
    IN  CASE s.shut > NoShutdown /\ status \in {"exit0", "exit1"} ->
               [t EXCEPT !.startup = "NOT_RUNNING", !.state = "WAIT_BACKENDS"]
          [] status = "exit3" ->
               [TerminateChildren([t EXCEPT !.startup = "NOT_RUNNING",
                                            !.shut = AtLeastSmart(@)], "asked")
                  EXCEPT !.state = "WAIT_BACKENDS"]
          [] OTHER ->
               IF failed /\ s.state = "STARTUP" /\ s.startup # "SIGNALED"
               THEN ExitPostmaster(t, "failed")
               ELSE IF failed
               THEN HandleChildCrash(
                      [t EXCEPT !.startup = IF @ = "SIGNALED" THEN "NOT_RUNNING" ELSE "CRASHED",
                                !.state = IF @ = "STARTUP" /\ s.startup = "SIGNALED"
                                          THEN "WAIT_BACKENDS" ELSE @], "startup")
               ELSE [t EXCEPT !.startup = "NOT_RUNNING", !.fatal = FALSE, !.clock = FALSE,
                              !.state = "RUN", !.conns = TRUE]

\* The checkpointer has exited: archiver and walsenders are next, if it did so
\* on request.
AnyStatus(s, status) == s.state = "SHUTDOWN"
CheckpointDone(s, status) == status = "exit0" /\ s.state = "SHUTDOWN"

ReapCheckpointer(s, status) ==
    IF CheckpointDone(s, status)
    THEN [Signalled(Forget(s, "checkpointer"),
                    (Special \intersect {"archiver"}) \union Backends(s, Type \ {"deadend"}), "asked")
            EXCEPT !.state = "SHUTDOWN_2"]
    ELSE HandleChildCrash(s, "checkpointer")

\* The children that the postmaster starts by itself in this state; the
\* archiver outside PM_RUN with archive_mode = always, which standbys use here.
MayStart(s, c) ==
    CASE c = "startup" -> FALSE
      [] c \in {"checkpointer", "bgwriter"} -> s.state \in {"STARTUP", "RECOVERY", "HOT_STANDBY", "RUN"}
      [] c = "archiver" -> s.state \in {"RUN"} \union (IF s.set.standby THEN {"RECOVERY", "HOT_STANDBY"} ELSE {})
      [] c = "walreceiver" -> s.state \in {"STARTUP", "RECOVERY", "HOT_STANDBY"} /\ s.shut <= SmartShutdown /\ s.set.standby
      [] OTHER -> s.state = "RUN"

Missing(s) == {c \in Special : s.child[c] = "none" /\ MayStart(s, c)}

\* The exit statuses that are no crash.
Clean(c) == IF c \in {"bgwriter", "walwriter", "autovac"} THEN {"exit0"} ELSE {"exit0", "exit1"}

Reaped(s, c) ==
    CASE c = "startup" -> ReapStartup(s, s.child[c])
      [] c = "checkpointer" -> ReapCheckpointer(s, s.child[c])
      [] OTHER -> IF s.child[c] \in Clean(c) THEN Forget(s, c) ELSE HandleChildCrash(s, c)

\* What may be started at once: everything that is missing when the startup
\* process has succeeded, and the archiver's successor.
Successors(s, c) ==
    CASE c = "startup" /\ s.state = "RUN" -> Missing(s)
      [] c = "archiver" -> Missing(s) \intersect {"archiver"}
      [] OTHER -> {}

\* process_pm_child_exit: the waitpid loop, ...
ReapChild(c) ==
    /\ Running
    /\ pm.child[c] \in Zombie
    /\ LET s == Reaped(pm, c)
       IN  \E C \in SUBSET Successors(s, c) : pm' = Started(s, C)
    /\ reaping' = TRUE
    /\ UNCHANGED <<flags, ckpt, crashes>>

\* ... and the state machine once no exited child is left.
EndReaping ==
    /\ Running /\ reaping
    /\ \A c \in Child : pm.child[c] \notin Zombie
    /\ \E forked \in BOOLEAN : pm' = PostmasterStateMachine(pm, forked)
    /\ reaping' = FALSE
    /\ IF pm'.state = "STARTUP" /\ pm.state # "STARTUP"
       THEN flags' = {}
       ELSE UNCHANGED flags
    /\ UNCHANGED <<ckpt, crashes>>

-----------------------------------------------------------------------------
\* process_pm_pmsignal.  When redo starts, so does the archiver of a standby.
RecoveryStarted(s) ==
    IF "recovery" \in flags /\ s.state = "STARTUP" /\ s.shut = NoShutdown
    THEN [s EXCEPT !.fatal = FALSE, !.clock = FALSE, !.state = "RECOVERY"] ELSE s

BeginHotStandby(s) ==
    IF "standby" \in flags /\ s.state = "RECOVERY" /\ s.shut = NoShutdown
    THEN [s EXCEPT !.state = "HOT_STANDBY", !.conns = TRUE] ELSE s

NeverAdvance(s, forked) == s
Advanced(s, forked) == IF "advance" \in flags THEN PostmasterStateMachine(s, forked) ELSE s

ProcessPmSignal ==
    /\ Running /\ ~reaping
    /\ flags # {}
    /\ LET s == BeginHotStandby(RecoveryStarted(pm))
           archiver == IF pm.state = "STARTUP" THEN Missing(s) \intersect {"archiver"} ELSE {}
       IN  \E C \in SUBSET archiver, forked \in BOOLEAN : pm' = Advanced(Started(s, C), forked)
    /\ flags' = {}
    /\ UNCHANGED <<reaping, ckpt, crashes>>

\* The rest of an iteration of ServerLoop: missing children are started, as far
\* as fork() succeeds.
StartMissing ==
    /\ Running /\ ~reaping
    /\ \E C \in SUBSET Missing(pm) \ {{}} : pm' = Started(pm, C)
    /\ UNCHANGED <<reaping, flags, ckpt, crashes>>

\* Children that ignore SIGQUIT for too long get SIGKILL.
KillChildren ==
    /\ Running /\ ~reaping
    /\ pm.shut >= ImmediateShutdown \/ pm.fatal
    /\ pm.clock
    /\ pm' = [TerminateChildren(pm, "kill") EXCEPT !.clock = FALSE]
    /\ UNCHANGED <<reaping, flags, ckpt, crashes>>

FreeEntry(c) ==
    pm.child[c] = "none" /\ Cardinality(Backends(pm, Type)) < pm.set.max

\* BackendStartup: without permission to connect the child is a dead_end one.
\* From PM_WAIT_DEAD_END on no connection is accepted.
AcceptAnyState(s) == s.conns
CanAcceptConnections(s) == s.state \in {"RUN", "HOT_STANDBY"} /\ s.conns

Connect(c) ==
    /\ Running /\ ~reaping
    /\ FreeEntry(c)
    /\ pm.state \notin {"WAIT_DEAD_END", "NO_CHILDREN"}
    /\ pm' = [pm EXCEPT !.child[c] = "up",
                        !.type[c] = IF CanAcceptConnections(pm) THEN "normal" ELSE "deadend"]
    /\ UNCHANGED <<reaping, flags, ckpt, crashes>>

\* maybe_start_bgworkers; the workers of autovacuum, which are started under
\* stronger conditions, are among these.
StartWorker(c) ==
    /\ Running /\ ~reaping
    /\ FreeEntry(c)
    /\ ~pm.fatal /\ pm.state \in {"STARTUP", "RECOVERY", "HOT_STANDBY", "RUN"}
    /\ pm' = [pm EXCEPT !.child[c] = "up", !.type[c] = "bgworker"]
    /\ UNCHANGED <<reaping, flags, ckpt, crashes>>

-----------------------------------------------------------------------------
\* The children.  A client backend turns out to be a walsender.
BecomeWalSender(c) ==
    /\ Running
    /\ pm.child[c] \in {"up", "asked"} /\ pm.type[c] = "normal"
    /\ pm' = [pm EXCEPT !.type[c] = "walsnd"]
    /\ flags' = flags \union {"advance"}
    /\ UNCHANGED <<reaping, ckpt, crashes>>

\* The startup process reports the start of redo, then, on a hot standby,
\* consistency.
StartupSignals(f) ==
    /\ Running
    /\ pm.child["startup"] \in Up
    /\ \/ f = "recovery" /\ pm.state = "STARTUP"
       \/ f = "standby" /\ pm.set.standby /\ ("recovery" \in flags \/ pm.state = "RECOVERY")
    /\ f \notin flags
    /\ flags' = flags \union {f}
    /\ UNCHANGED <<pm, reaping, ckpt, crashes>>

\* What each child may exit with by itself, or on request.
MayExit(c) ==
    CASE c = "startup" -> {"exit0"} \union (IF pm.child[c] = "asked" THEN {"exit1"} ELSE {})
                                    \union (IF pm.set.standby THEN {"exit3"} ELSE {})
      [] c = "walreceiver" -> {"exit1"}
      [] c \in Slot -> {"exit0", "exit1"}
      [] OTHER -> IF pm.child[c] = "asked" THEN {"exit0"} ELSE {}

Exit(c) ==
    /\ Running
    /\ pm.child[c] \in Up
    /\ \E status \in (IF pm.child[c] \in {"stuck", "kill"} THEN {} ELSE MayExit(c)) \union
                     (IF pm.child[c] \in {"quit", "kill"} THEN {"crash"} ELSE {}) :
          /\ pm' = [pm EXCEPT !.child[c] = status]
          /\ ckpt' = (ckpt \/ (c = "checkpointer" /\ status = "exit0"))
    /\ UNCHANGED <<reaping, flags, crashes>>

\* A child does not get through with what SIGQUIT makes it do; dead_end children
\* have nothing in which they could get stuck.
GetStuck(c) ==
    /\ Running
    /\ c \in Stubborn /\ pm.child[c] = "quit"
    /\ c \in Slot => pm.type[c] # "deadend"
    /\ pm' = [pm EXCEPT !.child[c] = "stuck"]
    /\ UNCHANGED <<reaping, flags, ckpt, crashes>>

Crash(c) ==
    /\ Running
    /\ crashes < MaxCrashes
    /\ pm.child[c] \in {"up", "asked"}
    /\ \E status \in {"crash"} \union (IF c \in {"startup", "archiver"} THEN {"exit1"} ELSE {}) :
          pm' = [pm EXCEPT !.child[c] = status]
    /\ crashes' = crashes + 1
    /\ UNCHANGED <<reaping, flags, ckpt>>

Next == \/ \E mode \in 1..3 : ProcessShutdownRequest(mode)
        \/ \E c \in Child : ReapChild(c) \/ Exit(c) \/ GetStuck(c) \/ Crash(c)
        \/ EndReaping
        \/ ProcessPmSignal
        \/ StartMissing
        \/ KillChildren
        \/ \E c \in Slot : Connect(c) \/ StartWorker(c) \/ BecomeWalSender(c)
        \/ \E f \in {"recovery", "standby"} : StartupSignals(f)

Spec == Init /\ [][Next]_vars

\* Every child that was told to, or that has nothing else to do, exits: recovery
\* and dead_end children come to an end by themselves.
Finish(c) ==
    /\ pm.child[c] # "up" \/ c = "startup" \/ (c \in Slot /\ pm.type[c] = "deadend")
    /\ Exit(c)

\* ServerLoop looks at every pending event in each iteration.
ServerLoopFairness ==
    /\ SF_vars(ProcessPmSignal)
    /\ \A c \in Child : WF_vars(ReapChild(c))
    /\ WF_vars(EndReaping)
    /\ SF_vars(KillChildren)

FairSpec == Spec /\ ServerLoopFairness /\ \A c \in Child : WF_vars(Finish(c))

-----------------------------------------------------------------------------
\* Once the shutdown checkpoint is written no process that writes WAL or dirties
\* buffers is left, whatever crashed, connected or was started during the
\* shutdown (checkpointer.c: all backends must be stopped before SIGUSR2).
CheckpointIsLast ==
    ckpt => \A c \in Child : pm.child[c] \in Up =>
                c = "archiver" \/ (c \in Slot /\ pm.type[c] \in {"walsnd", "deadend"})

\* The assertions of PostmasterStateMachine and process_pm_pmsignal: nothing but
\* backends and the archiver is left in PM_WAIT_DEAD_END, a normal shutdown was
\* requested, and no archiver runs when archive recovery begins; and what is said
\* of FatalError (postmaster.c:315): it is false while the system runs and while the
\* shutdown checkpoint is written, so that a crash always leaves these states.
AssertionsHold ==
    /\ pm.state = "WAIT_DEAD_END" => Gone(pm, Special \ {"archiver"})
    /\ pm.state \in {"SHUTDOWN", "SHUTDOWN_2"} => pm.shut > NoShutdown
    /\ pm.state = "STARTUP" => Gone(pm, Special \intersect {"archiver"})
    /\ pm.fatal => pm.state \notin {"RECOVERY", "HOT_STANDBY", "RUN", "SHUTDOWN"}

\* A postmaster that reports success leaves no child behind and, unless told to
\* stop immediately, has the shutdown checkpoint, so that the next start needs
\* no recovery.
CleanExit ==
    pm.exit = "ok" => /\ Gone(pm, Child)
                      /\ pm.shut < ImmediateShutdown => ckpt

\* The shared memory is made anew only when every child that could use it,
\* dead_end children included, has been reaped.
ReinitAlone ==
    [][pm.state # "STARTUP" /\ pm'.state = "STARTUP" => Gone(pm, Child)]_vars

\* Once the postmaster has decided to stop its children it starts no more of
\* them until it has reinitialized, but for dead_end children and for the
\* checkpointer that the shutdown checkpoint needs.
StopStartsNoChild ==
    [][pm.state \notin {"STARTUP", "RECOVERY", "HOT_STANDBY", "RUN"} /\ pm'.state = pm.state =>
          \A c \in Child : pm.child[c] = "none" /\ pm'.child[c] # "none" =>
              c \in Slot /\ pm'.type[c] = "deadend"]_vars

SomeoneStuck == \E c \in Child : pm.child[c] = "stuck"

\* A fast shutdown that begins while no crash is being recovered from ends,
\* whatever the children do meanwhile, unless one is stuck that gets no SIGKILL.
FastShutdownEnds == pm.shut = FastShutdown /\ ~pm.fatal ~> ~Running \/ SomeoneStuck

\* A smart shutdown ends once the clients are gone for good, a client that turns
\* into a walsender included.
SmartShutdownEventuallyEnds ==
    [](pm.shut = SmartShutdown /\ ~pm.fatal /\ [](Backends(pm, {"normal"}) = {})
         => <>(~Running \/ SomeoneStuck))

\* After a crash the postmaster comes back to normal or exits, also when children
\* do not react to SIGQUIT, unless a smart or fast shutdown is requested meanwhile.
CrashIsHandled ==
    pm.fatal ~> ~pm.fatal \/ ~Running \/ pm.shut \in {SmartShutdown, FastShutdown}

\* An immediate shutdown ends even when children do not react to SIGQUIT: they
\* get SIGKILL.
ImmediateShutdownEnds == pm.shut = ImmediateShutdown ~> ~Running

\* Documented, for every fast shutdown: "Abort all children with SIGTERM (rollback
\* active transactions and exit) and shut down when they are gone." (postmaster.c)
EveryFastShutdownEnds == pm.shut = FastShutdown ~> ~Running \/ SomeoneStuck

=============================================================================
