-------------------------- MODULE PostmasterProofs --------------------------
(***************************************************************************)
(* Proofs about the postmaster's state machine, for any set of backends,   *)
(* any choice of auxiliary processes and any number of crashes.            *)
(***************************************************************************)
EXTENDS Postmaster, TLAPS

\* No process is left that writes WAL, but perhaps the checkpointer.
WritersGone(s) ==
    /\ \A c \in Special \ {"checkpointer", "archiver"} : s.child[c] = "none"
    /\ \A c \in Slot : s.child[c] # "none" => s.type[c] \in {"walsnd", "deadend"}

Drained == {"SHUTDOWN", "SHUTDOWN_2", "WAIT_DEAD_END", "NO_CHILDREN"}

\* Which children each state may still have.
ChildInv(s) ==
    /\ s.state \in Drained => WritersGone(s)
    /\ s.state \in Drained \ {"SHUTDOWN"} => s.child["checkpointer"] = "none"
    /\ s.state = "NO_CHILDREN" => \A c \in Child : s.child[c] = "none"
    /\ s.state = "STARTUP" /\ "archiver" \in Special => s.child["archiver"] = "none"
    /\ s.child["checkpointer"] = "asked" => s.state = "SHUTDOWN"

\* Why the postmaster stops its children.
WhyInv(s) == s.state \in {"STOP_BACKENDS", "WAIT_BACKENDS"} => s.fatal \/ s.shut > 0

ShutInv(s) ==
    /\ s.state \in {"SHUTDOWN", "SHUTDOWN_2"} => s.shut > 0
    /\ s.state = "SHUTDOWN" => s.shut < 3
    /\ ~s.conns => s.shut > 0
    /\ s.fatal => s.state \notin {"RECOVERY", "HOT_STANDBY", "RUN", "SHUTDOWN"}

\* What follows from the shutdown checkpoint (k), and who needs it.
CkptInv(s, k) ==
    /\ s.state = "SHUTDOWN_2" => k
    /\ s.state \in {"WAIT_DEAD_END", "NO_CHILDREN"} => s.fatal \/ s.shut = 3 \/ k
    /\ s.child["checkpointer"] = "exit0" => k
    /\ k => /\ s.shut > 0
            /\ WritersGone(s)
            /\ s.child["checkpointer"] \in {"none"} \union Zombie
            /\ s.state \in Drained \union {"WAIT_BACKENDS"}
            /\ s.state = "WAIT_BACKENDS" => s.fatal \/ s.shut = 3

Good(s, k) == s \in PmRecord /\ ChildInv(s) /\ WhyInv(s) /\ ShutInv(s) /\ CkptInv(s, k)

ExitInv(s, k) == s.exit = "ok" => (\A c \in Child : s.child[c] = "none") /\ (s.shut < 3 => k)

PostmasterInv == Good(pm, ckpt) /\ ExitInv(pm, ckpt)

-----------------------------------------------------------------------------
LEMMA Names ==
    /\ Child = Special \union Slot
    /\ "startup" \in Special /\ "checkpointer" \in Special
    /\ \A c \in Special : c \notin Slot
    /\ \A c \in Slot : c # "startup" /\ c # "checkpointer" /\ c # "archiver"
BY PostmasterAssumption DEF Child, Auxiliary

\* The postmaster's own test for the same.
LEMMA WritersAreGone ==
    ASSUME NEW s \in PmRecord PROVE Gone(s, ToStop(s)) <=> WritersGone(s)
<1>1. \A c \in Slot : s.type[c] \in Type
  BY DEF PmRecord
<1> QED
  BY <1>1 DEF Gone, ToStop, Backends, WritersGone, Type

\* A signal starts and ends nothing.
LEMMA SignalEffect ==
    ASSUME NEW s \in PmRecord, NEW C, NEW sig \in {"asked", "quit", "kill"}, NEW t, t = Signalled(s, C, sig)
    PROVE  /\ t \in PmRecord /\ t.state = s.state /\ t.shut = s.shut /\ t.fatal = s.fatal
           /\ t.startup = s.startup /\ t.conns = s.conns /\ t.type = s.type /\ t.exit = s.exit
           /\ \A c \in Child : t.child[c] = s.child[c] \/ (c \in C /\ s.child[c] \in Up /\ t.child[c] = sig)
           /\ \A c \in C \intersect Child : s.child[c] = "asked" /\ sig # "asked" => t.child[c] = sig
<1>1. t = [s EXCEPT !.child = [c \in Child |->
              IF c \in C /\ s.child[c] \in Weaker(sig) THEN sig ELSE s.child[c]]]
  BY DEF Signalled
<1>2. \A x \in Weaker(sig) : x \in Up
  BY DEF Weaker, Up
<1>3. sig # "asked" => "asked" \in Weaker(sig)
  BY DEF Weaker
<1> QED
  BY <1>1, <1>2, <1>3 DEF PmRecord, Up

\* fork() changes no more than the children.
LEMMA StartEffect ==
    ASSUME NEW s \in PmRecord, NEW C, NEW t, t = Started(s, C)
    PROVE  /\ t \in PmRecord /\ t.state = s.state /\ t.shut = s.shut /\ t.fatal = s.fatal
           /\ t.startup = s.startup /\ t.conns = s.conns /\ t.type = s.type /\ t.exit = s.exit
           /\ \A c \in Child : t.child[c] = IF c \in C THEN "up" ELSE s.child[c]
BY DEF Started, PmRecord, Up

-----------------------------------------------------------------------------
\* The stages of the state machine, one by one.
LEMMA SmartShutdownEndsGood ==
    ASSUME NEW s, NEW k, Good(s, k), NEW t, t = SmartShutdownEnds(s)
    PROVE  Good(t, k)
<1>1. CASE t = [s EXCEPT !.state = "STOP_BACKENDS"] /\ s.state \in {"RUN", "HOT_STANDBY"} /\ ~s.conns
  <2>1. /\ t \in PmRecord /\ t.state = "STOP_BACKENDS" /\ t.shut = s.shut /\ t.fatal = s.fatal
        /\ t.conns = s.conns /\ t.child = s.child /\ t.type = s.type
    BY <1>1 DEF Good, PmRecord, PMState
  <2> QED
    BY <1>1, <2>1 DEF Good, ChildInv, WhyInv, ShutInv, CkptInv, Drained
<1>2. CASE t = s
  BY <1>2
<1> QED
  BY <1>1, <1>2 DEF SmartShutdownEnds

LEMMA StopBackendsGood ==
    ASSUME NEW s, NEW k, Good(s, k), NEW t, t = StopBackends(s)
    PROVE  Good(t, k)
<1>1. CASE s.state = "STOP_BACKENDS"
  <2> DEFINE u == Signalled(s, ToStop(s), "asked")
  <2>1. t = [u EXCEPT !.state = "WAIT_BACKENDS"]
    BY <1>1 DEF StopBackends, ToSignal
  <2>2. /\ u \in PmRecord /\ u.shut = s.shut /\ u.fatal = s.fatal /\ u.conns = s.conns
        /\ \A c \in Child : u.child[c] = s.child[c] \/ (c \in ToStop(s) /\ u.child[c] = "asked")
    BY SignalEffect DEF Good
  <2>3. "checkpointer" \notin ToStop(s) /\ "checkpointer" \in Child
    BY Names DEF ToStop, Backends
  <2> HIDE DEF u
  <2>4. /\ t \in PmRecord /\ t.state = "WAIT_BACKENDS" /\ t.shut = s.shut /\ t.fatal = s.fatal
        /\ t.conns = s.conns /\ t.child["checkpointer"] = s.child["checkpointer"]
    BY <2>1, <2>2, <2>3 DEF PmRecord, PMState
  <2> QED
    BY <1>1, <2>4 DEF Good, ChildInv, WhyInv, ShutInv, CkptInv, Drained
<1>2. CASE t = s
  BY <1>2
<1> QED
  BY <1>1, <1>2 DEF StopBackends

LEMMA WaitBackendsGood ==
    ASSUME NEW s, NEW k, Good(s, k), NEW forked, NEW t, t = WaitBackends(s, forked)
    PROVE  Good(t, k)
<1> USE Names DEF CheckpointerMayStay, ImmediateShutdown
<1> s \in PmRecord
  BY DEF Good
<1>1. CASE t = s
  BY <1>1
<1>2. ASSUME t # s
      PROVE  /\ s.state = "WAIT_BACKENDS" /\ WritersGone(s)
             /\ s.child["checkpointer"] = "none" \/ (~s.fatal /\ s.shut < 3)
  BY <1>2, WritersAreGone DEF WaitBackends, BackendsGone
<1>3. CASE t # s /\ (s.shut >= 3 \/ s.fatal)
  <2>1. t = [s EXCEPT !.state = "WAIT_DEAD_END"]
    BY <1>3 DEF WaitBackends
  <2>2. /\ t \in PmRecord /\ t.state = "WAIT_DEAD_END" /\ t.shut = s.shut /\ t.fatal = s.fatal
        /\ t.conns = s.conns /\ t.child = s.child /\ t.type = s.type
    BY <2>1 DEF PmRecord, PMState
  <2>3. s.shut \in 0..3 /\ s.child["checkpointer"] = "none" /\ WritersGone(t)
    BY <1>2, <1>3, <2>2 DEF PmRecord, WritersGone
  <2> QED
    BY <1>2, <1>3, <2>2, <2>3 DEF Good, ChildInv, WhyInv, ShutInv, CkptInv, Drained
<1>4. CASE t # s /\ ~(s.shut >= 3 \/ s.fatal) /\ s.child["checkpointer"] = "none" /\ ~forked
  <2> DEFINE C == (Special \intersect {"archiver"}) \union Backends(s, Type \ {"deadend"})
             u == Signalled(s, C, "quit")
  <2>1. t = [u EXCEPT !.fatal = TRUE, !.state = "WAIT_DEAD_END"]
    BY <1>4 DEF WaitBackends
  <2>2. /\ u \in PmRecord /\ u.shut = s.shut /\ u.conns = s.conns /\ u.type = s.type
        /\ \A c \in Child : u.child[c] = s.child[c] \/ (s.child[c] \in Up /\ u.child[c] = "quit")
    BY SignalEffect
  <2> HIDE DEF u
  <2>3. /\ t \in PmRecord /\ t.state = "WAIT_DEAD_END" /\ t.shut = s.shut /\ t.fatal = TRUE
        /\ t.conns = s.conns /\ t.child = u.child /\ t.type = s.type
    <3>1. "WAIT_DEAD_END" \in PMState
      BY DEF PMState
    <3>2. t \in PmRecord
      BY <2>1, <2>2, <3>1 DEF PmRecord
    <3>3. /\ t.state = "WAIT_DEAD_END" /\ t.shut = u.shut /\ t.fatal = TRUE
          /\ t.conns = u.conns /\ t.child = u.child /\ t.type = u.type
      BY <2>1, <2>2 DEF PmRecord
    <3> QED
      BY <2>2, <3>2, <3>3
  <2>4. s.shut \in 0..3 /\ t.child["checkpointer"] = "none" /\ WritersGone(t)
    BY <1>2, <1>4, <2>2, <2>3 DEF PmRecord, WritersGone, Up
  <2> QED
    BY <1>2, <1>4, <2>3, <2>4 DEF Good, ChildInv, WhyInv, ShutInv, CkptInv, Drained
<1>5. CASE t # s /\ ~(s.shut >= 3 \/ s.fatal) /\ ~(s.child["checkpointer"] = "none" /\ ~forked)
  <2> DEFINE r == IF s.child["checkpointer"] = "none" THEN Started(s, {"checkpointer"}) ELSE s
             u == Signalled(r, {"checkpointer"}, "asked")
  <2>1. t = [u EXCEPT !.state = "SHUTDOWN"]
    BY <1>5 DEF WaitBackends
  <2>4. /\ r \in PmRecord /\ r.shut = s.shut /\ r.fatal = s.fatal
        /\ r.conns = s.conns /\ r.type = s.type
        /\ \A c \in Child \ {"checkpointer"} : r.child[c] = s.child[c]
        /\ r.child["checkpointer"] \in {"up", "asked", s.child["checkpointer"]}
    BY StartEffect
  <2> HIDE DEF r
  <2>5. /\ u \in PmRecord /\ u.shut = s.shut /\ u.fatal = s.fatal
        /\ u.conns = s.conns /\ u.type = s.type
        /\ \A c \in Child \ {"checkpointer"} : u.child[c] = s.child[c]
        /\ u.child["checkpointer"] \in {"up", "asked", s.child["checkpointer"]}
    BY <2>4, SignalEffect
  <2> HIDE DEF u
  <2>2. /\ t \in PmRecord /\ t.state = "SHUTDOWN" /\ t.shut = s.shut /\ t.fatal = s.fatal
        /\ t.conns = s.conns /\ t.type = s.type
        /\ t.child = u.child
    BY <2>1, <2>5 DEF PmRecord, PMState
  <2>6. s.shut \in 0..3 /\ WritersGone(s)
    BY <1>2, <1>5 DEF PmRecord
  <2>3. s.shut \in 0..3 /\ WritersGone(t)
    BY <2>2, <2>5, <2>6 DEF WritersGone
  <2> QED
    BY <1>2, <1>5, <2>2, <2>3, <2>5 DEF Good, ChildInv, WhyInv, ShutInv, CkptInv, Drained
<1> QED
  BY <1>1, <1>3, <1>4, <1>5

LEMMA Shutdown2Good ==
    ASSUME NEW s, NEW k, Good(s, k), NEW t, t = Shutdown2(s)
    PROVE  Good(t, k)
<1>1. CASE t = s
  BY <1>1
<1>2. CASE s.state = "SHUTDOWN_2" /\ t = [s EXCEPT !.state = "WAIT_DEAD_END"]
  <2>1. /\ t \in PmRecord /\ t.state = "WAIT_DEAD_END" /\ t.shut = s.shut /\ t.fatal = s.fatal
        /\ t.conns = s.conns /\ t.child = s.child /\ t.type = s.type
    BY <1>2 DEF Good, PmRecord, PMState
  <2> QED
    BY <1>2, <2>1 DEF Good, ChildInv, WhyInv, ShutInv, CkptInv, Drained, WritersGone
<1> QED
  BY <1>1, <1>2 DEF Shutdown2

LEMMA WaitDeadEndGood ==
    ASSUME NEW s, NEW k, Good(s, k), NEW t, t = WaitDeadEnd(s)
    PROVE  Good(t, k)
<1>1. CASE t = s
  BY <1>1
<1>2. CASE s.state = "WAIT_DEAD_END" /\ AllGone(s) /\ t = [s EXCEPT !.state = "NO_CHILDREN"]
  <2>1. /\ t \in PmRecord /\ t.state = "NO_CHILDREN" /\ t.shut = s.shut /\ t.fatal = s.fatal
        /\ t.conns = s.conns /\ t.child = s.child /\ t.type = s.type
    BY <1>2 DEF Good, PmRecord, PMState
  <2>2. \A c \in Child : s.child[c] = "none"
    BY <1>2, Names DEF AllGone, Gone, Good, ChildInv, Drained, WritersGone
  <2> QED
    BY <1>2, <2>1, <2>2 DEF Good, ChildInv, WhyInv, ShutInv, CkptInv, Drained, WritersGone
<1> QED
  BY <1>1, <1>2 DEF WaitDeadEnd

\* Only here does the postmaster exit with success, or reinitialize.
LEMMA NoChildrenGood ==
    ASSUME NEW s, NEW k, Good(s, k), s.exit # "ok", NEW forked, NEW t, t = NoChildren(s, forked)
    PROVE  Good(t, k) /\ ExitInv(t, k)
<1> USE Names DEF NoShutdown
<1>1. CASE t = s
  BY <1>1 DEF ExitInv
<1>2. ASSUME NEW status \in {"ok", "failed"}, t = [s EXCEPT !.exit = status], s.state = "NO_CHILDREN",
             status = "ok" => s.shut > 0 /\ ~s.fatal
      PROVE  Good(t, k) /\ ExitInv(t, k)
  <2>1. /\ t \in PmRecord /\ t.state = s.state /\ t.shut = s.shut /\ t.fatal = s.fatal
        /\ t.conns = s.conns /\ t.child = s.child /\ t.type = s.type /\ t.exit = status
    BY <1>2 DEF Good, PmRecord
  <2>2. Good(t, k)
    BY <2>1 DEF Good, ChildInv, WhyInv, ShutInv, CkptInv, WritersGone
  <2> QED
    BY <1>2, <2>1, <2>2 DEF Good, ExitInv, ChildInv, CkptInv
<1>3. CASE /\ s.state = "NO_CHILDREN" /\ ~(s.shut > 0) /\ s.fatal
           /\ t = [Started(s, {"startup"}) EXCEPT !.startup = "RUNNING", !.state = "STARTUP", !.clock = FALSE]
  <2> DEFINE u == Started(s, {"startup"})
  <2>2. /\ u \in PmRecord /\ u.shut = s.shut /\ u.fatal = s.fatal /\ u.conns = s.conns /\ u.exit = s.exit
        /\ \A c \in Child : c # "startup" => u.child[c] = s.child[c]
    BY StartEffect DEF Good
  <2>3. t = [u EXCEPT !.startup = "RUNNING", !.state = "STARTUP", !.clock = FALSE]
    BY <1>3
  <2> HIDE DEF u
  <2>1. /\ t \in PmRecord /\ t.state = "STARTUP" /\ t.shut = s.shut /\ t.fatal = s.fatal
        /\ t.conns = s.conns /\ t.exit = s.exit
        /\ t.child = u.child
    BY <2>2, <2>3 DEF PmRecord, PMState
  <2> QED
    BY <1>3, <2>1, <2>2 DEF Good, ExitInv, ChildInv, WhyInv, ShutInv, CkptInv, Drained
<1> QED
  BY <1>1, <1>2, <1>3 DEF NoChildren, ExitPostmaster

-----------------------------------------------------------------------------
\* What the stages do to the set of children.
Serving == {"STARTUP", "RECOVERY", "HOT_STANDBY", "RUN"}

SameChildren(s, t) == \A c \in Child : s.child[c] = "none" <=> t.child[c] = "none"

Keeps(s, t) ==
    /\ t \in PmRecord /\ t.exit = s.exit /\ t.shut = s.shut /\ t.type = s.type
    /\ t.state # s.state => t.state \notin Serving
    /\ SameChildren(s, t)

LEMMA KeepsChain ==
    ASSUME NEW s, NEW t, NEW u, Keeps(s, t), Keeps(t, u) PROVE Keeps(s, u)
BY DEF Keeps, SameChildren

LEMMA SmartShutdownEndsKeeps == ASSUME NEW s \in PmRecord PROVE Keeps(s, SmartShutdownEnds(s))
BY DEF SmartShutdownEnds, Keeps, SameChildren, PmRecord, PMState, Serving

LEMMA StopBackendsKeeps == ASSUME NEW s \in PmRecord PROVE Keeps(s, StopBackends(s))
<1> DEFINE u == Signalled(s, ToStop(s), "asked")
<1>1. /\ u \in PmRecord /\ u.type = s.type /\ u.shut = s.shut /\ u.exit = s.exit
      /\ \A c \in Child : u.child[c] = s.child[c] \/ (s.child[c] \in Up /\ u.child[c] = "asked")
  BY SignalEffect
<1>2. StopBackends(s) = IF s.state = "STOP_BACKENDS" THEN [u EXCEPT !.state = "WAIT_BACKENDS"] ELSE s
  BY DEF StopBackends, ToSignal
<1> HIDE DEF u
<1>3. CASE s.state = "STOP_BACKENDS"
  <2> DEFINE t == [u EXCEPT !.state = "WAIT_BACKENDS"]
  <2>1. t \in PmRecord /\ t.type = s.type /\ t.shut = s.shut /\ t.exit = s.exit /\ t.state = "WAIT_BACKENDS" /\ t.child = u.child
    BY <1>1 DEF PmRecord, PMState
  <2> HIDE DEF t
  <2>2. Keeps(s, t)
    BY <1>1, <2>1 DEF Keeps, SameChildren, Serving, Up
  <2> QED
    BY <1>2, <1>3, <2>2 DEF t
<1> QED
  BY <1>2, <1>3 DEF Keeps, SameChildren

\* The only child this stage may start is the checkpointer.
LEMMA WaitBackendsKeeps ==
    ASSUME NEW s \in PmRecord, NEW forked, NEW t, t = WaitBackends(s, forked)
    PROVE  \/ Keeps(s, t)
           \/ s.state = "WAIT_BACKENDS" /\ t.state = "SHUTDOWN" /\ t.type = s.type /\ t.shut = s.shut /\ t.exit = s.exit /\ t \in PmRecord
<1> DEFINE C == (Special \intersect {"archiver"}) \union Backends(s, Type \ {"deadend"})
           q == Signalled(s, C, "quit")
           r == IF s.child["checkpointer"] = "none" THEN Started(s, {"checkpointer"}) ELSE s
           u == Signalled(r, {"checkpointer"}, "asked")
<1>1. \/ t = s
      \/ t = [s EXCEPT !.state = "WAIT_DEAD_END"]
      \/ t = [q EXCEPT !.fatal = TRUE, !.state = "WAIT_DEAD_END"]
      \/ t = [u EXCEPT !.state = "SHUTDOWN"] /\ s.state = "WAIT_BACKENDS"
  BY DEF WaitBackends
<1>2. /\ q \in PmRecord /\ q.type = s.type /\ q.shut = s.shut /\ q.exit = s.exit
      /\ \A c \in Child : q.child[c] = s.child[c] \/ (s.child[c] \in Up /\ q.child[c] = "quit")
  BY SignalEffect
<1>3. r \in PmRecord /\ r.type = s.type /\ r.shut = s.shut /\ r.exit = s.exit
  BY StartEffect
<1> HIDE DEF r
<1>4. u \in PmRecord /\ u.type = s.type /\ u.shut = s.shut /\ u.exit = s.exit
  BY <1>3, SignalEffect
<1> HIDE DEF q, u
<1>5. CASE t = s
  BY <1>5 DEF Keeps, SameChildren
<1>6. CASE t = [s EXCEPT !.state = "WAIT_DEAD_END"]
  BY <1>6 DEF Keeps, SameChildren, PmRecord, PMState, Serving
<1>7. CASE t = [q EXCEPT !.fatal = TRUE, !.state = "WAIT_DEAD_END"]
  <2>1. t \in PmRecord /\ t.type = s.type /\ t.shut = s.shut /\ t.exit = s.exit /\ t.state = "WAIT_DEAD_END" /\ t.child = q.child
    BY <1>2, <1>7 DEF PmRecord, PMState
  <2> QED
    BY <1>2, <2>1 DEF Keeps, SameChildren, Serving, Up
<1>8. CASE t = [u EXCEPT !.state = "SHUTDOWN"] /\ s.state = "WAIT_BACKENDS"
  BY <1>4, <1>8 DEF PmRecord, PMState
<1> QED
  BY <1>1, <1>5, <1>6, <1>7, <1>8

LEMMA Shutdown2Keeps == ASSUME NEW s \in PmRecord PROVE Keeps(s, Shutdown2(s))
BY DEF Shutdown2, Keeps, SameChildren, PmRecord, PMState, Serving

LEMMA WaitDeadEndKeeps == ASSUME NEW s \in PmRecord PROVE Keeps(s, WaitDeadEnd(s))
BY DEF WaitDeadEnd, Keeps, SameChildren, PmRecord, PMState, Serving

\* The only child the last stage may start is the startup process, when there is none.
LEMMA NoChildrenKeeps ==
    ASSUME NEW s, NEW k, Good(s, k), NEW forked, NEW t, t = NoChildren(s, forked)
    PROVE  /\ t.type = s.type /\ t.shut = s.shut
           /\ \/ t.state = s.state /\ SameChildren(s, t)
              \/ t.state = "STARTUP" /\ \A c \in Child : s.child[c] = "none"
<1> s \in PmRecord
  BY DEF Good
<1>1. CASE t = s
  BY <1>1 DEF SameChildren
<1>2. ASSUME NEW status, t = [s EXCEPT !.exit = status]
      PROVE  t.type = s.type /\ t.shut = s.shut /\ t.state = s.state /\ SameChildren(s, t)
  BY <1>2 DEF PmRecord, SameChildren
<1>3. CASE s.state = "NO_CHILDREN" /\ t = [Started(s, {"startup"}) EXCEPT
              !.startup = "RUNNING", !.state = "STARTUP", !.clock = FALSE]
  <2> DEFINE u == Started(s, {"startup"})
  <2>1. u \in PmRecord /\ u.type = s.type /\ u.shut = s.shut
    BY StartEffect
  <2>2. t = [u EXCEPT !.startup = "RUNNING", !.state = "STARTUP", !.clock = FALSE]
    BY <1>3
  <2> HIDE DEF u
  <2>3. t.type = s.type /\ t.shut = s.shut /\ t.state = "STARTUP"
    BY <2>1, <2>2 DEF PmRecord
  <2> QED
    BY <1>3, <2>3 DEF Good, ChildInv
<1> QED
  BY <1>1, <1>2, <1>3 DEF NoChildren, ExitPostmaster

\* While the checkpointer writes the checkpoint the state machine has nothing to do.
LEMMA ShutdownWaits ==
    ASSUME NEW s, s.state = "SHUTDOWN", NEW forked
    PROVE  /\ SmartShutdownEnds(s) = s /\ StopBackends(s) = s /\ WaitBackends(s, forked) = s
           /\ Shutdown2(s) = s /\ WaitDeadEnd(s) = s /\ NoChildren(s, forked) = s
BY DEF SmartShutdownEnds, StopBackends, WaitBackends, Shutdown2, WaitDeadEnd, NoChildren

\* The whole state machine: the invariant is kept, and what is started.
LEMMA StateMachine ==
    ASSUME NEW s, NEW k, Good(s, k), s.exit = "no", NEW forked, NEW t, t = PostmasterStateMachine(s, forked)
    PROVE  /\ Good(t, k) /\ ExitInv(t, k)
           /\ t.state = "STARTUP" => s.state = "STARTUP" \/ \A c \in Child : s.child[c] = "none"
           /\ SameChildren(s, t) \/ t.state = "STARTUP" \/ (t.state = "SHUTDOWN" /\ s.state # "SHUTDOWN")
           /\ t.type = s.type /\ t.shut = s.shut
<1> DEFINE a == SmartShutdownEnds(s)
           b == StopBackends(a)
           d == WaitBackends(b, forked)
           e == Shutdown2(d)
           f == WaitDeadEnd(e)
<1>1. Good(a, k) /\ Keeps(s, a)
  BY SmartShutdownEndsGood, SmartShutdownEndsKeeps DEF Good
<1> HIDE DEF a
<1>2. Good(b, k) /\ Keeps(s, b)
  BY <1>1, StopBackendsGood, StopBackendsKeeps, KeepsChain DEF Good
<1> HIDE DEF b
<1>3. /\ Good(d, k)
      /\ Keeps(b, d) \/ (b.state = "WAIT_BACKENDS" /\ d.state = "SHUTDOWN" /\ d.type = b.type /\ d.shut = b.shut /\ d.exit = b.exit /\ d \in PmRecord)
  BY <1>2, WaitBackendsGood, WaitBackendsKeeps DEF Good
<1> HIDE DEF d
<1>4. Good(e, k) /\ Keeps(d, e)
  BY <1>3, Shutdown2Good, Shutdown2Keeps DEF Good
<1> HIDE DEF e
<1>5. Good(f, k) /\ Keeps(d, f)
  BY <1>4, WaitDeadEndGood, WaitDeadEndKeeps, KeepsChain DEF Good
<1> HIDE DEF f
<1>6. f.exit = "no" /\ f.type = s.type /\ f.shut = s.shut
  BY <1>2, <1>3, <1>5 DEF Keeps
<1>7. t = NoChildren(f, forked)
  BY DEF PostmasterStateMachine, a, b, d, e, f
<1>8. Good(t, k) /\ ExitInv(t, k)
  BY <1>5, <1>6, <1>7, NoChildrenGood
<1>9. /\ t.type = f.type /\ t.shut = f.shut
      /\ \/ t.state = f.state /\ SameChildren(f, t)
         \/ t.state = "STARTUP" /\ \A c \in Child : f.child[c] = "none"
  BY <1>5, <1>7, NoChildrenKeeps
<1>10. CASE Keeps(b, d)
  <2>1. Keeps(s, f)
    BY <1>2, <1>5, <1>10, KeepsChain
  <2> QED
    BY <1>6, <1>8, <1>9, <2>1 DEF Keeps, SameChildren, Serving
<1>11. CASE b.state = "WAIT_BACKENDS" /\ d.state = "SHUTDOWN"
  <2>1. e = d /\ f = d /\ t = d
    <3>1. Shutdown2(d) = d /\ WaitDeadEnd(d) = d /\ NoChildren(d, forked) = d
      BY <1>11, ShutdownWaits
    <3> QED
      BY <1>7, <3>1 DEF e, f
  <2>2. s.state # "SHUTDOWN"
    <3>1. s.state = "SHUTDOWN" => b = s
      BY ShutdownWaits DEF a, b
    <3> QED
      BY <1>11, <3>1
  <2> QED
    BY <1>6, <1>8, <1>9, <1>11, <2>1, <2>2
<1> QED
  BY <1>3, <1>10, <1>11

-----------------------------------------------------------------------------
\* A shutdown request, before the state machine advances.
LEMMA TerminateEffect ==
    ASSUME NEW s \in PmRecord, NEW sig \in {"asked", "quit", "kill"}, NEW t, t = TerminateChildren(s, sig)
    PROVE  /\ t \in PmRecord /\ t.state = s.state /\ t.shut = s.shut /\ t.fatal = s.fatal
           /\ t.conns = s.conns /\ t.type = s.type /\ t.exit = s.exit
           /\ \A c \in Child : t.child[c] = s.child[c] \/ (s.child[c] \in Up /\ t.child[c] = sig)
           /\ sig = "asked" => t.child["checkpointer"] = s.child["checkpointer"]
           /\ sig # "asked" => t.child["checkpointer"] # "asked"
<1> DEFINE C == (IF sig = "asked" THEN Special \ {"checkpointer"} ELSE Special)
                  \union Backends(s, Type \ {"deadend"})
           u == Signalled(s, C, sig)
<1>1. t = [u EXCEPT !.startup = IF s.child["startup"] # "none" /\ sig # "asked" THEN "SIGNALED" ELSE u.startup]
  BY DEF TerminateChildren
<1>2. "checkpointer" \in Child /\ ("checkpointer" \in C <=> sig # "asked")
  BY Names DEF Backends
<1> HIDE DEF C
<1>3. /\ u \in PmRecord /\ u.state = s.state /\ u.shut = s.shut /\ u.fatal = s.fatal
      /\ u.startup = s.startup /\ u.conns = s.conns /\ u.type = s.type /\ u.exit = s.exit
      /\ \A c \in Child : u.child[c] = s.child[c] \/ (c \in C /\ s.child[c] \in Up /\ u.child[c] = sig)
      /\ \A c \in C \intersect Child : s.child[c] = "asked" /\ sig # "asked" => u.child[c] = sig
  BY SignalEffect
<1> HIDE DEF u
<1>4. /\ t \in PmRecord /\ t.state = s.state /\ t.shut = s.shut /\ t.fatal = s.fatal
      /\ t.conns = s.conns /\ t.type = s.type /\ t.exit = s.exit /\ t.child = u.child
  BY <1>1, <1>3 DEF PmRecord
<1> QED
  BY <1>2, <1>3, <1>4

LEMMA BeginShutdownGood ==
    ASSUME NEW s, NEW k, Good(s, k), NEW mode \in 1..3, s.shut < mode, NEW t, t = BeginShutdown(s, mode)
    PROVE  /\ Good(t, k) /\ t.exit = s.exit /\ SameChildren(s, t) /\ t.type = s.type
           /\ t.shut = mode /\ t.state # "STARTUP"
           /\ mode < 3 /\ s.state \notin Serving => t.state = s.state
<1> USE DEF SmartShutdown, FastShutdown, ImmediateShutdown
<1> s \in PmRecord /\ s.shut \in 0..3
  BY DEF Good, PmRecord
<1>1. CASE mode \in {1, 2}
  <2> DEFINE r == [s EXCEPT !.shut = mode]
             starting == s.state \in {"STARTUP", "RECOVERY"}
             serving == s.state \in {"RUN", "HOT_STANDBY"}
  <2>0. /\ r \in PmRecord /\ r.shut = mode /\ r.fatal = s.fatal /\ r.conns = s.conns /\ r.state = s.state
        /\ r.child = s.child /\ r.type = s.type /\ r.exit = s.exit
    BY DEF PmRecord
  <2>1. \/ t = [r EXCEPT !.conns = IF serving THEN FALSE ELSE r.conns,
                       !.state = IF starting THEN "STOP_BACKENDS" ELSE r.state]
        \/ t = [r EXCEPT !.state = IF starting \/ serving THEN "STOP_BACKENDS" ELSE r.state]
    BY <1>1 DEF BeginShutdown
  <2> HIDE DEF r
  <2>6. s.state \in PMState
    BY DEF PmRecord
  <2>2. /\ t \in PmRecord /\ t.shut = mode /\ t.fatal = s.fatal /\ t.child = s.child /\ t.type = s.type /\ t.exit = s.exit
        /\ t.state = s.state \/ (s.state \in Serving /\ t.state = "STOP_BACKENDS")
        /\ t.state # "STARTUP"
    <3>1. CASE t = [r EXCEPT !.conns = IF serving THEN FALSE ELSE r.conns,
                       !.state = IF starting THEN "STOP_BACKENDS" ELSE r.state]
      <4> DEFINE w == IF starting THEN "STOP_BACKENDS" ELSE r.state
                 b == IF serving THEN FALSE ELSE r.conns
      <4>1. w \in PMState /\ b \in BOOLEAN
        BY <2>0, <2>6 DEF PmRecord, PMState
      <4>2. w # "STARTUP" /\ (w = s.state \/ (s.state \in Serving /\ w = "STOP_BACKENDS"))
        BY <2>0 DEF Serving
      <4>3. t = [r EXCEPT !.conns = b, !.state = w]
        BY <3>1
      <4> HIDE DEF w, b
      <4>4. t \in PmRecord
        BY <2>0, <4>1, <4>3 DEF PmRecord
      <4>5. t.state = w /\ t.shut = r.shut /\ t.fatal = r.fatal /\ t.child = r.child /\ t.type = r.type /\ t.exit = r.exit
        BY <2>0, <4>3 DEF PmRecord
      <4> QED
        BY <2>0, <4>2, <4>4, <4>5
    <3>2. CASE t = [r EXCEPT !.state = IF starting \/ serving THEN "STOP_BACKENDS" ELSE r.state]
      BY <3>2, <2>0, <2>6 DEF PmRecord, PMState, Serving
    <3> QED
      BY <2>1, <3>1, <3>2
  <2>3. ChildInv(t)
    BY <2>2 DEF Good, ChildInv, Drained, WritersGone, Serving
  <2>4. WhyInv(t) /\ ShutInv(t)
    BY <1>1, <2>2 DEF Good, WhyInv, ShutInv
  <2>5. CkptInv(t, k)
    BY <1>1, <2>2 DEF Good, CkptInv, Drained, WritersGone, Serving
  <2> QED
    BY <2>2, <2>3, <2>4, <2>5 DEF Good, SameChildren, Serving
<1>2. CASE mode = 3
  <2> DEFINE r == [s EXCEPT !.shut = 3]
             u == TerminateChildren(r, "quit")
  <2>1. t = [u EXCEPT !.state = "WAIT_BACKENDS", !.clock = TRUE]
    BY <1>2 DEF BeginShutdown, Stopwatch
  <2>2. r \in PmRecord /\ r.shut = 3 /\ r.fatal = s.fatal /\ r.conns = s.conns /\ r.child = s.child
        /\ r.type = s.type /\ r.exit = s.exit
    BY DEF PmRecord
  <2> HIDE DEF r
  <2>3. /\ u \in PmRecord /\ u.shut = 3 /\ u.fatal = s.fatal /\ u.conns = s.conns
        /\ u.type = s.type /\ u.exit = s.exit
        /\ \A c \in Child : u.child[c] = s.child[c] \/ (s.child[c] \in Up /\ u.child[c] = "quit")
        /\ u.child["checkpointer"] # "asked"
    BY <2>2, TerminateEffect
  <2> HIDE DEF u
  <2>4. /\ t \in PmRecord /\ t.shut = 3 /\ t.fatal = s.fatal /\ t.conns = s.conns
        /\ t.type = s.type /\ t.exit = s.exit /\ t.child = u.child /\ t.state = "WAIT_BACKENDS"
    <3>1. "WAIT_BACKENDS" \in PMState
      BY DEF PMState
    <3>2. t \in PmRecord
      BY <2>1, <2>3, <3>1 DEF PmRecord
    <3>3. /\ t.state = "WAIT_BACKENDS" /\ t.shut = u.shut /\ t.fatal = u.fatal
          /\ t.conns = u.conns /\ t.child = u.child /\ t.type = u.type /\ t.exit = u.exit
      BY <2>1, <2>3 DEF PmRecord
    <3> QED
      BY <2>3, <3>2, <3>3
  <2>5. SameChildren(s, t)
    BY <2>3, <2>4 DEF SameChildren, Up
  <2>6. k => t.child["checkpointer"] = s.child["checkpointer"]
    BY <2>3, <2>4, Names DEF Good, CkptInv, Zombie, Up
  <2>7. t.child["checkpointer"] = "exit0" => s.child["checkpointer"] = "exit0"
    BY <2>3, <2>4, Names
  <2>8. WritersGone(s) => WritersGone(t)
    BY <2>4, <2>5, Names DEF SameChildren, WritersGone
  <2>9. Good(t, k)
    BY <2>3, <2>4, <2>6, <2>7, <2>8 DEF Good, ChildInv, WhyInv, ShutInv, CkptInv, Drained
  <2> QED
    BY <1>2, <2>4, <2>5, <2>9
<1> QED
  BY <1>1, <1>2

-----------------------------------------------------------------------------
\* The reaper.
LEMMA ForgetEffect ==
    ASSUME NEW s \in PmRecord, NEW c \in Child, NEW t, t = Forget(s, c)
    PROVE  /\ t \in PmRecord /\ t.state = s.state /\ t.shut = s.shut /\ t.fatal = s.fatal
           /\ t.startup = s.startup /\ t.conns = s.conns /\ t.exit = s.exit
           /\ \A d \in Child : t.child[d] = IF d = c THEN "none" ELSE s.child[d]
           /\ \A d \in Slot : d # c => t.type[d] = s.type[d]
BY DEF Forget, PmRecord, Type

\* What reaping may do to the set of children.
Shrinks(s, t) ==
    /\ \A c \in Child : s.child[c] = "none" => t.child[c] = "none"
    /\ t.state = "STARTUP" => s.state = "STARTUP"

LEMMA CrashEffect ==
    ASSUME NEW s \in PmRecord, NEW c \in Child, NEW t, t = HandleChildCrash(s, c)
    PROVE  /\ t \in PmRecord /\ t.shut = s.shut /\ t.conns = s.conns /\ t.exit = s.exit
           /\ t.fatal = (s.fatal \/ s.shut # 3)
           /\ t.state = IF s.state \in WaitsAfterCrash THEN "WAIT_BACKENDS" ELSE s.state
           /\ t.child[c] = "none"
           /\ \A d \in Child : d # c => t.child[d] = s.child[d] \/ (s.child[d] \in Up /\ t.child[d] = "quit")
           /\ ~s.fatal /\ s.shut # 3 => \A d \in Child : t.child[d] # "asked"
           /\ \A d \in Slot : d # c => t.type[d] = s.type[d]
<1> DEFINE act == ~s.fatal /\ s.shut # 3
           u == IF act THEN Signalled(s, Child \ {c}, "quit") ELSE s
           v == Forget(u, c)
<1>1. t = [v EXCEPT !.startup = IF act /\ c # "startup" /\ s.child["startup"] # "none"
                                THEN "SIGNALED" ELSE v.startup,
                    !.fatal = v.fatal \/ s.shut # 3,
                    !.state = IF v.state \in WaitsAfterCrash THEN "WAIT_BACKENDS" ELSE v.state,
                    !.clock = TRUE]
  BY DEF HandleChildCrash, ToQuit, CrashClock, ImmediateShutdown
<1>2. /\ u \in PmRecord /\ u.state = s.state /\ u.shut = s.shut /\ u.fatal = s.fatal
      /\ u.startup = s.startup /\ u.conns = s.conns /\ u.type = s.type /\ u.exit = s.exit
      /\ \A d \in Child : u.child[d] = s.child[d] \/ (s.child[d] \in Up /\ u.child[d] = "quit")
      /\ act => \A d \in Child \ {c} : u.child[d] # "asked"
  <2>1. CASE act
    <3> DEFINE w == Signalled(s, Child \ {c}, "quit")
    <3>1. u = w
      BY <2>1
    <3> HIDE DEF u
    <3>2. /\ w \in PmRecord /\ w.state = s.state /\ w.shut = s.shut /\ w.fatal = s.fatal
          /\ w.startup = s.startup /\ w.conns = s.conns /\ w.type = s.type /\ w.exit = s.exit
          /\ \A d \in Child : w.child[d] = s.child[d] \/ (d \in Child \ {c} /\ s.child[d] \in Up /\ w.child[d] = "quit")
          /\ \A d \in (Child \ {c}) \intersect Child : s.child[d] = "asked" => w.child[d] = "quit"
      BY SignalEffect
    <3> HIDE DEF w
    <3> QED
      BY <3>1, <3>2
  <2>2. CASE ~act
    BY <2>2
  <2> QED
    BY <2>1, <2>2
<1> HIDE DEF u
<1>3. /\ v \in PmRecord /\ v.state = s.state /\ v.shut = s.shut /\ v.fatal = s.fatal
      /\ v.startup = s.startup /\ v.conns = s.conns /\ v.exit = s.exit
      /\ \A d \in Child : v.child[d] = IF d = c THEN "none" ELSE u.child[d]
      /\ \A d \in Slot : d # c => v.type[d] = s.type[d]
  BY <1>2, ForgetEffect
<1> HIDE DEF v
<1>4. /\ t \in PmRecord /\ t.shut = s.shut /\ t.conns = s.conns /\ t.exit = s.exit
      /\ t.fatal = (v.fatal \/ s.shut # 3)
      /\ t.state = IF v.state \in WaitsAfterCrash THEN "WAIT_BACKENDS" ELSE v.state
      /\ t.child = v.child /\ t.type = v.type
  <2> DEFINE w == IF v.state \in WaitsAfterCrash THEN "WAIT_BACKENDS" ELSE v.state
             x == IF act /\ c # "startup" /\ s.child["startup"] # "none" THEN "SIGNALED" ELSE v.startup
             b == v.fatal \/ s.shut # 3
  <2>1. w \in PMState
    BY <1>3 DEF PmRecord, PMState
  <2>2. x \in {"NOT_RUNNING", "RUNNING", "SIGNALED", "CRASHED"} /\ b \in BOOLEAN
    BY <1>3 DEF PmRecord
  <2>3. t = [v EXCEPT !.startup = x, !.fatal = b, !.state = w, !.clock = TRUE]
    BY <1>1
  <2> HIDE DEF w, x, b
  <2>4. t \in PmRecord
    BY <1>3, <2>1, <2>2, <2>3 DEF PmRecord
  <2>5. /\ t.shut = v.shut /\ t.conns = v.conns /\ t.exit = v.exit /\ t.fatal = b /\ t.state = w
        /\ t.child = v.child /\ t.type = v.type
    BY <1>3, <2>3 DEF PmRecord
  <2> QED
    BY <1>3, <2>4, <2>5 DEF w, b
<1> QED
  BY <1>2, <1>3, <1>4

\* A crash leaves a state in which all children are waited for.
LEMMA CrashGood ==
    ASSUME NEW s \in PmRecord, NEW k, ChildInv(s), ShutInv(s), CkptInv(s, k), NEW c \in Child,
           NEW t, t = HandleChildCrash(s, c)
    PROVE  Good(t, k) /\ t.exit = s.exit /\ Shrinks(s, t)
<1>1. /\ t \in PmRecord /\ t.shut = s.shut /\ t.conns = s.conns /\ t.exit = s.exit
      /\ t.fatal = (s.fatal \/ s.shut # 3)
      /\ t.state = IF s.state \in WaitsAfterCrash THEN "WAIT_BACKENDS" ELSE s.state
      /\ t.child[c] = "none"
      /\ \A d \in Child : d # c => t.child[d] = s.child[d] \/ (s.child[d] \in Up /\ t.child[d] = "quit")
      /\ ~s.fatal /\ s.shut # 3 => \A d \in Child : t.child[d] # "asked"
      /\ \A d \in Slot : d # c => t.type[d] = s.type[d]
  BY CrashEffect
<1>2. s.shut \in 0..3 /\ s.state \in PMState /\ s.fatal \in BOOLEAN
  BY DEF PmRecord
<1>3. \A d \in Child : s.child[d] = "none" => t.child[d] = "none"
  BY <1>1 DEF Up
<1>4. WritersGone(s) => WritersGone(t)
  BY <1>1, <1>3, Names DEF WritersGone
<1>5. t.child["checkpointer"] = "asked" => FALSE
  <2>1. t.child["checkpointer"] = "asked" => s.child["checkpointer"] = "asked"
    BY <1>1, Names
  <2>2. s.child["checkpointer"] = "asked" => ~s.fatal /\ s.shut # 3
    BY <1>2 DEF ChildInv, ShutInv
  <2> QED
    BY <1>1, <2>1, <2>2, Names
<1>6. ChildInv(t)
  BY <1>1, <1>3, <1>4, <1>5, Names DEF ChildInv, Drained, WaitsAfterCrash
<1>7. WhyInv(t) /\ ShutInv(t)
  <2>1. t.state \notin {"RECOVERY", "HOT_STANDBY", "RUN", "SHUTDOWN"}
    BY <1>1 DEF WaitsAfterCrash
  <2>2. t.state = "SHUTDOWN_2" => s.state = "SHUTDOWN_2"
    BY <1>1
  <2>3. t.fatal \/ t.shut > 0
    <3>1. CASE s.shut = 3
      BY <1>1, <3>1
    <3>2. CASE s.shut # 3
      BY <1>1, <3>2, Zenon
    <3> QED
      BY <3>1, <3>2
  <2> QED
    BY <1>1, <2>1, <2>2, <2>3 DEF WhyInv, ShutInv
<1>8. CkptInv(t, k)
  <2>1. t.child["checkpointer"] = "exit0" => s.child["checkpointer"] = "exit0"
    BY <1>1, Names
  <2>2. k => t.child["checkpointer"] \in {"none"} \union Zombie
    BY <1>1, Names DEF CkptInv, Zombie, Up
  <2> QED
    BY <1>1, <1>2, <1>4, <2>1, <2>2 DEF CkptInv, WaitsAfterCrash, Drained
<1> QED
  BY <1>1, <1>3, <1>6, <1>7, <1>8 DEF Good, Shrinks, WaitsAfterCrash

\* The startup process can be reaped only before the checkpoint.
LEMMA StartupEarly ==
    ASSUME NEW s, NEW k, Good(s, k), s.child["startup"] # "none"
    PROVE  s.state \notin Drained /\ ~k /\ s.child["checkpointer"] # "asked"
BY Names DEF Good, ChildInv, CkptInv, WritersGone, Drained

LEMMA ReapStartupGood ==
    ASSUME NEW s, NEW k, Good(s, k), s.exit = "no", NEW status, s.child["startup"] \in Zombie,
           NEW t, t = ReapStartup(s, status)
    PROVE  Good(t, k) /\ t.exit # "ok" /\ Shrinks(s, t)
<1> DEFINE u == Forget(s, "startup")
           failed == status # "exit0"
<1>0. s.state \notin Drained /\ ~k /\ s.child["checkpointer"] # "asked" /\ s \in PmRecord
      /\ s.shut \in 0..3 /\ s.child["checkpointer"] # "exit0"
  BY StartupEarly DEF Good, Zombie, PmRecord, CkptInv
<1>1. /\ u \in PmRecord /\ u.state = s.state /\ u.shut = s.shut /\ u.fatal = s.fatal
      /\ u.startup = s.startup /\ u.conns = s.conns /\ u.exit = s.exit
      /\ \A d \in Child : u.child[d] = IF d = "startup" THEN "none" ELSE s.child[d]
  BY <1>0, ForgetEffect, Names
<1>2. CASE s.shut > NoShutdown /\ status \in {"exit0", "exit1"}
  <2>1. t = [u EXCEPT !.startup = "NOT_RUNNING", !.state = "WAIT_BACKENDS"]
    BY <1>2 DEF ReapStartup
  <2> HIDE DEF u
  <2>2. /\ t \in PmRecord /\ t.state = "WAIT_BACKENDS" /\ t.shut = u.shut /\ t.fatal = u.fatal
        /\ t.conns = u.conns /\ t.exit = u.exit /\ t.child = u.child
    BY <1>1, <2>1 DEF PmRecord, PMState
  <2> QED
    BY <1>0, <1>1, <1>2, <2>2, Names DEF Good, ChildInv, WhyInv, ShutInv, CkptInv, Drained, Shrinks, NoShutdown
<1>3. CASE ~(s.shut > NoShutdown /\ status \in {"exit0", "exit1"}) /\ status = "exit3"
  <2> DEFINE v == [u EXCEPT !.startup = "NOT_RUNNING", !.shut = AtLeastSmart(u.shut)]
             w == TerminateChildren(v, "asked")
  <2>1. t = [w EXCEPT !.state = "WAIT_BACKENDS"]
    BY <1>3 DEF ReapStartup
  <2> HIDE DEF u
  <2>2. /\ v \in PmRecord /\ v.shut > 0 /\ v.fatal = u.fatal
        /\ v.conns = u.conns /\ v.exit = u.exit /\ v.child = u.child
    <3> DEFINE m == AtLeastSmart(u.shut)
    <3>1. m \in 0..3 /\ m > 0
      BY <1>0, <1>1 DEF AtLeastSmart, SmartShutdown, NoShutdown
    <3>2. v = [u EXCEPT !.startup = "NOT_RUNNING", !.shut = m]
      OBVIOUS
    <3> HIDE DEF m, v
    <3> QED
      BY <1>1, <3>1, <3>2 DEF PmRecord
  <2> HIDE DEF v
  <2>3. /\ w \in PmRecord /\ w.shut > 0 /\ w.fatal = u.fatal /\ w.conns = u.conns /\ w.exit = u.exit
        /\ \A d \in Child : w.child[d] = u.child[d] \/ (u.child[d] \in Up /\ w.child[d] = "asked")
        /\ w.child["checkpointer"] = u.child["checkpointer"]
    BY <2>2, TerminateEffect
  <2> HIDE DEF w
  <2>4. /\ t \in PmRecord /\ t.state = "WAIT_BACKENDS" /\ t.shut = w.shut /\ t.fatal = w.fatal
        /\ t.conns = w.conns /\ t.exit = w.exit /\ t.child = w.child
    BY <2>1, <2>3 DEF PmRecord, PMState
  <2>5. Shrinks(s, t)
    BY <1>1, <2>3, <2>4 DEF Shrinks, Up
  <2>6. t.child["checkpointer"] = s.child["checkpointer"]
    BY <1>1, <2>3, <2>4, Names
  <2> QED
    BY <1>0, <1>1, <2>3, <2>4, <2>5, <2>6 DEF Good, ChildInv, WhyInv, ShutInv, CkptInv, Drained
<1>4. CASE ~(s.shut > NoShutdown /\ status \in {"exit0", "exit1"}) /\ status # "exit3"
  <2>1. CASE failed /\ s.state = "STARTUP" /\ s.startup # "SIGNALED"
    <3>1. t = [u EXCEPT !.exit = "failed"]
      BY <1>4, <2>1 DEF ReapStartup, ExitPostmaster
    <3> HIDE DEF u
    <3>2. /\ t \in PmRecord /\ t.state = u.state /\ t.shut = u.shut /\ t.fatal = u.fatal
          /\ t.conns = u.conns /\ t.exit = "failed" /\ t.child = u.child
      BY <1>1, <3>1 DEF PmRecord
    <3> QED
      BY <1>0, <1>1, <2>1, <3>2, Names DEF Good, ChildInv, WhyInv, ShutInv, CkptInv, Drained, Shrinks
  <2>2. CASE failed /\ ~(s.state = "STARTUP" /\ s.startup # "SIGNALED")
    <3> DEFINE x == IF u.startup = "SIGNALED" THEN "NOT_RUNNING" ELSE "CRASHED"
               y == IF u.state = "STARTUP" /\ s.startup = "SIGNALED" THEN "WAIT_BACKENDS" ELSE u.state
               v == [u EXCEPT !.startup = x, !.state = y]
    <3>1. t = HandleChildCrash(v, "startup")
      BY <1>4, <2>2 DEF ReapStartup
    <3> HIDE DEF u
    <3>2. /\ x \in {"NOT_RUNNING", "CRASHED"} /\ y \in PMState
          /\ y = s.state \/ y = "WAIT_BACKENDS"
      BY <1>1 DEF PmRecord, PMState
    <3> HIDE DEF x, y
    <3>3. /\ v \in PmRecord /\ v.state = y /\ v.shut = u.shut /\ v.fatal = u.fatal
          /\ v.conns = u.conns /\ v.exit = u.exit /\ v.child = u.child
      BY <1>1, <3>2 DEF PmRecord
    <3> HIDE DEF v
    <3>4. ChildInv(v) /\ ShutInv(v) /\ CkptInv(v, k) /\ Shrinks(s, v)
      BY <1>0, <1>1, <3>2, <3>3, Names DEF Good, ChildInv, ShutInv, CkptInv, Drained, Shrinks
    <3>5. Good(t, k) /\ t.exit = v.exit /\ Shrinks(v, t)
      BY <3>1, <3>3, <3>4, CrashGood, Names
    <3> QED
      BY <1>1, <3>3, <3>4, <3>5 DEF Shrinks
  <2>3. CASE ~failed
    <3>1. t = [u EXCEPT !.startup = "NOT_RUNNING", !.fatal = FALSE, !.clock = FALSE, !.state = "RUN", !.conns = TRUE]
      BY <1>4, <2>3 DEF ReapStartup
    <3> HIDE DEF u
    <3>2. t \in PmRecord
      BY <1>1, <3>1 DEF PmRecord, PMState
    <3>3. t.state = "RUN" /\ t.fatal = FALSE /\ t.conns = TRUE /\ t.exit = u.exit /\ t.child = u.child
      BY <1>1, <3>1 DEF PmRecord
    <3> QED
      BY <1>0, <1>1, <3>2, <3>3, Names DEF Good, ChildInv, WhyInv, ShutInv, CkptInv, Drained, Shrinks
  <2> QED
    BY <2>1, <2>2, <2>3
<1> QED
  BY <1>2, <1>3, <1>4

LEMMA ReapCheckpointerGood ==
    ASSUME NEW s, NEW k, Good(s, k), s.child["checkpointer"] \in Zombie,
           NEW t, t = ReapCheckpointer(s, s.child["checkpointer"])
    PROVE  Good(t, k) /\ t.exit = s.exit /\ Shrinks(s, t)
<1> DEFINE u == Forget(s, "checkpointer")
           C == (Special \intersect {"archiver"}) \union Backends(s, Type \ {"deadend"})
           v == Signalled(u, C, "asked")
<1>0. s \in PmRecord
  BY DEF Good
<1>1. CASE s.child["checkpointer"] = "exit0" /\ s.state = "SHUTDOWN"
  <2>1. t = [v EXCEPT !.state = "SHUTDOWN_2"]
    BY <1>1 DEF ReapCheckpointer, CheckpointDone
  <2>2. /\ u \in PmRecord /\ u.shut = s.shut /\ u.fatal = s.fatal /\ u.conns = s.conns /\ u.exit = s.exit
        /\ \A d \in Child : u.child[d] = IF d = "checkpointer" THEN "none" ELSE s.child[d]
        /\ \A d \in Slot : d # "checkpointer" => u.type[d] = s.type[d]
    BY <1>0, ForgetEffect, Names
  <2> HIDE DEF u
  <2> HIDE DEF C
  <2>3. /\ v \in PmRecord /\ v.shut = u.shut /\ v.fatal = u.fatal /\ v.conns = u.conns /\ v.exit = u.exit
        /\ v.type = u.type
        /\ \A d \in Child : v.child[d] = u.child[d] \/ (u.child[d] \in Up /\ v.child[d] = "asked")
    BY <2>2, SignalEffect
  <2> HIDE DEF v
  <2>4. /\ t \in PmRecord /\ t.state = "SHUTDOWN_2" /\ t.shut = v.shut /\ t.fatal = v.fatal
        /\ t.conns = v.conns /\ t.exit = v.exit /\ t.type = v.type /\ t.child = v.child
    BY <2>1, <2>3 DEF PmRecord, PMState
  <2>5. \A d \in Child : s.child[d] = "none" => t.child[d] = "none"
    BY <2>2, <2>3, <2>4 DEF Up
  <2>6. t.child["checkpointer"] = "none"
    BY <2>2, <2>3, <2>4, Names DEF Up
  <2>7. WritersGone(t)
    <3>1. WritersGone(s)
      BY <1>1 DEF Good, ChildInv, Drained
    <3>2. \A d \in Slot : t.child[d] # "none" => s.child[d] # "none" /\ t.type[d] = s.type[d]
      BY <2>2, <2>3, <2>4, <2>5, Names
    <3> QED
      BY <2>5, <3>1, <3>2, Names DEF WritersGone
  <2>8. k
    BY <1>1 DEF Good, CkptInv
  <2>9. ChildInv(t) /\ WhyInv(t) /\ ShutInv(t)
    BY <1>1, <2>2, <2>3, <2>4, <2>6, <2>7 DEF Good, ChildInv, WhyInv, ShutInv, Drained
  <2>10. CkptInv(t, k)
    BY <1>1, <2>2, <2>3, <2>4, <2>6, <2>7, <2>8 DEF Good, ShutInv, CkptInv, Drained
  <2> QED
    BY <2>2, <2>3, <2>4, <2>5, <2>9, <2>10 DEF Good, Shrinks
<1>2. CASE ~(s.child["checkpointer"] = "exit0" /\ s.state = "SHUTDOWN")
  <2>1. t = HandleChildCrash(s, "checkpointer")
    BY <1>2 DEF ReapCheckpointer, CheckpointDone
  <2> QED
    BY <1>0, <2>1, CrashGood, Names DEF Good
<1> QED
  BY <1>1, <1>2

LEMMA ForgetGood ==
    ASSUME NEW s, NEW k, Good(s, k), NEW c \in Child, NEW t, t = Forget(s, c)
    PROVE  Good(t, k) /\ t.exit = s.exit /\ Shrinks(s, t)
<1>0. s \in PmRecord
  BY DEF Good
<1>1. /\ t \in PmRecord /\ t.state = s.state /\ t.shut = s.shut /\ t.fatal = s.fatal
      /\ t.conns = s.conns /\ t.exit = s.exit
      /\ \A d \in Child : t.child[d] = IF d = c THEN "none" ELSE s.child[d]
      /\ \A d \in Slot : d # c => t.type[d] = s.type[d]
  BY <1>0, ForgetEffect
<1>2. WritersGone(s) => WritersGone(t)
  BY <1>1, Names DEF WritersGone
<1>3. ChildInv(t)
  BY <1>1, <1>2, Names DEF Good, ChildInv
<1>4. WhyInv(t) /\ ShutInv(t)
  BY <1>1 DEF Good, WhyInv, ShutInv
<1>5. CkptInv(t, k)
  BY <1>1, <1>2, Names DEF Good, CkptInv
<1> QED
  BY <1>1, <1>3, <1>4, <1>5 DEF Good, Shrinks

\* One turn of the waitpid loop.
LEMMA ReapedGood ==
    ASSUME NEW s, NEW k, Good(s, k), s.exit = "no", NEW c \in Child, s.child[c] \in Zombie,
           NEW t, t = Reaped(s, c)
    PROVE  Good(t, k) /\ t.exit # "ok" /\ Shrinks(s, t)
<1>1. CASE c = "startup"
  <2>1. t = ReapStartup(s, s.child[c])
    BY <1>1 DEF Reaped
  <2> QED
    BY <1>1, <2>1, ReapStartupGood
<1>2. CASE c = "checkpointer"
  <2>1. t = ReapCheckpointer(s, s.child["checkpointer"])
    BY <1>2 DEF Reaped
  <2> QED
    BY <1>2, <2>1, ReapCheckpointerGood
<1>3. CASE c # "startup" /\ c # "checkpointer"
  <2>1. t = Forget(s, c) \/ t = HandleChildCrash(s, c)
    BY <1>3 DEF Reaped
  <2> QED
    BY <2>1, ForgetGood, CrashGood DEF Good
<1> QED
  BY <1>1, <1>2, <1>3

-----------------------------------------------------------------------------
\* Children are started only while the server comes up or runs.
LEMMA StartsWhenServing ==
    ASSUME NEW s, NEW c \in Missing(s)
    PROVE  /\ c \in Special /\ s.child[c] = "none" /\ s.state \in Serving /\ c # "startup"
           /\ c = "archiver" => s.state # "STARTUP"
<1>1. c \in Special /\ s.child[c] = "none" /\ MayStart(s, c)
  BY DEF Missing
<1>2. MayStart(s, c) => s.state \in Serving /\ c # "startup" /\ (c = "archiver" => s.state # "STARTUP")
  BY DEF MayStart, Serving
<1> QED
  BY <1>1, <1>2

LEMMA StartedGood ==
    ASSUME NEW s, NEW k, Good(s, k), NEW C \in SUBSET Missing(s), NEW t, t = Started(s, C)
    PROVE  /\ Good(t, k) /\ t.exit = s.exit /\ t.state = s.state /\ t.type = s.type
           /\ s.state \notin Serving => SameChildren(s, t)
<1>0. s \in PmRecord
  BY DEF Good
<1>1. /\ t \in PmRecord /\ t.state = s.state /\ t.shut = s.shut /\ t.fatal = s.fatal
      /\ t.conns = s.conns /\ t.type = s.type /\ t.exit = s.exit
      /\ \A c \in Child : t.child[c] = IF c \in C THEN "up" ELSE s.child[c]
  BY <1>0, StartEffect
<1>2. CASE C = {}
  BY <1>1, <1>2, Names DEF Good, ChildInv, WhyInv, ShutInv, CkptInv, WritersGone, SameChildren
<1>3. CASE C # {}
  <2>1. s.state \in Serving
    BY <1>3, StartsWhenServing
  <2>2. "archiver" \in C => s.state # "STARTUP"
    BY StartsWhenServing
  <2>3. t.child["checkpointer"] \in {"up", s.child["checkpointer"]}
    BY <1>1, Names
  <2>4. "archiver" \in Special => t.child["archiver"] = s.child["archiver"] \/ "archiver" \in C
    BY <1>1, Names
  <2>5. ~k
    BY <2>1 DEF Good, CkptInv, Drained, Serving
  <2> QED
    BY <1>1, <2>1, <2>2, <2>3, <2>4, <2>5 DEF Good, ChildInv, WhyInv, ShutInv, CkptInv, Drained, Serving
<1> QED
  BY <1>2, <1>3

-----------------------------------------------------------------------------
\* What the two action properties ask of a step.
Allowed(s, t) ==
    /\ s.state # "STARTUP" /\ t.state = "STARTUP" => \A c \in Child : s.child[c] = "none"
    /\ s.state \notin Serving /\ t.state = s.state =>
          \A c \in Child : s.child[c] = "none" /\ t.child[c] # "none" => c \in Slot /\ t.type[c] = "deadend"

LEMMA ShutdownRequestStep ==
    ASSUME PostmasterInv, NEW mode \in 1..3, ProcessShutdownRequest(mode)
    PROVE  PostmasterInv' /\ Allowed(pm, pm')
<1>1. PICK forked \in BOOLEAN : pm' = PostmasterStateMachine(BeginShutdown(pm, mode), forked)
  BY DEF ProcessShutdownRequest
<1> DEFINE b == BeginShutdown(pm, mode)
<1>2. pm.exit = "no" /\ pm.shut < mode /\ ckpt' = ckpt
  BY DEF ProcessShutdownRequest, Running
<1>3. /\ Good(b, ckpt) /\ b.exit = pm.exit /\ SameChildren(pm, b)
      /\ b.shut = mode /\ b.state # "STARTUP"
      /\ mode < 3 /\ pm.state \notin Serving => b.state = pm.state
  BY <1>2, BeginShutdownGood DEF PostmasterInv
<1>4. pm' = PostmasterStateMachine(b, forked)
  BY <1>1
<1> HIDE DEF b
<1>5. /\ Good(pm', ckpt) /\ ExitInv(pm', ckpt)
      /\ pm'.state = "STARTUP" => b.state = "STARTUP" \/ \A c \in Child : b.child[c] = "none"
      /\ SameChildren(b, pm') \/ pm'.state = "STARTUP" \/ (pm'.state = "SHUTDOWN" /\ b.state # "SHUTDOWN")
      /\ pm'.shut = b.shut
  BY <1>2, <1>3, <1>4, StateMachine
<1>6. pm'.state = "SHUTDOWN" => mode < 3
  BY <1>3, <1>5 DEF Good, ShutInv
<1>7. Allowed(pm, pm')
  BY <1>3, <1>5, <1>6 DEF Allowed, SameChildren, Serving
<1>8. PostmasterInv'
  BY <1>2, <1>5 DEF PostmasterInv
<1> QED
  BY <1>7, <1>8

LEMMA ReapChildStep ==
    ASSUME PostmasterInv, NEW c \in Child, ReapChild(c)
    PROVE  PostmasterInv' /\ Allowed(pm, pm')
<1> DEFINE s == Reaped(pm, c)
<1>1. pm.exit = "no" /\ pm.child[c] \in Zombie /\ ckpt' = ckpt
  BY DEF ReapChild, Running
<1>2. PICK C \in SUBSET Successors(s, c) : pm' = Started(s, C)
  BY DEF ReapChild
<1>3. Good(s, ckpt) /\ s.exit # "ok" /\ Shrinks(pm, s)
  BY <1>1, ReapedGood DEF PostmasterInv
<1> HIDE DEF s
<1>4. Successors(s, c) \subseteq Missing(s)
  BY DEF Successors
<1>5. /\ Good(pm', ckpt) /\ pm'.exit = s.exit /\ pm'.state = s.state
      /\ s.state \notin Serving => SameChildren(s, pm')
  BY <1>2, <1>3, <1>4, StartedGood
<1>6. Allowed(pm, pm')
  BY <1>3, <1>5 DEF Allowed, SameChildren, Shrinks
<1> QED
  BY <1>1, <1>3, <1>5, <1>6 DEF PostmasterInv, ExitInv

LEMMA EndReapingStep ==
    ASSUME PostmasterInv, EndReaping
    PROVE  PostmasterInv' /\ Allowed(pm, pm')
<1>1. PICK forked \in BOOLEAN : pm' = PostmasterStateMachine(pm, forked)
  BY DEF EndReaping
<1>2. pm.exit = "no" /\ ckpt' = ckpt
  BY DEF EndReaping, Running
<1>3. /\ Good(pm', ckpt) /\ ExitInv(pm', ckpt)
      /\ pm'.state = "STARTUP" => pm.state = "STARTUP" \/ \A c \in Child : pm.child[c] = "none"
      /\ SameChildren(pm, pm') \/ pm'.state = "STARTUP" \/ (pm'.state = "SHUTDOWN" /\ pm.state # "SHUTDOWN")
  BY <1>1, <1>2, StateMachine DEF PostmasterInv
<1>4. Allowed(pm, pm')
  BY <1>3 DEF Allowed, SameChildren, Serving
<1> QED
  BY <1>2, <1>3, <1>4 DEF PostmasterInv

\* The startup process has reported that redo began, or that the data is consistent.
LEMMA RecoveryGood ==
    ASSUME NEW k, Good(pm, k), NEW t, t = BeginHotStandby(RecoveryStarted(pm))
    PROVE  /\ Good(t, k) /\ t.exit = pm.exit /\ t.child = pm.child /\ t.type = pm.type
           /\ t.state = "STARTUP" => pm.state = "STARTUP"
           /\ pm.state \notin Serving => t = pm
           /\ pm.state \in Serving => t.state \in Serving
<1> DEFINE u == RecoveryStarted(pm)
<1>0. pm \in PmRecord
  BY DEF Good
<1>1. /\ Good(u, k) /\ u.exit = pm.exit /\ u.child = pm.child /\ u.type = pm.type
      /\ u.state = "STARTUP" => pm.state = "STARTUP"
      /\ pm.state \notin Serving => u = pm
      /\ pm.state \in Serving => u.state \in Serving
  <2>1. CASE u = pm
    BY <2>1
  <2>2. CASE pm.state = "STARTUP" /\ pm.shut = 0 /\ u = [pm EXCEPT !.fatal = FALSE, !.clock = FALSE, !.state = "RECOVERY"]
    <3>1. u \in PmRecord
      BY <1>0, <2>2 DEF PmRecord, PMState
    <3>2. /\ u.state = "RECOVERY" /\ u.fatal = FALSE /\ u.shut = pm.shut /\ u.conns = pm.conns
          /\ u.exit = pm.exit /\ u.child = pm.child /\ u.type = pm.type
      BY <1>0, <2>2 DEF PmRecord
    <3> QED
      BY <2>2, <3>1, <3>2 DEF Good, ChildInv, WhyInv, ShutInv, CkptInv, Drained, Serving
  <2> QED
    BY <2>1, <2>2 DEF RecoveryStarted, NoShutdown
<1>2. t = BeginHotStandby(u)
  OBVIOUS
<1> HIDE DEF u
<1>3. CASE t = u
  BY <1>1, <1>3
<1>4. CASE u.state = "RECOVERY" /\ t = [u EXCEPT !.state = "HOT_STANDBY", !.conns = TRUE]
  <2>0. u \in PmRecord
    BY <1>1 DEF Good
  <2>1. t \in PmRecord
    BY <1>4, <2>0 DEF PmRecord, PMState
  <2>2. /\ t.state = "HOT_STANDBY" /\ t.fatal = u.fatal /\ t.shut = u.shut /\ t.conns = TRUE
        /\ t.exit = u.exit /\ t.child = u.child /\ t.type = u.type
    BY <1>4, <2>0 DEF PmRecord
  <2>3. pm.state \in Serving
    BY <1>1, <1>4 DEF Serving
  <2> QED
    BY <1>1, <1>4, <2>1, <2>2, <2>3 DEF Good, ChildInv, WhyInv, ShutInv, CkptInv, Drained, Serving
<1> QED
  BY <1>2, <1>3, <1>4 DEF BeginHotStandby

LEMMA PmSignalStep ==
    ASSUME PostmasterInv, ProcessPmSignal
    PROVE  PostmasterInv' /\ Allowed(pm, pm')
<1> DEFINE s == BeginHotStandby(RecoveryStarted(pm))
           archiver == IF pm.state = "STARTUP" THEN Missing(s) \intersect {"archiver"} ELSE {}
<1>1. PICK C \in SUBSET archiver, forked \in BOOLEAN : pm' = Advanced(Started(s, C), forked)
  BY DEF ProcessPmSignal
<1>2. pm.exit = "no" /\ ckpt' = ckpt
  BY DEF ProcessPmSignal, Running
<1>3. /\ Good(s, ckpt) /\ s.exit = pm.exit /\ s.child = pm.child /\ s.type = pm.type
      /\ s.state = "STARTUP" => pm.state = "STARTUP"
      /\ pm.state \notin Serving => s = pm
      /\ pm.state \in Serving => s.state \in Serving
  BY RecoveryGood DEF PostmasterInv
<1>4. C \in SUBSET Missing(s) /\ (pm.state # "STARTUP" => C = {})
  OBVIOUS
<1> HIDE DEF s, archiver
<1> DEFINE u == Started(s, C)
<1>5. /\ Good(u, ckpt) /\ u.exit = s.exit /\ u.state = s.state /\ u.type = s.type
      /\ s.state \notin Serving => SameChildren(s, u)
  BY <1>3, <1>4, StartedGood
<1>6. C = {} => SameChildren(s, u)
  BY <1>3, StartEffect DEF Good, SameChildren
<1>7. pm' = u \/ pm' = PostmasterStateMachine(u, forked)
  BY <1>1 DEF Advanced
<1> HIDE DEF u
<1>8. CASE pm' = u
  <2>1. Allowed(pm, pm')
    BY <1>3, <1>4, <1>5, <1>6, <1>8 DEF Allowed, SameChildren, Serving
  <2> QED
    BY <1>2, <1>3, <1>5, <1>8, <2>1 DEF PostmasterInv, ExitInv
<1>9. CASE pm' = PostmasterStateMachine(u, forked)
  <2>1. /\ Good(pm', ckpt) /\ ExitInv(pm', ckpt)
        /\ pm'.state = "STARTUP" => u.state = "STARTUP" \/ \A c \in Child : u.child[c] = "none"
        /\ SameChildren(u, pm') \/ pm'.state = "STARTUP" \/ (pm'.state = "SHUTDOWN" /\ u.state # "SHUTDOWN")
    BY <1>2, <1>3, <1>5, <1>9, StateMachine
  <2>2. Allowed(pm, pm')
    BY <1>3, <1>4, <1>5, <1>6, <2>1 DEF Allowed, SameChildren, Serving
  <2> QED
    BY <1>2, <2>1, <2>2 DEF PostmasterInv
<1> QED
  BY <1>7, <1>8, <1>9

LEMMA StartMissingStep ==
    ASSUME PostmasterInv, StartMissing
    PROVE  PostmasterInv' /\ Allowed(pm, pm')
<1>1. PICK C \in SUBSET Missing(pm) : pm' = Started(pm, C)
  BY DEF StartMissing
<1>2. pm.exit = "no" /\ ckpt' = ckpt
  BY DEF StartMissing, Running
<1>3. /\ Good(pm', ckpt) /\ pm'.exit = pm.exit /\ pm'.state = pm.state
      /\ pm.state \notin Serving => SameChildren(pm, pm')
  BY <1>1, StartedGood DEF PostmasterInv
<1>4. Allowed(pm, pm')
  BY <1>3 DEF Allowed, SameChildren
<1> QED
  BY <1>2, <1>3, <1>4 DEF PostmasterInv, ExitInv

LEMMA KillChildrenStep ==
    ASSUME PostmasterInv, KillChildren
    PROVE  PostmasterInv' /\ Allowed(pm, pm')
<1> DEFINE u == TerminateChildren(pm, "kill")
<1>0. pm \in PmRecord /\ pm.exit = "no" /\ ckpt' = ckpt
  BY DEF KillChildren, Running, PostmasterInv, Good
<1>1. pm' = [u EXCEPT !.clock = FALSE]
  BY DEF KillChildren
<1>2. /\ u \in PmRecord /\ u.state = pm.state /\ u.shut = pm.shut /\ u.fatal = pm.fatal
      /\ u.conns = pm.conns /\ u.type = pm.type /\ u.exit = pm.exit
      /\ \A c \in Child : u.child[c] = pm.child[c] \/ (pm.child[c] \in Up /\ u.child[c] = "kill")
      /\ u.child["checkpointer"] # "asked"
  BY <1>0, TerminateEffect
<1> HIDE DEF u
<1>3. /\ pm' \in PmRecord /\ pm'.state = pm.state /\ pm'.shut = pm.shut /\ pm'.fatal = pm.fatal
      /\ pm'.conns = pm.conns /\ pm'.type = pm.type /\ pm'.exit = pm.exit /\ pm'.child = u.child
  BY <1>1, <1>2 DEF PmRecord
<1>4. SameChildren(pm, pm')
  BY <1>2, <1>3 DEF SameChildren, Up
<1>5. pm'.child["checkpointer"] \notin {"asked"}
      /\ (pm'.child["checkpointer"] = "exit0" => pm.child["checkpointer"] = "exit0")
      /\ (pm.child["checkpointer"] \in {"none"} \union Zombie => pm'.child["checkpointer"] = pm.child["checkpointer"])
  BY <1>2, <1>3, Names DEF Up, Zombie
<1>6. WritersGone(pm) => WritersGone(pm')
  BY <1>3, <1>4, Names DEF SameChildren, WritersGone
<1>7. ChildInv(pm')
  BY <1>3, <1>4, <1>5, <1>6, Names DEF PostmasterInv, Good, ChildInv, SameChildren
<1>8. WhyInv(pm') /\ ShutInv(pm')
  BY <1>3 DEF PostmasterInv, Good, WhyInv, ShutInv
<1>9. CkptInv(pm', ckpt)
  BY <1>3, <1>5, <1>6 DEF PostmasterInv, Good, CkptInv
<1> QED
  BY <1>0, <1>3, <1>4, <1>7, <1>8, <1>9 DEF PostmasterInv, Good, ExitInv, Allowed, SameChildren

\* A child of the postmaster's changes, and the postmaster does not know of it, or
\* has made it: BackendList gains an entry, or an entry changes.
LEMMA SlotGood ==
    ASSUME PostmasterInv, pm.exit = "no", ckpt' = ckpt, NEW c \in Slot,
           NEW status \in {"up", pm.child[c]}, NEW type \in Type,
           pm' = [pm EXCEPT !.child = [pm.child EXCEPT ![c] = status], !.type = [pm.type EXCEPT ![c] = type]],
           \/ pm.state \in Serving
           \/ type \in {"walsnd", "deadend"} /\ pm.state \notin {"WAIT_DEAD_END", "NO_CHILDREN"}
           \/ status = pm.child[c] /\ type \in {"walsnd", "deadend"}
    PROVE  /\ PostmasterInv' /\ pm'.state = pm.state
           /\ pm'.child[c] = status /\ pm'.type[c] = type
           /\ \A d \in Child : d # c => pm'.child[d] = pm.child[d]
<1>0. pm \in PmRecord /\ c \in Child /\ c # "checkpointer" /\ c # "archiver"
  BY Names DEF PostmasterInv, Good
<1> DEFINE ch == [pm.child EXCEPT ![c] = status]
           ty == [pm.type EXCEPT ![c] = type]
<1>1. /\ ch \in [Child -> {"none"} \union Up \union Zombie] /\ ch[c] = status
      /\ \A d \in Child : d # c => ch[d] = pm.child[d]
  BY <1>0 DEF PmRecord, Up
<1>2. ty \in [Slot -> Type] /\ ty[c] = type /\ \A d \in Slot : d # c => ty[d] = pm.type[d]
  BY <1>0 DEF PmRecord
<1>3. pm' = [pm EXCEPT !.child = ch, !.type = ty]
  OBVIOUS
<1> HIDE DEF ch, ty
<1>4. pm' \in PmRecord
  BY <1>0, <1>1, <1>2, <1>3 DEF PmRecord
<1>5. /\ pm'.state = pm.state /\ pm'.shut = pm.shut /\ pm'.fatal = pm.fatal
      /\ pm'.conns = pm.conns /\ pm'.exit = pm.exit /\ pm'.child = ch /\ pm'.type = ty
  BY <1>0, <1>3 DEF PmRecord
<1>6. \/ pm.state \notin Drained /\ ~ckpt
      \/ type \in {"walsnd", "deadend"}
  BY DEF PostmasterInv, Good, CkptInv, Serving, Drained
<1>7. pm.state = "NO_CHILDREN" => ch[c] = pm.child[c]
  BY <1>1 DEF Serving
<1>8. type \in {"walsnd", "deadend"} => (WritersGone(pm) => WritersGone(pm'))
  BY <1>1, <1>2, <1>5, Names DEF WritersGone
<1>9. pm'.child["checkpointer"] = pm.child["checkpointer"]
      /\ ("archiver" \in Special => pm'.child["archiver"] = pm.child["archiver"])
  BY <1>0, <1>1, <1>5, Names
<1>10. pm.state = "NO_CHILDREN" => \A d \in Child : pm'.child[d] = pm.child[d]
  BY <1>1, <1>5, <1>7
<1>11. ChildInv(pm')
  BY <1>5, <1>6, <1>8, <1>9, <1>10 DEF PostmasterInv, Good, ChildInv, Drained
<1>12. WhyInv(pm') /\ ShutInv(pm')
  BY <1>5 DEF PostmasterInv, Good, WhyInv, ShutInv
<1>13. CkptInv(pm', ckpt)
  BY <1>5, <1>6, <1>8, <1>9 DEF PostmasterInv, Good, CkptInv
<1> QED
  BY <1>1, <1>2, <1>4, <1>5, <1>11, <1>12, <1>13 DEF PostmasterInv, Good, ExitInv

LEMMA ConnectStep ==
    ASSUME PostmasterInv, NEW c \in Slot, Connect(c)
    PROVE  PostmasterInv' /\ Allowed(pm, pm')
<1> DEFINE type == IF CanAcceptConnections(pm) THEN "normal" ELSE "deadend"
<1>1. /\ pm.exit = "no" /\ ckpt' = ckpt /\ pm.state \notin {"WAIT_DEAD_END", "NO_CHILDREN"}
      /\ pm' = [pm EXCEPT !.child = [pm.child EXCEPT ![c] = "up"], !.type = [pm.type EXCEPT ![c] = type]]
  BY DEF Connect, Running
<1>2. type \in Type /\ (type = "deadend" \/ pm.state \in Serving)
  BY DEF Type, CanAcceptConnections, Serving
<1> HIDE DEF type
<1>3. /\ PostmasterInv' /\ pm'.state = pm.state /\ pm'.type[c] = type
      /\ \A d \in Child : d # c => pm'.child[d] = pm.child[d]
  BY <1>1, <1>2, SlotGood
<1> QED
  BY <1>2, <1>3 DEF Allowed, Serving

LEMMA StartWorkerStep ==
    ASSUME PostmasterInv, NEW c \in Slot, StartWorker(c)
    PROVE  PostmasterInv' /\ Allowed(pm, pm')
<1>1. /\ pm.exit = "no" /\ ckpt' = ckpt /\ pm.state \in Serving
      /\ pm' = [pm EXCEPT !.child = [pm.child EXCEPT ![c] = "up"], !.type = [pm.type EXCEPT ![c] = "bgworker"]]
  BY DEF StartWorker, Running, Serving
<1>2. PostmasterInv' /\ pm'.state = pm.state
  BY <1>1, SlotGood DEF Type
<1> QED
  BY <1>1, <1>2 DEF Allowed

LEMMA BecomeWalSenderStep ==
    ASSUME PostmasterInv, NEW c \in Slot, BecomeWalSender(c)
    PROVE  PostmasterInv' /\ Allowed(pm, pm')
<1>0. pm \in PmRecord
  BY DEF PostmasterInv, Good
<1>1. pm.exit = "no" /\ ckpt' = ckpt /\ pm' = [pm EXCEPT !.type = [pm.type EXCEPT ![c] = "walsnd"]]
  BY DEF BecomeWalSender, Running
<1>2. pm' = [pm EXCEPT !.child = [pm.child EXCEPT ![c] = pm.child[c]], !.type = [pm.type EXCEPT ![c] = "walsnd"]]
  <2>1. [pm.child EXCEPT ![c] = pm.child[c]] = pm.child
    BY <1>0 DEF PmRecord
  <2> QED
    BY <1>0, <1>1, <2>1 DEF PmRecord
<1>3. /\ PostmasterInv' /\ pm'.state = pm.state /\ pm'.child[c] = pm.child[c]
      /\ \A d \in Child : d # c => pm'.child[d] = pm.child[d]
  BY <1>1, <1>2, SlotGood DEF Type
<1> QED
  BY <1>3 DEF Allowed

\* A child gets stuck or exits; the checkpointer exits with status 0 only when asked to.
LEMMA ChildGood ==
    ASSUME PostmasterInv, pm.exit = "no", NEW c \in Child, pm.child[c] \in Up,
           NEW status \in Zombie \union {"stuck"}, pm' = [pm EXCEPT !.child[c] = status],
           c = "checkpointer" /\ status = "exit0" => pm.child[c] = "asked",
           ckpt' = (ckpt \/ (c = "checkpointer" /\ status = "exit0")), ckpt \in BOOLEAN
    PROVE  PostmasterInv' /\ Allowed(pm, pm')
<1>0. pm \in PmRecord
  BY DEF PostmasterInv, Good
<1> DEFINE ch == [pm.child EXCEPT ![c] = status]
<1>1. /\ ch \in [Child -> {"none"} \union Up \union Zombie] /\ ch[c] = status
      /\ \A d \in Child : d # c => ch[d] = pm.child[d]
  BY <1>0 DEF PmRecord, Up
<1>2. pm' = [pm EXCEPT !.child = ch]
  OBVIOUS
<1> HIDE DEF ch
<1>3. pm' \in PmRecord
  BY <1>0, <1>1, <1>2 DEF PmRecord
<1>4. /\ pm'.state = pm.state /\ pm'.shut = pm.shut /\ pm'.fatal = pm.fatal
      /\ pm'.conns = pm.conns /\ pm'.exit = pm.exit /\ pm'.child = ch /\ pm'.type = pm.type
  BY <1>0, <1>2 DEF PmRecord
<1>5. SameChildren(pm, pm')
  BY <1>1, <1>4 DEF SameChildren, Up, Zombie
<1>6. WritersGone(pm) => WritersGone(pm')
  BY <1>4, <1>5, Names DEF SameChildren, WritersGone
<1>7. pm'.child["checkpointer"] = "asked" => pm.child["checkpointer"] = "asked"
  BY <1>1, <1>4, Names DEF Zombie
<1>8. ChildInv(pm')
  BY <1>4, <1>5, <1>6, <1>7, Names DEF PostmasterInv, Good, ChildInv, SameChildren
<1>9. WhyInv(pm') /\ ShutInv(pm')
  BY <1>4 DEF PostmasterInv, Good, WhyInv, ShutInv
<1>10. CkptInv(pm', ckpt')
  <2>1. CASE c = "checkpointer" /\ status = "exit0"
    <3>1. pm.state = "SHUTDOWN" /\ WritersGone(pm) /\ pm.shut > 0
      BY <2>1 DEF PostmasterInv, Good, ChildInv, ShutInv, Drained
    <3>2. ckpt' = TRUE /\ pm'.child["checkpointer"] \in Zombie
      BY <1>1, <1>4, <2>1 DEF Zombie
    <3> QED
      BY <1>4, <1>6, <3>1, <3>2 DEF CkptInv, Drained
  <2>2. CASE c = "checkpointer" /\ status # "exit0"
    <3>1. ~ckpt /\ ckpt' = ckpt
      BY <2>2 DEF PostmasterInv, Good, CkptInv, Up, Zombie
    <3>2. pm'.child["checkpointer"] # "exit0"
      BY <1>1, <1>4, <2>2
    <3> QED
      BY <1>4, <3>1, <3>2 DEF PostmasterInv, Good, CkptInv
  <2>3. CASE c # "checkpointer"
    <3>1. ckpt' = ckpt /\ pm'.child["checkpointer"] = pm.child["checkpointer"]
      BY <1>1, <1>4, <2>3, Names
    <3> QED
      BY <1>4, <1>6, <3>1 DEF PostmasterInv, Good, CkptInv
  <2> QED
    BY <2>1, <2>2, <2>3
<1> QED
  BY <1>3, <1>4, <1>5, <1>8, <1>9, <1>10 DEF PostmasterInv, Good, ExitInv, Allowed, SameChildren

LEMMA ExitStep ==
    ASSUME PostmasterInv, ckpt \in BOOLEAN, NEW c \in Child, Exit(c)
    PROVE  PostmasterInv' /\ Allowed(pm, pm')
<1>1. PICK status \in (IF pm.child[c] \in {"stuck", "kill"} THEN {} ELSE MayExit(c)) \union
                      (IF pm.child[c] \in {"quit", "kill"} THEN {"crash"} ELSE {}) :
         /\ pm' = [pm EXCEPT !.child[c] = status]
         /\ ckpt' = (ckpt \/ (c = "checkpointer" /\ status = "exit0"))
  BY DEF Exit
<1>2. pm.exit = "no" /\ pm.child[c] \in Up
  BY DEF Exit, Running
<1>3. MayExit(c) \subseteq Zombie /\ (c = "checkpointer" /\ pm.child[c] # "asked" => MayExit(c) = {})
  BY Names DEF MayExit, Zombie
<1>4. status \in Zombie /\ (c = "checkpointer" /\ status = "exit0" => pm.child[c] = "asked")
  BY <1>1, <1>3 DEF Zombie
<1> QED
  BY <1>1, <1>2, <1>4, ChildGood

LEMMA GetStuckStep ==
    ASSUME PostmasterInv, ckpt \in BOOLEAN, NEW c \in Child, GetStuck(c)
    PROVE  PostmasterInv' /\ Allowed(pm, pm')
BY ChildGood DEF GetStuck, Running, Up

LEMMA CrashStep ==
    ASSUME PostmasterInv, ckpt \in BOOLEAN, NEW c \in Child, Crash(c)
    PROVE  PostmasterInv' /\ Allowed(pm, pm')
<1>1. PICK status \in {"crash"} \union (IF c \in {"startup", "archiver"} THEN {"exit1"} ELSE {}) :
         pm' = [pm EXCEPT !.child[c] = status]
  BY DEF Crash
<1>2. pm.exit = "no" /\ pm.child[c] \in Up /\ ckpt' = ckpt
  BY DEF Crash, Running, Up
<1>3. status \in Zombie /\ status # "exit0"
  BY <1>1 DEF Zombie
<1> QED
  BY <1>1, <1>2, <1>3, ChildGood

-----------------------------------------------------------------------------
LEMMA CkptStep == ckpt \in BOOLEAN /\ [Next]_vars => (ckpt \in BOOLEAN)'
BY DEF Next, vars, ProcessShutdownRequest, ReapChild, Exit, GetStuck, Crash, EndReaping,
       ProcessPmSignal, StartMissing, KillChildren, Connect, StartWorker, BecomeWalSender, StartupSignals

LEMMA PostmasterInit == Init => PostmasterInv /\ ckpt \in BOOLEAN
<1> SUFFICES ASSUME Init PROVE PostmasterInv /\ ckpt \in BOOLEAN
  OBVIOUS
<1>1. PICK C \in SUBSET (Special \intersect {"checkpointer", "bgwriter"}), set \in Settings :
       pm = [state |-> "STARTUP", shut |-> NoShutdown, fatal |-> FALSE, clock |-> FALSE,
             startup |-> "RUNNING", conns |-> TRUE,
             child |-> [c \in Child |->
                          IF c \in C \union {"startup"} THEN "up" ELSE "none"],
             type |-> [c \in Slot |-> "normal"], exit |-> "no", set |-> set]
  BY DEF Init
<1>2. pm \in PmRecord
  BY <1>1 DEF PmRecord, PMState, Up, Type, NoShutdown
<1>3. /\ pm.state = "STARTUP" /\ pm.shut = 0 /\ pm.fatal = FALSE /\ pm.conns = TRUE /\ pm.exit = "no"
      /\ \A c \in Child : pm.child[c] = IF c \in C \union {"startup"} THEN "up" ELSE "none"
  BY <1>1 DEF NoShutdown
<1>4. pm.child["checkpointer"] \in {"up", "none"}
      /\ ("archiver" \in Special => pm.child["archiver"] = "none")
  BY <1>1, <1>3, Names
<1>5. ckpt = FALSE
  BY DEF Init
<1> QED
  BY <1>2, <1>3, <1>4, <1>5 DEF PostmasterInv, Good, ExitInv, ChildInv, WhyInv, ShutInv, CkptInv, Drained

\* Every step keeps the invariant, and what it starts and makes anew is allowed.
LEMMA PostmasterStep ==
    ASSUME PostmasterInv, ckpt \in BOOLEAN, [Next]_vars
    PROVE  PostmasterInv' /\ Allowed(pm, pm')
<1>1. CASE UNCHANGED <<pm, ckpt>>
  BY <1>1 DEF PostmasterInv, Allowed
<1>2. CASE UNCHANGED vars
  BY <1>1, <1>2 DEF vars
<1>3. ASSUME NEW f, StartupSignals(f) PROVE PostmasterInv' /\ Allowed(pm, pm')
  BY <1>1, <1>3 DEF StartupSignals
<1> QED
  BY <1>2, <1>3, ShutdownRequestStep, ReapChildStep, ExitStep, GetStuckStep, CrashStep, EndReapingStep,
     PmSignalStep, StartMissingStep, KillChildrenStep, ConnectStep, StartWorkerStep, BecomeWalSenderStep
     DEF Next

LEMMA PostmasterInvariant == Spec => [](PostmasterInv /\ ckpt \in BOOLEAN)
<1>1. PostmasterInv /\ ckpt \in BOOLEAN /\ [Next]_vars => (PostmasterInv /\ ckpt \in BOOLEAN)'
  BY PostmasterStep, CkptStep
<1> QED
  BY <1>1, PostmasterInit, PTL DEF Spec

\* No process that writes WAL or dirties buffers outlives the shutdown checkpoint,
\* for any set of backends and any crashes: once the checkpointer has exited with
\* status 0 the postmaster is on a path on which it starts nothing but dead_end
\* children.
THEOREM CheckpointIsTheLast == Spec => []CheckpointIsLast
<1>1. PostmasterInv => CheckpointIsLast
  <2> SUFFICES ASSUME PostmasterInv, ckpt, NEW c \in Child, pm.child[c] \in Up
               PROVE  c = "archiver" \/ (c \in Slot /\ pm.type[c] \in {"walsnd", "deadend"})
    BY DEF CheckpointIsLast
  <2>1. WritersGone(pm) /\ pm.child["checkpointer"] \in {"none"} \union Zombie
    BY DEF PostmasterInv, Good, CkptInv
  <2>2. pm.child[c] # "none" /\ c # "checkpointer"
    BY <2>1 DEF Up, Zombie
  <2> QED
    BY <2>1, <2>2, Names DEF WritersGone
<1> QED
  BY <1>1, PostmasterInvariant, PTL

\* The assertions in PostmasterStateMachine and process_pm_pmsignal never fail, and
\* FatalError is as its comment says.
THEOREM AssertionsNeverFail == Spec => []AssertionsHold
<1>1. PostmasterInv => AssertionsHold
  <2> SUFFICES ASSUME PostmasterInv PROVE AssertionsHold
    OBVIOUS
  <2>1. pm.state = "WAIT_DEAD_END" => Gone(pm, Special \ {"archiver"})
    BY DEF PostmasterInv, Good, ChildInv, Drained, WritersGone, Gone
  <2>2. pm.state = "STARTUP" => Gone(pm, Special \intersect {"archiver"})
    BY DEF PostmasterInv, Good, ChildInv, Gone
  <2> QED
    BY <2>1, <2>2 DEF PostmasterInv, Good, ShutInv, AssertionsHold, NoShutdown
<1> QED
  BY <1>1, PostmasterInvariant, PTL

\* Exit status 0 means that no child is left and, but for an immediate shutdown,
\* that the checkpoint is written.
THEOREM SuccessIsClean == Spec => []CleanExit
<1>1. PostmasterInv => CleanExit
  BY DEF PostmasterInv, ExitInv, CleanExit, Gone, ImmediateShutdown
<1> QED
  BY <1>1, PostmasterInvariant, PTL

\* Shared memory is made anew only when no child is left.
THEOREM ReinitializesAlone == Spec => ReinitAlone
<1>1. PostmasterInv /\ ckpt \in BOOLEAN /\ [Next]_vars =>
        [pm.state # "STARTUP" /\ pm'.state = "STARTUP" => Gone(pm, Child)]_vars
  BY PostmasterStep DEF Allowed, Gone
<1> QED
  BY <1>1, PostmasterInvariant, PTL DEF Spec, ReinitAlone

\* A postmaster that stops its children starts only dead_end ones and the
\* checkpointer that is to write the checkpoint.
THEOREM StopIsFinal == Spec => StopStartsNoChild
<1>1. PostmasterInv /\ ckpt \in BOOLEAN /\ [Next]_vars =>
        [pm.state \notin {"STARTUP", "RECOVERY", "HOT_STANDBY", "RUN"} /\ pm'.state = pm.state =>
          \A c \in Child : pm.child[c] = "none" /\ pm'.child[c] # "none" =>
              c \in Slot /\ pm'.type[c] = "deadend"]_vars
  BY PostmasterStep DEF Allowed, Serving
<1> QED
  BY <1>1, PostmasterInvariant, PTL DEF Spec, StopStartsNoChild

=============================================================================
