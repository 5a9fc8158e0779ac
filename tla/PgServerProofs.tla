--------------------------- MODULE PgServerProofs ---------------------------
(***************************************************************************)
(* pg_ctl start and stop for any number of commands, process IDs and       *)
(* rounds of waiting: what they report about the server is true, although  *)
(* they know it only by a process ID and a file that others write.         *)
(***************************************************************************)
EXTENDS PgServer, TLAPS

\* The states in which postmaster.pid belongs to the server.
Holder == {"locked", "named", "starting", "ready", "stopping"}

\* The start commands whose server is there, and those that have none yet.
Waiting == {"forked", "wait", "child"}
Unforked == {"status", "statuskill", "begin", "fork"}

\* A command that has not ended has rounds left.
WaitInv == \A c \in Cmd : pc[c] \notin Ended => waits[c] < MaxWaits

\* A server is there from the fork on, and its parent has seen to its ID.
ForkInv ==
    \A c \in Starters :
        /\ srv[c] = "none" <=> pid[c] = 0
        /\ pc[c] \in Unforked => srv[c] = "none"
        /\ pc[c] \in Waiting => srv[c] # "none"
        /\ c \notin before[c]
        /\ srv[c] = "none" => c \notin opened

\* Live servers have IDs of their own.  While pg_ctl waits, nobody else that
\* started after it has its child's ID, dead or alive.
PidInv ==
    /\ \A s, t \in Starters : srv[s] \in Live /\ srv[t] \in Live /\ pid[s] = pid[t] => s = t
    /\ \A c, s \in Starters :
          pc[c] \in Waiting /\ s \notin before[c] /\ pid[s] = pid[c] => s = c

\* The file names its creator, which holds it until it removes it or is killed.
FileInv ==
    /\ \A s \in Starters : srv[s] \in Holder => file.by = s
    /\ file.by = 0 => file.pid = 0 /\ file.st = ""
    /\ file.by # 0 => /\ srv[file.by] \in Holder \union {"dead"}
                      /\ file.pid \in {0, pid[file.by]}
                      /\ srv[file.by] \in Holder \ {"locked"} => file.pid = pid[file.by]
                      /\ file.st = "ready" => file.by \in opened

\* A server that has not come to the file yet and has the same ID as the one in
\* it: the file is a dead server's, and nobody else can take it over.
Inherits(s) == srv[s] = "exec" => file.pid = pid[s] /\ srv[file.by] = "dead"

\* What pg_ctl stop knows about the server it is about to signal, or has signalled.
StopInv ==
    \A c \in Stops :
        /\ pc[c] = "signal" => \A s \in Starters : pid[s] = got[c] => Inherits(s)
        /\ pc[c] \in {"swait", "stest", "sfinal"} /\ hit[c] # 0 =>
              srv[hit[c]] # "none" /\ Inherits(hit[c])

ServerInv ==
    /\ TypeOK /\ WaitInv /\ ForkInv /\ PidInv /\ FileInv /\ StopInv
    /\ StartReportsReady /\ StopReportsGone

-----------------------------------------------------------------------------
\* The commands are of two kinds, and none has the number 0.
LEMMA SetFacts ==
    /\ Starters \subseteq Cmd /\ Stops \subseteq Cmd /\ Starters \intersect Stops = {}
    /\ 0 \notin Starters /\ 0 \notin Pid /\ MaxWaits \in Nat \ {0} /\ MaxKills \in Nat
BY ServerAssumption DEF Starters, Cmd

\* A step of a command that starts no server ...
Quiet(c) ==
    \/ /\ c \in Starters
       /\ \/ StatusRead(c) \/ StatusKill(c) \/ DoStart(c) \/ InstallHandler(c)
          \/ WaitRead(c) \/ WaitChild(c) \/ Interrupt(c)
    \/ c \in Stops /\ StopStep(c)

\* ... and a step of a server.
Serves(s) == Lock(s) \/ WriteFile(s) \/ Open(s) \/ Stop(s) \/ Exit(s) \/ Kill9(s)

\* The steps of the system, by what they can disturb.
LEMMA Steps ==
    ASSUME [Next]_vars
    PROVE  \/ \E c \in Cmd : Quiet(c)
           \/ \E c \in Starters : StartPostmaster(c)
           \/ \E s \in Starters : Serves(s)
           \/ \E n \in Pid : OtherProcess(n)
           \/ UNCHANGED vars
BY SetFacts DEF Next, StartStep, Quiet, Serves

\* What a quiet step leaves alone, and where it may come from.
LEMMA QuietEffect ==
    ASSUME TypeOK, NEW c \in Cmd, Quiet(c)
    PROVE  /\ UNCHANGED <<srv, pid, opened, file>>
           /\ \A d \in Cmd : d # c => pc'[d] = pc[d] /\ got'[d] = got[d]
           /\ \A d \in Starters : d # c => before'[d] = before[d]
           /\ \A d \in Stops : d # c => hit'[d] = hit[d]
           /\ pc'[c] \in Waiting => pc[c] \in Waiting /\ before'[c] = before[c]
           /\ pc'[c] \in Unforked => pc[c] \in Unforked
           /\ \/ before'[c] = before[c]
              \/ pc[c] = "begin" /\ before'[c] = {s \in Starters : srv[s] # "none"}
<1> USE DEF Waiting, Unforked
<1>1. /\ pc \in [Cmd -> Place] /\ got \in [Cmd -> {0} \union Pid]
      /\ before \in [Starters -> SUBSET Starters] /\ hit \in [Stops -> {0} \union Starters]
  BY DEF TypeOK
<1>2. CASE c \in Starters /\ StatusRead(c)
  BY <1>1, <1>2, SetFacts DEF StatusRead, AfterStatus, Goto, srvVars
<1>3. CASE c \in Starters /\ StatusKill(c)
  BY <1>1, <1>3, SetFacts DEF StatusKill, AfterStatus, Goto, srvVars
<1>4. CASE c \in Starters /\ DoStart(c)
  BY <1>1, <1>4, SetFacts DEF DoStart, Goto, srvVars
<1>5. CASE c \in Starters /\ InstallHandler(c)
  BY <1>1, <1>5, SetFacts DEF InstallHandler, Goto, srvVars
<1>6. CASE c \in Starters /\ WaitRead(c)
  BY <1>1, <1>6, SetFacts DEF WaitRead, Goto, srvVars
<1>7. CASE c \in Starters /\ WaitChild(c)
  BY <1>1, <1>7, SetFacts DEF WaitChild, Goto, srvVars
<1>8. CASE c \in Starters /\ Interrupt(c)
  BY <1>1, <1>8, SetFacts DEF Interrupt, Goto
<1>9. CASE c \in Stops /\ StopRead(c)
  BY <1>1, <1>9, SetFacts DEF StopRead, Goto, srvVars
<1>10. CASE c \in Stops /\ StopSignal(c)
  BY <1>1, <1>10, SetFacts DEF StopSignal, Goto
<1>11. CASE c \in Stops /\ StopWait(c)
  BY <1>1, <1>11, SetFacts DEF StopWait, Goto, srvVars
<1>12. CASE c \in Stops /\ StopTest(c)
  BY <1>1, <1>12, SetFacts DEF StopTest, TimeoutResult, Goto, srvVars
<1>13. CASE c \in Stops /\ StopFinal(c)
  BY <1>1, <1>13, SetFacts DEF StopFinal, Goto, srvVars
<1> QED
  BY <1>2, <1>3, <1>4, <1>5, <1>6, <1>7, <1>8, <1>9, <1>10, <1>11, <1>12, <1>13 DEF Quiet, StopStep

\* What a step of a server leaves alone.
LEMMA ServesEffect ==
    ASSUME TypeOK, NEW s \in Starters, Serves(s)
    PROVE  /\ UNCHANGED cmdVars /\ pid' = pid
           /\ \A t \in Starters : t # s => srv'[t] = srv[t]
           /\ srv[s] \in Live /\ srv'[s] \in {"dead"} \union (Live \ {"exec"})
           /\ opened \subseteq opened' /\ opened' \subseteq opened \union {s}
           /\ srv[s] = "unlocked" => srv'[s] = "dead"
           /\ file' # file => srv[s] \in Holder \/ Lock(s)
<1>1. srv \in [Starters -> {"none", "dead"} \union Live]
  BY DEF TypeOK
<1>2. CASE Lock(s)
  BY <1>1, <1>2 DEF Lock, cmdVars, Live, Holder, NoFile
<1>3. CASE WriteFile(s)
  BY <1>1, <1>3 DEF WriteFile, WithPid, WithStatus, cmdVars, Live, Holder, NoFile
<1>4. CASE Open(s)
  BY <1>1, <1>4 DEF Open, WithStatus, cmdVars, Live, Holder, NoFile
<1>5. CASE Stop(s)
  BY <1>1, <1>5 DEF Stop, WithStatus, cmdVars, Live, Holder, NoFile
<1>6. CASE Exit(s)
  BY <1>1, <1>6 DEF Exit, cmdVars, Live, Holder, NoFile
<1>7. CASE Kill9(s)
  BY <1>1, <1>7 DEF Kill9, cmdVars, Live, Holder, NoFile
<1> QED
  BY <1>2, <1>3, <1>4, <1>5, <1>6, <1>7 DEF Serves

\* The fork: a new server, with an ID that nobody has.
LEMMA ForkEffect ==
    ASSUME TypeOK, NEW c \in Starters, StartPostmaster(c)
    PROVE  /\ pc[c] = "fork" /\ pc'[c] = "forked" /\ \A d \in Cmd : d # c => pc'[d] = pc[d]
           /\ srv'[c] = "exec" /\ \A s \in Starters : s # c => srv'[s] = srv[s] /\ pid'[s] = pid[s]
           /\ pid'[c] \in Pid /\ pid'[c] # 0 /\ ~Exists(pid'[c]) /\ ~Seen(pid'[c])
           /\ \A s \in Starters : s \notin before[c] => pid[s] # pid'[c]
           /\ \A s \in Starters : pid[s] = pid'[c] =>
                 srv[s] \notin Live /\ ~(srv[s] = "dead" /\ pc[s] \in Waiting)
           /\ UNCHANGED <<got, before, hit, opened, file>>
<1>1. pc \in [Cmd -> Place] /\ srv \in [Starters -> {"none", "dead"} \union Live]
      /\ pid \in [Starters -> {0} \union Pid] /\ c \in Cmd
  BY SetFacts DEF TypeOK
<1>2. PICK n \in Pid : /\ ~Exists(n) /\ ~Seen(n)
                       /\ \A s \in Starters \ before[c] : pid[s] # n
                       /\ pid' = [pid EXCEPT ![c] = n]
  BY DEF StartPostmaster
<1>3. /\ pc' = [pc EXCEPT ![c] = "forked"] /\ pc[c] = "fork" /\ srv' = [srv EXCEPT ![c] = "exec"]
      /\ UNCHANGED <<got, before, hit, opened, file>>
  BY DEF StartPostmaster, Goto
<1>4. pid'[c] = n
  BY <1>1, <1>2
<1>5. \A s \in Starters : pid[s] = n => srv[s] \notin Live /\ ~(srv[s] = "dead" /\ pc[s] \in Waiting)
  BY <1>2 DEF Exists, Waiting
<1> QED
  BY <1>1, <1>2, <1>3, <1>4, <1>5, SetFacts

\* Only the fork gives a server an ID.
LEMMA ForkStep == TypeOK /\ ForkInv /\ [Next]_vars => ForkInv'
<1> SUFFICES ASSUME TypeOK, ForkInv, [Next]_vars PROVE ForkInv'
  OBVIOUS
<1>1. ASSUME NEW c \in Cmd, Quiet(c) PROVE ForkInv'
  BY <1>1, QuietEffect, SetFacts DEF ForkInv, Waiting, Unforked
<1>2. ASSUME NEW c \in Starters, StartPostmaster(c) PROVE ForkInv'
  BY <1>2, ForkEffect, SetFacts DEF ForkInv, Waiting, Unforked
<1>3. ASSUME NEW s \in Starters, Serves(s) PROVE ForkInv'
  BY <1>3, ServesEffect DEF ForkInv, cmdVars, Live
<1>4. ASSUME NEW n \in Pid, OtherProcess(n) PROVE ForkInv'
  BY <1>4 DEF ForkInv, OtherProcess, cmdVars
<1>5. CASE UNCHANGED vars
  BY <1>5 DEF ForkInv, vars
<1> QED
  BY <1>1, <1>2, <1>3, <1>4, <1>5, Steps

\* The kernel does not give an ID out twice.
LEMMA PidStep == TypeOK /\ ForkInv /\ PidInv /\ [Next]_vars => PidInv'
<1> SUFFICES ASSUME TypeOK, ForkInv, PidInv, [Next]_vars PROVE PidInv'
  OBVIOUS
<1>1. ASSUME NEW c \in Cmd, Quiet(c) PROVE PidInv'
  BY <1>1, QuietEffect, SetFacts DEF PidInv
<1>2. ASSUME NEW c \in Starters, StartPostmaster(c) PROVE PidInv'
  <2>1. \A s, t \in Starters : (srv[s] \in Live /\ srv[t] \in Live /\ pid[s] = pid[t] => s = t)'
    BY <1>2, ForkEffect DEF PidInv
  <2>2. ASSUME NEW d \in Starters, NEW s \in Starters, pc'[d] \in Waiting, s \notin before'[d], pid'[s] = pid'[d]
        PROVE  s = d
    <3>1. CASE d = c
      BY <1>2, <2>2, <3>1, ForkEffect
    <3>2. CASE d # c /\ s # c
      BY <1>2, <2>2, <3>2, ForkEffect, SetFacts DEF PidInv
    <3>3. CASE d # c /\ s = c
      <4>1. pc[d] \in Waiting /\ pid[d] = pid'[c]
        BY <1>2, <2>2, <3>3, ForkEffect, SetFacts
      <4>2. srv[d] \in {"dead"} \union Live
        BY <4>1 DEF ForkInv, TypeOK
      <4> QED
        BY <1>2, <4>1, <4>2, ForkEffect
    <3> QED
      BY <3>1, <3>2, <3>3
  <2> QED
    BY <2>1, <2>2 DEF PidInv
<1>3. ASSUME NEW s \in Starters, Serves(s) PROVE PidInv'
  BY <1>3, ServesEffect DEF PidInv, cmdVars, Live
<1>4. ASSUME NEW n \in Pid, OtherProcess(n) PROVE PidInv'
  BY <1>4 DEF PidInv, OtherProcess, cmdVars
<1>5. CASE UNCHANGED vars
  BY <1>5 DEF PidInv, vars
<1> QED
  BY <1>1, <1>2, <1>3, <1>4, <1>5, Steps

\* Nobody but its creator writes to the file.
LEMMA FileStep == TypeOK /\ ForkInv /\ FileInv /\ [Next]_vars => FileInv'
<1> SUFFICES ASSUME TypeOK, ForkInv, FileInv, [Next]_vars PROVE FileInv'
  OBVIOUS
<1>1. ASSUME NEW c \in Cmd, Quiet(c) PROVE FileInv'
  <2>1. UNCHANGED <<srv, pid, opened, file>>
    BY <1>1, QuietEffect
  <2> QED
    BY <2>1 DEF FileInv
<1>2. ASSUME NEW c \in Starters, StartPostmaster(c) PROVE FileInv'
  <2>1. pc[c] = "fork" /\ srv'[c] = "exec" /\ srv[c] = "none" /\ file' = file /\ opened' = opened
    BY <1>2, ForkEffect DEF ForkInv, Unforked
  <2>2. file.by # c /\ file.by \in {0} \union Starters
    BY <2>1, SetFacts DEF FileInv, Holder, TypeOK
  <2> QED
    BY <1>2, <2>1, <2>2, ForkEffect DEF FileInv, Holder
<1>3. ASSUME NEW s \in Starters, Serves(s) PROVE FileInv'
  <2> USE DEF Holder, NoFile
  <2>1. srv \in [Starters -> {"none", "dead"} \union Live] /\ pid' = pid /\ s # 0 /\ file.by \in {0} \union Starters
    BY <1>3, ServesEffect, SetFacts DEF TypeOK
  <2>2. CASE Lock(s)
    <3>1. opened' = opened
      BY <2>2 DEF Lock
    <3>2. CASE srv' = [srv EXCEPT ![s] = "dead"] /\ UNCHANGED file
      BY <2>1, <2>2, <3>1, <3>2 DEF FileInv, Lock
    <3>3. CASE file' = [by |-> s, pid |-> 0, st |-> ""] /\ srv' = [srv EXCEPT ![s] = "locked"]
                 /\ (file.by = 0 \/ srv[file.by] = "dead")
      <4>1. \A t \in Starters : srv[t] \notin Holder
        BY <3>3, SetFacts DEF FileInv
      <4> QED
        BY <2>1, <3>1, <3>3, <4>1 DEF FileInv
    <3> QED
      BY <2>2, <3>2, <3>3 DEF Lock
  <2>3. CASE WriteFile(s)
    <3>1. file.by = s /\ opened' = opened /\ s \in Starters
      BY <2>3 DEF FileInv, WriteFile
    <3>2. CASE srv[s] = "locked" /\ srv' = [srv EXCEPT ![s] = "named"] /\ file' = WithPid(pid[s])
      BY <2>1, <3>1, <3>2 DEF FileInv, WithPid
    <3>3. CASE srv[s] = "named" /\ srv' = [srv EXCEPT ![s] = "starting"] /\ file' = WithStatus("starting")
      BY <2>1, <3>1, <3>3 DEF FileInv, WithStatus
    <3> QED
      BY <2>3, <3>2, <3>3 DEF WriteFile
  <2>4. CASE Open(s)
    BY <2>1, <2>4, SetFacts DEF FileInv, Open, WithStatus
  <2>5. CASE Stop(s)
    BY <2>1, <2>5, SetFacts DEF FileInv, Stop, WithStatus
  <2>6. CASE Exit(s)
    <3>1. CASE srv[s] = "stopping" /\ srv' = [srv EXCEPT ![s] = "unlocked"] /\ file' = NoFile
      BY <2>1, <3>1 DEF FileInv
    <3>2. CASE srv[s] = "unlocked" /\ srv' = [srv EXCEPT ![s] = "dead"] /\ file' = file
      BY <2>1, <2>6, <3>2 DEF FileInv, Exit
    <3> QED
      BY <2>6, <3>1, <3>2 DEF Exit
  <2>7. CASE Kill9(s)
    BY <2>1, <2>7, SetFacts DEF FileInv, Kill9, Live
  <2> QED
    BY <1>3, <2>2, <2>3, <2>4, <2>5, <2>6, <2>7 DEF Serves
<1>4. ASSUME NEW n \in Pid, OtherProcess(n) PROVE FileInv'
  BY <1>4 DEF FileInv, OtherProcess
<1>5. CASE UNCHANGED vars
  BY <1>5 DEF FileInv, vars
<1> QED
  BY <1>1, <1>2, <1>3, <1>4, <1>5, Steps

\* A file with an ID has an owner.
LEMMA FileOwner ==
    ASSUME TypeOK, FileInv, file.pid # 0
    PROVE  file.by \in Starters /\ file.by # 0 /\ pid[file.by] = file.pid /\ srv[file.by] \in Holder \union {"dead"}
<1>1. file.by \in {0} \union Starters
  BY DEF TypeOK
<1>2. file.by # 0
  BY DEF FileInv, NoFile
<1> QED
  BY <1>1, <1>2 DEF FileInv

\* A server that has not come to the file yet, with the ID in the file, keeps
\* everyone else from taking the file over.
LEMMA InheritsStep ==
    ASSUME TypeOK, ForkInv, PidInv, FileInv, NEW s \in Starters, Serves(s),
           NEW t \in Starters, Inherits(t)
    PROVE  Inherits(t)'
<1> SUFFICES ASSUME srv[t] = "exec", t # s PROVE (file.pid = pid[t] /\ srv[file.by] = "dead")'
  BY ServesEffect DEF Inherits, Live
<1>1. file.pid = pid[t] /\ srv[file.by] = "dead" /\ pid[t] # 0
  BY DEF Inherits, ForkInv
<1>2. file.by \in Starters /\ file.by # s
  BY <1>1, ServesEffect, FileOwner DEF Live
<1>3. file' = file
  <2>1. CASE Lock(s)
    <3>1. Exists(file.pid) /\ file.pid # pid[s] /\ file.by # 0
      BY <1>1, <1>2, <2>1, SetFacts DEF PidInv, Lock, Live, Exists
    <3> QED
      BY <2>1, <3>1 DEF Lock
  <2>2. CASE srv[s] \in Holder
    BY <1>2, <2>2 DEF FileInv
  <2> QED
    BY <2>1, <2>2, ServesEffect
<1> QED
  BY <1>1, <1>2, <1>3, ServesEffect

\* The server whose ID pg_ctl stop reads from the file has the file, unless a
\* dead one left it.
LEMMA ReadInherits ==
    ASSUME TypeOK, ForkInv, PidInv, FileInv, NEW s \in Starters, file.pid # 0, pid[s] = file.pid
    PROVE  Inherits(s)
<1> SUFFICES ASSUME srv[s] = "exec" PROVE srv[file.by] = "dead"
  BY DEF Inherits
<1> QED
  BY FileOwner DEF PidInv, Holder, Live

\* A stop command's knowledge of the server stays true.
LEMMA StopInvStep == TypeOK /\ ForkInv /\ PidInv /\ FileInv /\ StopInv /\ [Next]_vars => StopInv'
<1> SUFFICES ASSUME TypeOK, ForkInv, PidInv, FileInv, StopInv, [Next]_vars PROVE StopInv'
  OBVIOUS
<1>1. ASSUME NEW c \in Cmd, Quiet(c) PROVE StopInv'
  <2>1. /\ UNCHANGED <<srv, pid, file>>
        /\ \A d \in Stops : d # c => pc'[d] = pc[d] /\ got'[d] = got[d] /\ hit'[d] = hit[d]
    BY <1>1, QuietEffect, SetFacts
  <2>2. CASE c \in Starters
    BY <2>1, <2>2, SetFacts DEF StopInv, Inherits
  <2>3. CASE c \in Stops
    <3>1. pc \in [Cmd -> Place] /\ got \in [Cmd -> {0} \union Pid] /\ hit \in [Stops -> {0} \union Starters]
      BY DEF TypeOK
    <3>2. \/ pc'[c] = "signal" /\ got'[c] = file.pid /\ file.pid # 0
          \/ StopSignal(c)
          \/ pc'[c] \in {"stest", "swait", "sfinal"} /\ hit'[c] = hit[c] /\ pc[c] \in {"swait", "stest", "sfinal"}
          \/ pc'[c] \in Ended
      <4>1. StopStep(c)
        BY <1>1, <2>3, SetFacts DEF Quiet
      <4>2. CASE StopRead(c)
        BY <3>1, <4>2 DEF StopRead, Goto, Ended
      <4>3. CASE StopWait(c)
        BY <3>1, <4>3 DEF StopWait, Goto, Ended
      <4>4. CASE StopTest(c)
        BY <3>1, <4>4 DEF StopTest, Goto, Ended, TimeoutResult
      <4>5. CASE StopFinal(c)
        BY <3>1, <4>5 DEF StopFinal, Goto, Ended
      <4> QED
        BY <4>1, <4>2, <4>3, <4>4, <4>5 DEF StopStep
    <3>3. /\ pc'[c] = "signal" => \A s \in Starters : pid[s] = got'[c] => Inherits(s)
          /\ pc'[c] \in {"swait", "stest", "sfinal"} /\ hit'[c] # 0 =>
                srv[hit'[c]] # "none" /\ Inherits(hit'[c])
      <4>1. CASE pc'[c] = "signal" /\ got'[c] = file.pid /\ file.pid # 0
        BY <4>1, ReadInherits
      <4>2. CASE StopSignal(c)
        <5>1. pc[c] = "signal" /\ pc'[c] \in {"swait", "failed"}
          BY <3>1, <4>2 DEF StopSignal, Goto
        <5>2. hit'[c] # 0 => hit'[c] \in Starters /\ srv[hit'[c]] \in Live /\ pid[hit'[c]] = got[c]
          <6> DEFINE targets == {s \in Starters : srv[s] \in Live /\ pid[s] = got[c]}
          <6>1. hit'[c] = IF targets = {} THEN 0 ELSE CHOOSE s \in targets : TRUE
            BY <2>3, <3>1, <4>2 DEF StopSignal
          <6>2. targets # {} => (CHOOSE s \in targets : TRUE) \in targets
            OBVIOUS
          <6> QED
            BY <6>1, <6>2
        <5> QED
          BY <5>1, <5>2, <2>3 DEF StopInv, Live
      <4>3. CASE pc'[c] \in {"stest", "swait", "sfinal"} /\ hit'[c] = hit[c] /\ pc[c] \in {"swait", "stest", "sfinal"}
        BY <2>3, <4>3 DEF StopInv
      <4>4. CASE pc'[c] \in Ended
        BY <4>4 DEF Ended
      <4> QED
        BY <3>2, <4>1, <4>2, <4>3, <4>4
    <3> QED
      BY <2>1, <2>3, <3>3 DEF StopInv, Inherits
  <2> QED
    BY <2>2, <2>3 DEF Cmd
<1>2. ASSUME NEW c \in Starters, StartPostmaster(c) PROVE StopInv'
  <2>1. \A d \in Stops : pc'[d] = pc[d] /\ got'[d] = got[d] /\ hit'[d] = hit[d] /\ (pc[d] = "signal" => got[d] # pid'[c])
    BY <1>2, ForkEffect, SetFacts DEF Seen, Ended
  <2>2. srv[c] = "none" /\ file' = file
    BY <1>2, ForkEffect DEF ForkInv, Unforked
  <2>3. ASSUME NEW t \in Starters, t # c, Inherits(t) PROVE Inherits(t)'
    <3>1. srv[t] = "exec" => file.by # c
      BY <2>2, <2>3 DEF Inherits
    <3>2. srv[t] = "exec" => file.by \in Starters
      BY <2>3, FileOwner DEF Inherits, ForkInv
    <3> QED
      BY <1>2, <2>2, <2>3, <3>1, <3>2, ForkEffect DEF Inherits
  <2> QED
    <3>1. ASSUME NEW d \in Stops, pc'[d] = "signal", NEW s \in Starters, pid'[s] = got'[d] PROVE Inherits(s)'
      BY <1>2, <2>1, <2>3, <3>1, ForkEffect DEF StopInv
    <3>2. ASSUME NEW d \in Stops, pc'[d] \in {"swait", "stest", "sfinal"}, hit'[d] # 0
          PROVE  srv'[hit'[d]] # "none" /\ Inherits(hit[d])'
      <4>1. hit[d] \in Starters /\ srv[hit[d]] # "none" /\ Inherits(hit[d]) /\ hit'[d] = hit[d]
        BY <2>1, <3>2 DEF StopInv, TypeOK
      <4> QED
        BY <1>2, <2>2, <2>3, <4>1, ForkEffect
    <3> QED
      BY <3>1, <3>2 DEF StopInv
<1>3. ASSUME NEW s \in Starters, Serves(s) PROVE StopInv'
  <2>1. UNCHANGED <<pc, got, hit, pid>> /\ \A t \in Starters : srv[t] # "none" => srv'[t] # "none"
    BY <1>3, ServesEffect DEF cmdVars, Live
  <2>2. \A t \in Starters : Inherits(t) => Inherits(t)'
    BY <1>3, InheritsStep
  <2>3. hit \in [Stops -> {0} \union Starters]
    BY DEF TypeOK
  <2> QED
    BY <2>1, <2>2, <2>3 DEF StopInv
<1>4. ASSUME NEW n \in Pid, OtherProcess(n) PROVE StopInv'
  BY <1>4 DEF StopInv, Inherits, OtherProcess, cmdVars
<1>5. CASE UNCHANGED vars
  BY <1>5 DEF StopInv, Inherits, vars
<1> QED
  BY <1>1, <1>2, <1>3, <1>4, <1>5, Steps

\* The reports are true when they are made, and stay so.
LEMMA ReportStep ==
    ASSUME TypeOK, ForkInv, PidInv, FileInv, StopInv, StartReportsReady, StopReportsGone, [Next]_vars
    PROVE  StartReportsReady' /\ StopReportsGone'
<1>1. ASSUME NEW c \in Cmd, Quiet(c) PROVE StartReportsReady' /\ StopReportsGone'
  <2>1. /\ UNCHANGED <<srv, pid, file, opened>>
        /\ \A d \in Cmd : d # c => pc'[d] = pc[d]
        /\ \A d \in Stops : d # c => hit'[d] = hit[d]
    BY <1>1, QuietEffect
  <2>2. pc \in [Cmd -> Place]
    BY DEF TypeOK
  <2>3. ASSUME c \in Starters, pc'[c] = "started" PROVE c \in opened
    <3>1. WaitRead(c)
      <4>1. pc[c] # "started" => c \in Starters /\ Quiet(c) /\ c \notin Stops
        BY <1>1, <2>3, SetFacts
      <4> QED
        BY <2>2, <2>3, <1>1, SetFacts DEF Quiet, WaitRead, StatusRead, StatusKill, AfterStatus, DoStart,
           InstallHandler, WaitChild, Interrupt, Goto
    <3>2. pc[c] = "wait" /\ file.st = "ready" /\ file.pid = pid[c] /\ file.by \notin before[c]
      BY <2>2, <2>3, <3>1, SetFacts DEF WaitRead, Goto, OurFile
    <3>3. file.pid # 0
      BY <3>2, <2>3 DEF ForkInv, Waiting
    <3>4. file.by = c
      BY <2>3, <3>2, <3>3, FileOwner DEF PidInv, Waiting
    <3> QED
      BY <2>3, <3>2, <3>4, SetFacts DEF FileInv
  <2>4. ASSUME c \in Stops, pc'[c] = "stopped", hit'[c] # 0 PROVE srv[hit'[c]] \in {"unlocked", "dead"}
    <3>1. pc[c] \in {"swait", "sfinal"} /\ hit'[c] = hit[c] /\ file.by = 0
      <4>1. StopStep(c)
        BY <1>1, <2>4, SetFacts DEF Quiet
      <4> QED
        BY <2>2, <2>4, <4>1, SetFacts DEF StopStep, StopRead, StopSignal, StopWait, StopTest, StopFinal, TimeoutResult, Goto
    <3>2. hit[c] \in Starters /\ srv[hit[c]] # "none" /\ Inherits(hit[c])
      BY <2>4, <3>1 DEF StopInv, TypeOK
    <3>3. srv[hit[c]] \notin Holder /\ file.pid = 0
      BY <3>1, <3>2, SetFacts DEF FileInv, NoFile
    <3>4. srv[hit[c]] # "exec"
      BY <3>2, <3>3 DEF Inherits, ForkInv
    <3> QED
      <4>1. srv[hit[c]] \in {"none", "dead"} \union Live
        BY <3>2 DEF TypeOK
      <4> QED
        BY <3>1, <3>2, <3>3, <3>4, <4>1 DEF Live, Holder
  <2> QED
    BY <2>1, <2>3, <2>4, SetFacts DEF StartReportsReady, StopReportsGone
<1>2. ASSUME NEW c \in Starters, StartPostmaster(c) PROVE StartReportsReady' /\ StopReportsGone'
  <2>1. srv[c] = "none" /\ \A d \in Stops : pc'[d] = pc[d] /\ hit'[d] = hit[d]
    BY <1>2, ForkEffect, SetFacts DEF ForkInv, Unforked
  <2>2. \A d \in Stops : hit[d] \in {0} \union Starters
    BY DEF TypeOK
  <2> QED
    BY <1>2, <2>1, <2>2, ForkEffect, SetFacts DEF StartReportsReady, StopReportsGone
<1>3. ASSUME NEW s \in Starters, Serves(s) PROVE StartReportsReady' /\ StopReportsGone'
  <2>1. UNCHANGED <<pc, hit>> /\ \A d \in Stops : hit[d] \in {0} \union Starters
    BY <1>3, ServesEffect DEF cmdVars, TypeOK
  <2>2. \A t \in Starters : srv[t] \in {"unlocked", "dead"} => srv'[t] \in {"unlocked", "dead"}
    BY <1>3, ServesEffect DEF Live
  <2> QED
    BY <1>3, <2>1, <2>2, ServesEffect DEF StartReportsReady, StopReportsGone
<1>4. ASSUME NEW n \in Pid, OtherProcess(n) PROVE StartReportsReady' /\ StopReportsGone'
  BY <1>4 DEF StartReportsReady, StopReportsGone, OtherProcess, cmdVars
<1>5. CASE UNCHANGED vars
  BY <1>5 DEF StartReportsReady, StopReportsGone, vars
<1> QED
  BY <1>1, <1>2, <1>3, <1>4, <1>5, Steps

\* Every step keeps the types.
LEMMA TypeStep == TypeOK /\ WaitInv /\ [Next]_vars => TypeOK'
<1> SUFFICES ASSUME TypeOK /\ WaitInv, [Next]_vars PROVE TypeOK'
  OBVIOUS
<1>1. ASSUME NEW c \in Starters, StatusRead(c) PROVE TypeOK'
  <2>1. pc' \in [Cmd -> Place]
    <3>1. pc \in [Cmd -> Place]
      BY DEF TypeOK
    <3>2. pc' = pc \/ \E w \in Place : pc' = [pc EXCEPT ![c] = w]
      BY <1>1, <3>1, SetFacts DEF StatusRead, AfterStatus, Goto, Place, Ended
    <3> QED
      BY <3>1, <3>2
  <2>2. got' \in [Cmd -> {0} \union Pid]
    BY <1>1, SetFacts DEF TypeOK, StatusRead, AfterStatus, Goto
  <2> QED
    BY <1>1, <2>1, <2>2 DEF TypeOK, StatusRead, srvVars
<1>2. ASSUME NEW c \in Starters, StatusKill(c) PROVE TypeOK'
  <2>1. pc' \in [Cmd -> Place]
    BY <1>2, SetFacts DEF TypeOK, StatusKill, AfterStatus, Goto, Place, Ended
  <2> QED
    BY <1>2, <2>1 DEF TypeOK, StatusKill, srvVars
<1>3. ASSUME NEW c \in Starters, DoStart(c) PROVE TypeOK'
  <2>1. pc' \in [Cmd -> Place]
    BY <1>3, SetFacts DEF TypeOK, DoStart, Goto, Place, Ended
  <2>2. before' \in [Starters -> SUBSET Starters]
    BY <1>3, SetFacts DEF TypeOK, DoStart, Goto
  <2> QED
    BY <1>3, <2>1, <2>2 DEF TypeOK, DoStart, srvVars
<1>4. ASSUME NEW c \in Starters, StartPostmaster(c) PROVE TypeOK'
  <2>1. pid' \in [Starters -> {0} \union Pid]
    BY <1>4, SetFacts DEF TypeOK, StartPostmaster, Goto
  <2>2. srv' \in [Starters -> {"none", "dead"} \union Live]
    BY <1>4, SetFacts DEF TypeOK, StartPostmaster, Goto, Live
  <2>3. pc' \in [Cmd -> Place]
    BY <1>4, SetFacts DEF TypeOK, StartPostmaster, Goto, Place, Ended
  <2> QED
    BY <1>4, <2>1, <2>2, <2>3 DEF TypeOK, StartPostmaster
<1>5. ASSUME NEW c \in Starters, InstallHandler(c) PROVE TypeOK'
  <2>1. pc' \in [Cmd -> Place]
    BY <1>5, SetFacts DEF TypeOK, InstallHandler, Goto, Place, Ended
  <2> QED
    BY <1>5, <2>1 DEF TypeOK, InstallHandler, srvVars
<1>6. ASSUME NEW c \in Starters, WaitRead(c) PROVE TypeOK'
  <2>1. pc' \in [Cmd -> Place]
    BY <1>6, SetFacts DEF TypeOK, WaitRead, Goto, Place, Ended
  <2> QED
    BY <1>6, <2>1 DEF TypeOK, WaitRead, srvVars
<1>7. ASSUME NEW c \in Starters, WaitChild(c) PROVE TypeOK'
  <2>1. pc' \in [Cmd -> Place]
    <3>1. pc \in [Cmd -> Place]
      BY DEF TypeOK
    <3>2. pc' = pc \/ \E w \in Place : pc' = [pc EXCEPT ![c] = w]
      BY <1>7, <3>1, SetFacts DEF WaitChild, Goto, Place, Ended
    <3> QED
      BY <3>1, <3>2
  <2>2. waits' \in [Cmd -> 0..MaxWaits]
    <3>1. waits \in [Cmd -> 0..MaxWaits] /\ c \in Cmd /\ waits[c] < MaxWaits
      BY <1>7, SetFacts DEF TypeOK, WaitChild, WaitInv, Ended
    <3>2. waits' = waits \/ waits' = [waits EXCEPT ![c] = @ + 1]
      BY <1>7 DEF WaitChild, NextRound, Counted
    <3> QED
      BY <3>1, <3>2, SetFacts
  <2> QED
    BY <1>7, <2>1, <2>2 DEF TypeOK, WaitChild, srvVars
<1>8. ASSUME NEW c \in Starters, Interrupt(c) PROVE TypeOK'
  <2>1. pc' \in [Cmd -> Place]
    <3>1. pc \in [Cmd -> Place]
      BY DEF TypeOK
    <3>2. pc' = pc \/ \E w \in Place : pc' = [pc EXCEPT ![c] = w]
      BY <1>8, <3>1, SetFacts DEF Interrupt, Goto, Place, Ended
    <3> QED
      BY <3>1, <3>2
  <2>2. sig' \subseteq Starters
    BY <1>8, SetFacts DEF TypeOK, Interrupt, Forwarded, Goto
  <2> QED
    BY <1>8, <2>1, <2>2 DEF TypeOK, Interrupt
<1>9. ASSUME NEW c \in Stops, StopRead(c) PROVE TypeOK'
  <2>1. pc' \in [Cmd -> Place]
    BY <1>9, SetFacts DEF TypeOK, StopRead, Goto, Place, Ended
  <2>2. got' \in [Cmd -> {0} \union Pid]
    BY <1>9, SetFacts DEF TypeOK, StopRead, Goto
  <2> QED
    BY <1>9, <2>1, <2>2 DEF TypeOK, StopRead, srvVars
<1>10. ASSUME NEW c \in Stops, StopSignal(c) PROVE TypeOK'
  <2>1. pc' \in [Cmd -> Place]
    BY <1>10, SetFacts DEF TypeOK, StopSignal, Goto, Place, Ended
  <2>2. sig' \subseteq Starters
    BY <1>10, SetFacts DEF TypeOK, StopSignal, Goto
  <2>3. hit' \in [Stops -> {0} \union Starters]
    BY <1>10, SetFacts DEF TypeOK, StopSignal, Goto
  <2> QED
    BY <1>10, <2>1, <2>2, <2>3 DEF TypeOK, StopSignal
<1>11. ASSUME NEW c \in Stops, StopWait(c) PROVE TypeOK'
  <2>1. pc' \in [Cmd -> Place]
    <3>1. pc \in [Cmd -> Place]
      BY DEF TypeOK
    <3>2. pc' = pc \/ \E w \in Place : pc' = [pc EXCEPT ![c] = w]
      BY <1>11, <3>1, SetFacts DEF StopWait, Goto, Place, Ended
    <3> QED
      BY <3>1, <3>2
  <2>2. got' \in [Cmd -> {0} \union Pid]
    BY <1>11, SetFacts DEF TypeOK, StopWait, Goto
  <2> QED
    BY <1>11, <2>1, <2>2 DEF TypeOK, StopWait, srvVars
<1>12. ASSUME NEW c \in Stops, StopTest(c) PROVE TypeOK'
  <2>1. pc' \in [Cmd -> Place]
    <3>1. pc \in [Cmd -> Place]
      BY DEF TypeOK
    <3>2. pc' = pc \/ \E w \in Place : pc' = [pc EXCEPT ![c] = w]
      BY <1>12, <3>1, SetFacts DEF StopTest, TimeoutResult, Goto, Place, Ended
    <3> QED
      BY <3>1, <3>2
  <2>2. waits' \in [Cmd -> 0..MaxWaits]
    <3>1. waits \in [Cmd -> 0..MaxWaits] /\ c \in Cmd /\ waits[c] < MaxWaits
      BY <1>12, SetFacts DEF TypeOK, StopTest, WaitInv, Ended
    <3>2. waits' = waits \/ waits' = [waits EXCEPT ![c] = @ + 1]
      BY <1>12 DEF StopTest, NextRound, Counted
    <3> QED
      BY <3>1, <3>2, SetFacts
  <2> QED
    BY <1>12, <2>1, <2>2 DEF TypeOK, StopTest, srvVars
<1>13. ASSUME NEW c \in Stops, StopFinal(c) PROVE TypeOK'
  <2>1. pc' \in [Cmd -> Place]
    BY <1>13, SetFacts DEF TypeOK, StopFinal, Goto, Place, Ended
  <2> QED
    BY <1>13, <2>1 DEF TypeOK, StopFinal, srvVars
<1>14. ASSUME NEW s \in Starters, Lock(s) PROVE TypeOK'
  <2>1. file' \in [by : {0} \union Starters, pid : {0} \union Pid,
                      st : {"", "starting", "ready", "stopping"}]
    <3>1. file.by \in {0} \union Starters /\ file.pid \in {0} \union Pid /\ pid[s] \in {0} \union Pid
          /\ file.st \in {"", "starting", "ready", "stopping"}
      BY DEF TypeOK
    <3>2. file' = file \/ \E b \in {0} \union Starters, p \in {0} \union Pid, st \in {"", "starting", "ready", "stopping"} :
             file' = [by |-> b, pid |-> p, st |-> st]
      BY <1>14, <3>1 DEF Lock
    <3>3. CASE file' = file
      BY <3>3 DEF TypeOK
    <3>4. CASE file' # file
      <4>1. PICK b \in {0} \union Starters, p \in {0} \union Pid, st \in {"", "starting", "ready", "stopping"} :
               file' = [by |-> b, pid |-> p, st |-> st]
        BY <3>2, <3>4
      <4> QED
        BY <4>1
    <3> QED
      BY <3>3, <3>4
  <2>2. srv' \in [Starters -> {"none", "dead"} \union Live]
    BY <1>14, SetFacts DEF TypeOK, Lock, Live
  <2> QED
    BY <1>14, <2>1, <2>2 DEF TypeOK, Lock, cmdVars
<1>15. ASSUME NEW s \in Starters, WriteFile(s) PROVE TypeOK'
  <2>1. srv' \in [Starters -> {"none", "dead"} \union Live]
    <3>1. srv \in [Starters -> {"none", "dead"} \union Live]
      BY DEF TypeOK
    <3>2. srv' = srv \/ \E w \in Live : srv' = [srv EXCEPT ![s] = w]
      BY <1>15, <3>1, SetFacts DEF WriteFile, Live
    <3> QED
      BY <3>1, <3>2
  <2>2. file' \in [by : {0} \union Starters, pid : {0} \union Pid,
                      st : {"", "starting", "ready", "stopping"}]
    <3>1. file.by \in {0} \union Starters /\ file.pid \in {0} \union Pid /\ pid[s] \in {0} \union Pid
          /\ file.st \in {"", "starting", "ready", "stopping"}
      BY DEF TypeOK
    <3>2. file' = file \/ \E b \in {0} \union Starters, p \in {0} \union Pid, st \in {"", "starting", "ready", "stopping"} :
             file' = [by |-> b, pid |-> p, st |-> st]
      BY <1>15, <3>1 DEF WriteFile, WithPid, WithStatus
    <3>3. CASE file' = file
      BY <3>3 DEF TypeOK
    <3>4. CASE file' # file
      <4>1. PICK b \in {0} \union Starters, p \in {0} \union Pid, st \in {"", "starting", "ready", "stopping"} :
               file' = [by |-> b, pid |-> p, st |-> st]
        BY <3>2, <3>4
      <4> QED
        BY <4>1
    <3> QED
      BY <3>3, <3>4
  <2> QED
    BY <1>15, <2>1, <2>2 DEF TypeOK, WriteFile, cmdVars
<1>16. ASSUME NEW s \in Starters, Open(s) PROVE TypeOK'
  <2>1. srv' \in [Starters -> {"none", "dead"} \union Live]
    BY <1>16, SetFacts DEF TypeOK, Open, WithStatus, Live
  <2>2. file' \in [by : {0} \union Starters, pid : {0} \union Pid,
                      st : {"", "starting", "ready", "stopping"}]
    BY <1>16, SetFacts DEF TypeOK, Open, WithStatus, NoFile
  <2>3. opened' \subseteq Starters
    BY <1>16, SetFacts DEF TypeOK, Open, WithStatus
  <2> QED
    BY <1>16, <2>1, <2>2, <2>3 DEF TypeOK, Open, cmdVars
<1>17. ASSUME NEW s \in Starters, Stop(s) PROVE TypeOK'
  <2>1. srv' \in [Starters -> {"none", "dead"} \union Live]
    BY <1>17, SetFacts DEF TypeOK, Stop, WithStatus, Live
  <2>2. file' \in [by : {0} \union Starters, pid : {0} \union Pid,
                      st : {"", "starting", "ready", "stopping"}]
    BY <1>17, SetFacts DEF TypeOK, Stop, WithStatus, NoFile
  <2> QED
    BY <1>17, <2>1, <2>2 DEF TypeOK, Stop, cmdVars
<1>18. ASSUME NEW s \in Starters, Exit(s) PROVE TypeOK'
  <2>1. srv' \in [Starters -> {"none", "dead"} \union Live]
    <3>1. srv \in [Starters -> {"none", "dead"} \union Live]
      BY DEF TypeOK
    <3>2. srv' = srv \/ \E w \in {"dead"} \union Live : srv' = [srv EXCEPT ![s] = w]
      BY <1>18, <3>1, SetFacts DEF Exit, Live
    <3> QED
      BY <3>1, <3>2
  <2>2. file' \in [by : {0} \union Starters, pid : {0} \union Pid,
                      st : {"", "starting", "ready", "stopping"}]
    <3>1. file.by \in {0} \union Starters /\ file.pid \in {0} \union Pid /\ pid[s] \in {0} \union Pid
          /\ file.st \in {"", "starting", "ready", "stopping"}
      BY DEF TypeOK
    <3>2. file' = file \/ \E b \in {0} \union Starters, p \in {0} \union Pid, st \in {"", "starting", "ready", "stopping"} :
             file' = [by |-> b, pid |-> p, st |-> st]
      BY <1>18, <3>1 DEF Exit, NoFile
    <3>3. CASE file' = file
      BY <3>3 DEF TypeOK
    <3>4. CASE file' # file
      <4>1. PICK b \in {0} \union Starters, p \in {0} \union Pid, st \in {"", "starting", "ready", "stopping"} :
               file' = [by |-> b, pid |-> p, st |-> st]
        BY <3>2, <3>4
      <4> QED
        BY <4>1
    <3> QED
      BY <3>3, <3>4
  <2> QED
    BY <1>18, <2>1, <2>2 DEF TypeOK, Exit, cmdVars
<1>19. ASSUME NEW s \in Starters, Kill9(s) PROVE TypeOK'
  <2>1. kills' \in 0..MaxKills
    <3>1. kills \in 0..MaxKills
      BY DEF TypeOK
    <3> QED
      BY <1>19, <3>1, SetFacts DEF Kill9
  <2>2. srv' \in [Starters -> {"none", "dead"} \union Live]
    BY <1>19, SetFacts DEF TypeOK, Kill9, Live
  <2> QED
    BY <1>19, <2>1, <2>2 DEF TypeOK, Kill9, cmdVars
<1>20. ASSUME NEW n \in Pid, OtherProcess(n) PROVE TypeOK'
  <2>1. others' \subseteq Pid
    BY <1>20, SetFacts DEF TypeOK, OtherProcess
  <2> QED
    BY <1>20, <2>1 DEF TypeOK, OtherProcess, cmdVars
<1>21. CASE UNCHANGED vars
  BY <1>21 DEF vars, TypeOK
<1> QED
  BY <1>1, <1>2, <1>3, <1>4, <1>5, <1>6, <1>7, <1>8, <1>9, <1>10, <1>11, <1>12, <1>13, <1>14, <1>15, <1>16, <1>17, <1>18, <1>19, <1>20, <1>21 DEF Next, StartStep, StopStep

\* The last round ends the command.
LEMMA WaitStep == TypeOK /\ WaitInv /\ [Next]_vars => WaitInv'
<1> SUFFICES ASSUME TypeOK, WaitInv, [Next]_vars PROVE WaitInv'
  OBVIOUS
<1>1. pc \in [Cmd -> Place] /\ waits \in [Cmd -> 0..MaxWaits]
  BY DEF TypeOK
<1>2. ASSUME NEW c \in Cmd, Quiet(c) PROVE WaitInv'
  <2>1. \A d \in Cmd : d # c => pc'[d] = pc[d]
    BY <1>2, QuietEffect
  <2>2. \/ waits' = waits /\ pc[c] \notin Ended
        \/ waits' = [waits EXCEPT ![c] = @ + 1] /\ (waits[c] + 1 >= MaxWaits => pc'[c] \in Ended)
    <3> USE <1>1, SetFacts DEF Ended
    <3>1. CASE c \in Starters /\ WaitChild(c)
      BY <3>1 DEF WaitChild, NextRound, Counted, OutOfPatience, Goto
    <3>2. CASE c \in Stops /\ StopTest(c)
      BY <3>2 DEF StopTest, NextRound, Counted, OutOfPatience, TimeoutResult, Goto
    <3> QED
      BY <1>2, <3>1, <3>2 DEF Quiet, StopStep, StatusRead, StatusKill, DoStart, InstallHandler, WaitRead,
         Interrupt, StopRead, StopSignal, StopWait, StopFinal
  <2> QED
    BY <1>1, <2>1, <2>2, SetFacts DEF WaitInv
<1>3. ASSUME NEW c \in Starters, StartPostmaster(c) PROVE WaitInv'
  BY <1>1, <1>3, ForkEffect, SetFacts DEF WaitInv, StartPostmaster, Ended
<1>4. ASSUME NEW s \in Starters, Serves(s) PROVE WaitInv'
  BY <1>4, ServesEffect DEF WaitInv, cmdVars
<1>5. ASSUME NEW n \in Pid, OtherProcess(n) PROVE WaitInv'
  BY <1>5 DEF WaitInv, OtherProcess, cmdVars
<1>6. CASE UNCHANGED vars
  BY <1>6 DEF WaitInv, vars
<1> QED
  BY <1>2, <1>3, <1>4, <1>5, <1>6, Steps

\* The initial state is one of them.
LEMMA InitServer == Init => ServerInv
<1> SUFFICES ASSUME Init PROVE ServerInv
  OBVIOUS
<1>1. TypeOK
  <2>1. pc \in [Cmd -> Place]
    BY DEF Init, First, Place
  <2>2. got \in [Cmd -> {0} \union Pid] /\ waits \in [Cmd -> 0..MaxWaits] /\ kills \in 0..MaxKills
    BY SetFacts DEF Init
  <2>3. before \in [Starters -> SUBSET Starters] /\ hit \in [Stops -> {0} \union Starters]
    BY DEF Init
  <2>4. srv \in [Starters -> {"none", "dead"} \union Live] /\ pid \in [Starters -> {0} \union Pid]
    BY DEF Init
  <2>5. file \in [by : {0} \union Starters, pid : {0} \union Pid, st : {"", "starting", "ready", "stopping"}]
    BY DEF Init, NoFile
  <2> QED
    BY <2>1, <2>2, <2>3, <2>4, <2>5 DEF Init, TypeOK
<1>2. WaitInv
  BY SetFacts DEF Init, WaitInv
<1>3. ForkInv
  <2>1. \A c \in Starters : pc[c] \notin Waiting
    BY SetFacts DEF Init, First, Waiting
  <2> QED
    BY <2>1 DEF Init, ForkInv
<1>4. PidInv
  BY SetFacts DEF Init, PidInv, First, Live, Waiting
<1>5. FileInv
  BY SetFacts DEF Init, FileInv, NoFile, Holder
<1>6. StopInv /\ StartReportsReady /\ StopReportsGone
  BY SetFacts DEF Init, StopInv, Inherits, First, StartReportsReady, StopReportsGone
<1> QED
  BY <1>1, <1>2, <1>3, <1>4, <1>5, <1>6 DEF ServerInv

\* Every step preserves the invariant.
LEMMA ServerStep == ServerInv /\ [Next]_vars => ServerInv'
BY TypeStep, WaitStep, ForkStep, PidStep, FileStep, StopInvStep, ReportStep DEF ServerInv

\* pg_ctl start (wait_for_postmaster_start) reports success only when the server
\* that it started itself has been ready to accept connections: for any number
\* of commands and servers beside it, any order of the process IDs that come
\* back, any kill -9.
THEOREM StartIsTruthful == Spec => []StartReportsReady
<1>1. ServerInv => StartReportsReady
  BY DEF ServerInv
<1> QED
  BY <1>1, InitServer, ServerStep, PTL DEF Spec

\* pg_ctl stop (do_stop, wait_for_postmaster_stop) reports success only when the
\* server that its signal reached has removed its postmaster.pid or is dead.
THEOREM StopIsTruthful == Spec => []StopReportsGone
<1>1. ServerInv => StopReportsGone
  BY DEF ServerInv
<1> QED
  BY <1>1, InitServer, ServerStep, PTL DEF Spec

=============================================================================
