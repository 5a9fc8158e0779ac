---------------------------- MODULE CkptRequest ----------------------------
(***************************************************************************)
(* How a backend asks for a checkpoint and waits for it (checkpointer.c):  *)
(* RequestCheckpoint in the backends, the main loop of the checkpointer,   *)
(* and between them the request flags, the counters of checkpoints         *)
(* started, done and failed, the checkpointer's latch and two condition    *)
(* variables.                                                              *)
(*                                                                         *)
(* A checkpoint naps, and then succeeds or raises an ERROR; SyncRequests   *)
(* has what else it does.  The server is out of recovery, and the          *)
(* checkpointer may not have started when the first requests are made.     *)
(***************************************************************************)
EXTENDS Integers

CONSTANTS Backend,
          Half,          \* half the number of values of a counter, 2^31 in the code
          FirstStarted,  \* ckpt_started and ckpt_done at the start
          FirstFailed,   \* ckpt_failed at the start
          MaxCalls,      \* bound: requests of all backends
          MaxOther       \* bound: checkpoints because of time, and errors outside them

Counter == 0..2 * Half - 1

\* Fewer checkpoints than the counters can tell apart.
ASSUME RequestAssumption ==
    /\ Half \in Nat /\ MaxCalls \in Nat /\ MaxOther \in Nat
    /\ FirstStarted \in Counter /\ FirstFailed \in Counter
    /\ MaxCalls + MaxOther < Half

VARIABLES flags,     \* ckpt_flags is not zero
          started,   \* ckpt_started
          done,      \* ckpt_done
          failed,    \* ckpt_failed
          latch,     \* the checkpointer's latch is set
          cpc,       \* where the checkpointer is
          call,      \* each backend's call of RequestCheckpoint
          start_cv,  \* who is on the list of start_cv
          done_cv,   \* who is on the list of done_cv
          calls,     \* calls made
          other,     \* checkpoints because of time, and errors outside checkpoints
          begun,     \* checkpoints begun
          good,      \* the number of the last one that was completed
          bad        \* checkpoints that failed

shared == <<flags, started, done, failed, calls, other, begun, good, bad>>
vars == <<shared, latch, cpc, call, start_cv, done_cv>>

Inc(n) == IF n = 2 * Half - 1 THEN 0 ELSE n + 1

NoCall == [pc |-> "idle", wait |-> FALSE, at |-> 0,
           old_started |-> 0, old_failed |-> 0, new_started |-> 0]

Init ==
    /\ flags = FALSE
    /\ started = FirstStarted /\ done = FirstStarted /\ failed = FirstFailed
    /\ latch = FALSE /\ cpc = "off"
    /\ call = [b \in Backend |-> NoCall]
    /\ start_cv = {} /\ done_cv = {}
    /\ calls = 0 /\ other = 0 /\ begun = 0 /\ good = 0 /\ bad = 0

-----------------------------------------------------------------------------
\* Under ckpt_lck: a snapshot of the counters, and the flags.
RequestCheckpoint(b) ==
    /\ call[b] = NoCall
    /\ calls < MaxCalls
    /\ calls' = calls + 1
    /\ \E w \in BOOLEAN :
        call' = [call EXCEPT ![b] = [pc |-> "signal", wait |-> w, at |-> begun,
            old_started |-> started, old_failed |-> failed, new_started |-> started]]
    /\ flags' = TRUE
    /\ UNCHANGED <<started, done, failed, other, begun, good, bad, latch, cpc, start_cv, done_cv>>

Goto(b, where) == call' = [call EXCEPT ![b].pc = where]

\* elog(ERROR), or the return of a call that does not wait.
Return(b) == call' = [call EXCEPT ![b] = NoCall]

\* SIGINT, whose handler sets the latch.  Without a checkpointer a backend that is
\* to wait tries again, up to MAX_SIGNAL_TRIES times, and the others return.
Signal(b) ==
    /\ call[b].pc = "signal"
    /\ latch' = (latch \/ cpc # "off")
    /\ IF call[b].wait /\ cpc # "off" THEN Goto(b, "prepare_start") ELSE Return(b)
    /\ UNCHANGED <<shared, cpc, start_cv, done_cv>>

\* ConditionVariablePrepareToSleep, and what ConditionVariableSleep does once the
\* backend has been taken off the list: it puts itself back, then tests again.
PrepareStart(b) ==
    /\ \/ call[b].pc = "prepare_start"
       \/ call[b].pc = "sleep_start" /\ b \notin start_cv
    /\ start_cv' = start_cv \union {b}
    /\ Goto(b, "test_start")
    /\ UNCHANGED <<shared, latch, cpc, done_cv>>

\* new_started != old_started: the flags set here have been seen.
NewStart(b) == started # call[b].old_started

TestStart(b) ==
    /\ call[b].pc = "test_start"
    /\ IF NewStart(b)
       THEN /\ call' = [call EXCEPT ![b].pc = "prepare_done", ![b].new_started = started]
            /\ start_cv' = start_cv \ {b}
       ELSE Goto(b, "sleep_start") /\ UNCHANGED start_cv
    /\ UNCHANGED <<shared, latch, cpc, done_cv>>

PrepareDone(b) ==
    /\ \/ call[b].pc = "prepare_done"
       \/ call[b].pc = "sleep_done" /\ b \notin done_cv
    /\ done_cv' = done_cv \union {b}
    /\ Goto(b, "test_done")
    /\ UNCHANGED <<shared, latch, cpc, start_cv>>

\* new_done - new_started >= 0, where the subtraction wraps into -Half..Half - 1.
PlainOrder(b) == done >= call[b].new_started
IsDone(b) == \/ done - call[b].new_started \in 0..Half - 1
             \/ done - call[b].new_started < -Half

\* new_failed != old_failed.
SawFailure(b) == failed # call[b].old_failed

TestDone(b) ==
    /\ call[b].pc = "test_done"
    /\ IF IsDone(b)
       THEN /\ IF SawFailure(b) THEN Return(b) ELSE Goto(b, "ok")
            /\ done_cv' = done_cv \ {b}
       ELSE Goto(b, "sleep_done") /\ UNCHANGED done_cv
    /\ UNCHANGED <<shared, latch, cpc, start_cv>>

ReturnOk(b) ==
    /\ call[b].pc = "ok"
    /\ Return(b)
    /\ UNCHANGED <<shared, latch, cpc, start_cv, done_cv>>

BackendStep(b) == \/ Signal(b) \/ PrepareStart(b) \/ TestStart(b)
                  \/ PrepareDone(b) \/ TestDone(b) \/ ReturnOk(b)

-----------------------------------------------------------------------------
At(here, there) == cpc = here /\ cpc' = there

\* CheckpointerMain has set checkpointer_pid.
StartUp ==
    /\ At("off", "reset")
    /\ UNCHANGED <<shared, latch, call, start_cv, done_cv>>

\* The latch is reset before the flags are looked at.
ResetLatch ==
    /\ At("reset", "look")
    /\ latch' = FALSE
    /\ UNCHANGED <<shared, call, start_cv, done_cv>>

\* Is there a request, or is it time?
Look ==
    /\ \/ flags /\ At("look", "begin") /\ UNCHANGED other
       \/ ~flags /\ At("look", "look_again") /\ UNCHANGED other
       \/ other < MaxOther /\ At("look", "begin") /\ other' = other + 1
    /\ UNCHANGED <<flags, started, done, failed, calls, begun, good, bad, latch, call, start_cv, done_cv>>

\* Under ckpt_lck the flags are taken and ckpt_started is increased.
Begin ==
    /\ At("begin", "tell_start")
    /\ flags' = FALSE
    /\ started' = Inc(started)
    /\ begun' = begun + 1
    /\ UNCHANGED <<done, failed, calls, other, good, bad, latch, call, start_cv, done_cv>>

\* ConditionVariableBroadcast(start_cv), which takes all from the list.
BroadcastStart ==
    /\ At("tell_start", "checkpoint")
    /\ start_cv' = {}
    /\ UNCHANGED <<shared, latch, call, done_cv>>

\* CheckpointWriteDelay naps between two writes of the checkpoint, and resets the latch.
Nap ==
    /\ At("checkpoint", "checkpoint")
    /\ latch' = FALSE
    /\ UNCHANGED <<shared, call, start_cv, done_cv>>

\* CreateCheckPoint returns ...
Completed ==
    /\ At("checkpoint", "tell_done")
    /\ done' = started
    /\ good' = begun
    /\ UNCHANGED <<flags, started, failed, calls, other, begun, bad, latch, call, start_cv, done_cv>>

\* ... or raises an ERROR: with ckpt_active the handler counts the failure.
DoneUnlessFailed == done
DoneOnError == started

Failed ==
    /\ At("checkpoint", "tell_failed")
    /\ failed' = Inc(failed)
    /\ bad' = bad + 1
    /\ done' = DoneOnError
    /\ UNCHANGED <<flags, started, calls, other, begun, good, latch, call, start_cv, done_cv>>

BroadcastDone ==
    /\ At("tell_done", "look_again") \/ At("tell_failed", "reset")
    /\ done_cv' = {}
    /\ UNCHANGED <<shared, latch, call, start_cv>>

\* The flags once more before WaitLatch.
SleepAnyway ==
    /\ At("look_again", "wait")
    /\ UNCHANGED <<shared, latch, call, start_cv, done_cv>>
LookAgain ==
    /\ IF flags THEN At("look_again", "reset") ELSE At("look_again", "wait")
    /\ UNCHANGED <<shared, latch, call, start_cv, done_cv>>

\* An ERROR outside a checkpoint leads to the head of the loop as well.
OtherError ==
    /\ At("look", "reset") \/ At("look_again", "reset")
    /\ other < MaxOther
    /\ other' = other + 1
    /\ UNCHANGED <<flags, started, done, failed, calls, begun, good, bad, latch, call, start_cv, done_cv>>

\* The timeout of WaitLatch is not relied on.
WaitLatch ==
    /\ At("wait", "reset")
    /\ latch
    /\ UNCHANGED <<shared, latch, call, start_cv, done_cv>>

CheckpointerStep ==
    \/ StartUp \/ ResetLatch \/ Look \/ Begin \/ BroadcastStart \/ Nap
    \/ Completed \/ Failed \/ BroadcastDone \/ LookAgain \/ OtherError \/ WaitLatch

Next == \/ \E b \in Backend : RequestCheckpoint(b) \/ BackendStep(b)
        \/ CheckpointerStep

Spec == Init /\ [][Next]_vars

\* Processes run, and a checkpoint ends one way or the other.
FairSpec == /\ Spec
            /\ \A b \in Backend : WF_vars(BackendStep(b))
            /\ WF_vars(CheckpointerStep)

-----------------------------------------------------------------------------
\* A counter that was at first, increased n times.
Nth(first, n) == IF first + n < 2 * Half THEN first + n ELSE first + n - 2 * Half

\* The checkpoints that have ended, one way or the other.
Ended == IF cpc \in {"tell_start", "checkpoint"} THEN begun - 1 ELSE begun

NumbersOK ==
    /\ started \in Counter /\ done \in Counter /\ failed \in Counter
    /\ calls \in Nat /\ calls <= MaxCalls
    /\ other \in Nat /\ other <= MaxOther
    /\ begun \in Nat /\ good \in Nat /\ bad \in Nat

CallRecord ==
    [pc : {"idle", "signal", "prepare_start", "test_start", "sleep_start",
           "prepare_done", "test_done", "sleep_done", "ok"},
     wait : BOOLEAN, at : Nat,
     old_started : Counter, old_failed : Counter, new_started : Counter]

CallsOK == call \in [Backend -> CallRecord]

TypeOK == NumbersOK /\ CallsOK

CountersInv ==
    /\ begun <= calls + other
    /\ flags \/ cpc = "begin" => begun < calls + other
    /\ cpc \in {"tell_start", "checkpoint"} => begun > 0
    /\ good <= Ended /\ bad <= Ended
    /\ started = Nth(FirstStarted, begun)
    /\ done = Nth(FirstStarted, Ended)
    /\ failed = Nth(FirstFailed, bad)

\* If no failure was counted since the call, what ended since then was completed.
FailureInv(b) ==
    \E f \in 0..bad : /\ call[b].old_failed = Nth(FirstFailed, f)
                      /\ f = bad /\ Ended > call[b].at => good = Ended

CallInv(b) ==
    /\ call[b].at <= begun
    /\ call[b].old_started = Nth(FirstStarted, call[b].at)
    /\ FailureInv(b)
    /\ call[b].pc \in {"prepare_done", "test_done", "sleep_done"} =>
        \E n \in call[b].at + 1..begun : call[b].new_started = Nth(FirstStarted, n)
    /\ call[b].pc = "ok" => good > call[b].at

\* What the counters say of the checkpoints begun, ended and failed, and what a
\* waiting backend may conclude from them: the inductive invariant from which
\* OkMeansCheckpoint follows.
RequestInv == /\ TypeOK /\ CountersInv
              /\ \A b \in Backend : call[b].pc # "idle" => CallInv(b)

\* RequestCheckpoint with CHECKPOINT_WAIT returns without an error only if a
\* checkpoint that began after the call has been completed: not one that was under
\* way at the call, not one that failed, and not by a comparison of counters that
\* have wrapped.
OkMeansCheckpoint ==
    \A b \in Backend : call[b].pc = "ok" => good > call[b].at

\* Every call returns: no wakeup of the checkpointer or of a waiting backend is lost,
\* whatever other, time-driven or failed checkpoints come between.
RequestReturns == \A b \in Backend : call[b] # NoCall ~> call[b] = NoCall

\* A request is taken up, also one that nobody waits for and one that was made
\* before there was a checkpointer to signal.
RequestIsServed == flags ~> ~flags

=============================================================================
