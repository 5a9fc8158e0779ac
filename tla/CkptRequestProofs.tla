------------------------- MODULE CkptRequestProofs -------------------------
(***************************************************************************)
(* RequestInv is an inductive invariant of CkptRequest for any number of   *)
(* backends, any values of the counters at the start and any number of     *)
(* checkpoints that is less than half the range of the counters, and       *)
(* OkMeansCheckpoint follows from it.                                      *)
(***************************************************************************)
EXTENDS CkptRequest, TLAPS

\* An increase of a counter is the next value of the counter.
LEMMA IncNth ==
    ASSUME NEW first \in Counter, NEW n \in Nat, n < Half
    PROVE  /\ Nth(first, n) \in Counter
           /\ Nth(first, n + 1) \in Counter
           /\ Inc(Nth(first, n)) = Nth(first, n + 1)
  BY RequestAssumption DEF Counter, Nth, Inc

\* A counter that has not been increased too often tells how often.
LEMMA NthInjective ==
    ASSUME NEW first \in Counter, NEW m \in Nat, NEW n \in Nat, m < Half, n < Half,
           Nth(first, m) = Nth(first, n)
    PROVE  m = n
  BY RequestAssumption DEF Counter, Nth

\* The comparison of RequestCheckpoint, across a wraparound.
LEMMA WrappedOrder ==
    ASSUME NEW first \in Counter, NEW m \in Nat, NEW n \in Nat, m < Half, n < Half,
           \/ Nth(first, m) - Nth(first, n) \in 0..Half - 1
           \/ Nth(first, m) - Nth(first, n) < -Half
    PROVE  n <= m
  BY RequestAssumption DEF Counter, Nth

\* The invariant bounds the number of checkpoints.
LEMMA FewCheckpoints ==
    ASSUME TypeOK, CountersInv
    PROVE  /\ begun < Half /\ Ended \in Nat /\ Ended <= begun
           /\ cpc = "begin" => begun + 1 < Half
           /\ bad <= begun /\ good <= begun
           /\ begun \in Nat /\ bad \in Nat /\ good \in Nat
  BY RequestAssumption DEF TypeOK, NumbersOK, CountersInv, Ended, Counter

\* The initial states satisfy the invariant.
THEOREM RequestInit == Init => RequestInv
<1> SUFFICES ASSUME Init PROVE RequestInv
  OBVIOUS
<1>1. TypeOK
  BY RequestAssumption DEF Init, TypeOK, NumbersOK, CallsOK, CallRecord, NoCall, Counter
<1>2. CountersInv
  BY RequestAssumption DEF Init, CountersInv, Ended, Nth, Counter
<1> QED
  BY <1>1, <1>2 DEF Init, RequestInv, NoCall

\* Nothing of the invariant but a backend's own part depends on its call.
LEMMA CallStep ==
    ASSUME NEW b \in Backend, RequestInv, TypeOK',
           UNCHANGED <<flags, started, done, failed, other, begun, good, bad, cpc, calls>>,
           \A c \in Backend \ {b} : call'[c] = call[c],
           call'[b].pc # "idle" => CallInv(b)'
    PROVE  RequestInv'
<1>1. CountersInv'
  BY DEF RequestInv, CountersInv, Ended
<1>2. ASSUME NEW c \in Backend, call'[c].pc # "idle", c # b PROVE CallInv(c)'
  <2>1. CallInv(c) /\ call'[c] = call[c]
    BY <1>2 DEF RequestInv
  <2> QED
    BY <2>1 DEF CallInv, FailureInv, Ended
<1> QED
  BY <1>1, <1>2 DEF RequestInv

\* Moving on inside a call.
LEMMA CallMoves ==
    ASSUME NEW b \in Backend, RequestInv,
           UNCHANGED <<shared, cpc>>,
           NEW where \in {"prepare_start", "test_start", "sleep_start",
                          "prepare_done", "test_done", "sleep_done", "ok"},
           call' = [call EXCEPT ![b].pc = where],
           call[b].pc # "idle",
           where \in {"prepare_done", "test_done", "sleep_done"} =>
               call[b].pc \in {"prepare_done", "test_done", "sleep_done"},
           where = "ok" => good > call[b].at
    PROVE  RequestInv'
<1>1. TypeOK'
  BY DEF RequestInv, TypeOK, NumbersOK, CallsOK, CallRecord, shared
<1>2. CallInv(b)
  BY DEF RequestInv
<1>3. /\ call'[b].at = call[b].at /\ call'[b].old_started = call[b].old_started
      /\ call'[b].old_failed = call[b].old_failed
      /\ call'[b].new_started = call[b].new_started /\ call'[b].pc = where
  BY DEF RequestInv, TypeOK, NumbersOK, CallsOK, CallRecord
<1>4. CallInv(b)'
  BY <1>2, <1>3 DEF CallInv, FailureInv, Ended, shared
<1>5. \A c \in Backend \ {b} : call'[c] = call[c]
  BY DEF RequestInv, TypeOK, NumbersOK, CallsOK, CallRecord
<1> QED
  BY <1>1, <1>4, <1>5, CallStep DEF shared

\* The end of a call.
LEMMA CallReturns ==
    ASSUME NEW b \in Backend, RequestInv, Return(b),
           UNCHANGED <<shared, cpc>>
    PROVE  RequestInv'
<1>1. TypeOK'
  BY RequestAssumption DEF RequestInv, TypeOK, NumbersOK, CallsOK, CallRecord, shared, Return, NoCall, Counter
<1>2. call'[b].pc = "idle" /\ \A c \in Backend \ {b} : call'[c] = call[c]
  BY DEF RequestInv, TypeOK, NumbersOK, CallsOK, CallRecord, Return, NoCall
<1> QED
  BY <1>1, <1>2, CallStep DEF shared

\* A step of the checkpointer leaves the calls alone.
LEMMA CheckpointerMoves ==
    ASSUME RequestInv, TypeOK', CountersInv', UNCHANGED call,
           begun <= begun', good <= good', bad' = bad, Ended' = Ended, good' = good
    PROVE  RequestInv'
<1>1. ASSUME NEW b \in Backend, call'[b].pc # "idle" PROVE CallInv(b)'
  <2>1. CallInv(b)
    BY <1>1 DEF RequestInv
  <2>2. begun \in Nat /\ begun' \in Nat /\ call[b].at \in Nat
    BY DEF RequestInv, TypeOK, NumbersOK, CallsOK, CallRecord
  <2> QED
    BY <2>1, <2>2 DEF CallInv, FailureInv
<1> QED
  BY <1>1 DEF RequestInv

\* Every step preserves the invariant.
THEOREM RequestNext == RequestInv /\ [Next]_vars => RequestInv'
<1> SUFFICES ASSUME RequestInv, [Next]_vars PROVE RequestInv'
  OBVIOUS
<1> USE DEF shared
<1>t. TypeOK /\ CountersInv
  BY DEF RequestInv
<1>f. /\ begun < Half /\ Ended \in Nat /\ Ended <= begun
      /\ cpc = "begin" => begun + 1 < Half
      /\ bad <= begun /\ good <= begun
      /\ begun \in Nat /\ bad \in Nat /\ good \in Nat
  BY <1>t, FewCheckpoints
<1>1. CASE UNCHANGED vars
  <2>1. TypeOK' /\ CountersInv' /\ Ended' = Ended
    BY <1>1, <1>t DEF vars, TypeOK, NumbersOK, CallsOK, CallRecord, CountersInv, Ended
  <2> QED
    BY <1>1, <2>1, <1>f, CheckpointerMoves DEF vars
<1>2. ASSUME NEW b \in Backend, RequestCheckpoint(b) PROVE RequestInv'
  <2>1. PICK w \in BOOLEAN :
          call' = [call EXCEPT ![b] = [pc |-> "signal", wait |-> w, at |-> begun,
            old_started |-> started, old_failed |-> failed, new_started |-> started]]
    BY <1>2 DEF RequestCheckpoint
  <2>2. TypeOK'
    BY <1>2, <1>t, <2>1, RequestAssumption DEF RequestCheckpoint, TypeOK, NumbersOK, CallsOK, CallRecord
  <2>3. CountersInv'
    BY <1>2, <1>t, RequestAssumption DEF RequestCheckpoint, TypeOK, NumbersOK, CallsOK, CallRecord, CountersInv, Ended
  <2>4. ASSUME NEW c \in Backend, call'[c].pc # "idle" PROVE CallInv(c)'
    <3>1. CASE c = b
      <4>1. /\ call'[b].pc = "signal" /\ call'[b].at = begun
            /\ call'[b].old_started = started /\ call'[b].old_failed = failed
        BY <2>1, <1>t DEF TypeOK, NumbersOK, CallsOK, CallRecord
      <4>2. bad \in 0..bad
        BY <1>f
      <4> QED
        BY <3>1, <4>1, <4>2, <1>2, <1>t, <1>f DEF CallInv, FailureInv, RequestCheckpoint, CountersInv, Ended
    <3>2. CASE c # b
      <4>1. call'[c] = call[c] /\ CallInv(c)
        BY <2>1, <2>4, <3>2, <1>t DEF TypeOK, NumbersOK, CallsOK, CallRecord, RequestInv
      <4> QED
        BY <4>1, <1>2 DEF CallInv, FailureInv, RequestCheckpoint, Ended
    <3> QED
      BY <3>1, <3>2
  <2> QED
    BY <2>2, <2>3, <2>4 DEF RequestInv
<1>3. ASSUME NEW b \in Backend, Signal(b) PROVE RequestInv'
  <2>1. UNCHANGED <<shared, cpc>> /\ call[b].pc # "idle"
    BY <1>3 DEF Signal
  <2> QED
    BY <1>3, <2>1, CallMoves, CallReturns DEF Signal, Goto
<1>4. ASSUME NEW b \in Backend, PrepareStart(b) PROVE RequestInv'
  BY <1>4, <1>t, CallMoves DEF PrepareStart, Goto, TypeOK, NumbersOK, CallsOK, CallRecord
<1>5. ASSUME NEW b \in Backend, TestStart(b) PROVE RequestInv'
  <2>1. CASE ~NewStart(b)
    BY <1>5, <2>1, <1>t, CallMoves DEF TestStart, Goto, TypeOK, NumbersOK, CallsOK, CallRecord
  <2>2. CASE NewStart(b)
    <3>1. call' = [call EXCEPT ![b].pc = "prepare_done", ![b].new_started = started]
      BY <1>5, <2>2 DEF TestStart
    <3>2. TypeOK'
      <4>1. NumbersOK'
        BY <1>5, <1>t DEF TestStart, TypeOK, NumbersOK
      <4>2. started \in Counter
        BY <1>t DEF TypeOK, NumbersOK
      <4>3. CallsOK'
        <5>1. call \in [Backend -> CallRecord]
          BY <1>t DEF TypeOK, CallsOK
        <5>2. [call[b] EXCEPT !.pc = "prepare_done", !.new_started = started] \in CallRecord
          BY <5>1, <4>2 DEF CallRecord
        <5>3. call' = [call EXCEPT ![b] = [call[b] EXCEPT !.pc = "prepare_done", !.new_started = started]]
          BY <3>1, <5>1 DEF CallRecord
        <5>4. call' \in [Backend -> CallRecord]
          BY <5>1, <5>2, <5>3
        <5> QED
          BY <5>4 DEF CallsOK
      <4> QED
        BY <4>1, <4>3 DEF TypeOK
    <3>3. CallInv(b) /\ call[b].at \in Nat
      BY <1>5, <1>t DEF TestStart, RequestInv, TypeOK, NumbersOK, CallsOK, CallRecord
    <3>4. /\ call'[b].at = call[b].at /\ call'[b].old_started = call[b].old_started
          /\ call'[b].old_failed = call[b].old_failed
          /\ call'[b].new_started = started /\ call'[b].pc = "prepare_done"
      BY <3>1, <1>t DEF TypeOK, NumbersOK, CallsOK, CallRecord
    <3>5. begun \in call[b].at + 1..begun
      BY <2>2, <3>3, <1>f, <1>t DEF NewStart, CallInv, CountersInv
    <3>6. CallInv(b)'
      BY <3>3, <3>4, <3>5, <1>5, <1>t DEF CallInv, FailureInv, TestStart, CountersInv, Ended
    <3>7. \A c \in Backend \ {b} : call'[c] = call[c]
      BY <3>1, <1>t DEF TypeOK, NumbersOK, CallsOK, CallRecord
    <3> QED
      BY <3>2, <3>6, <3>7, <1>5, CallStep DEF TestStart
  <2> QED
    BY <2>1, <2>2
<1>6. ASSUME NEW b \in Backend, PrepareDone(b) PROVE RequestInv'
  BY <1>6, <1>t, CallMoves DEF PrepareDone, Goto, TypeOK, NumbersOK, CallsOK, CallRecord
<1>7. ASSUME NEW b \in Backend, TestDone(b) PROVE RequestInv'
  <2>1. CallInv(b) /\ call[b].at \in Nat
    BY <1>7, <1>t DEF TestDone, RequestInv, TypeOK, NumbersOK, CallsOK, CallRecord
  <2>2. IsDone(b) /\ ~SawFailure(b) => good > call[b].at
    <3> SUFFICES ASSUME IsDone(b), ~SawFailure(b) PROVE good > call[b].at
      OBVIOUS
    <3>1. PICK n \in call[b].at + 1..begun : call[b].new_started = Nth(FirstStarted, n)
      BY <1>7, <2>1 DEF TestDone, CallInv
    <3>2. PICK f \in 0..bad : /\ call[b].old_failed = Nth(FirstFailed, f)
                              /\ f = bad /\ Ended > call[b].at => good = Ended
      <4>1. FailureInv(b)
        BY <2>1 DEF CallInv
      <4> QED
        BY <4>1 DEF FailureInv
    <3>3. n <= Ended
      <4>1. n \in Nat /\ n < Half /\ Ended < Half
        BY <3>1, <2>1, <1>f, RequestAssumption
      <4>2. done = Nth(FirstStarted, Ended)
        BY <1>t DEF CountersInv
      <4> QED
        BY <4>1, <4>2, <3>1, <1>f, WrappedOrder, RequestAssumption DEF IsDone
    <3>4. f = bad
      <4>1. f \in Nat /\ f < Half /\ bad < Half /\ Half \in Nat
        BY <3>2, <1>f, RequestAssumption
      <4>2. Nth(FirstFailed, f) = Nth(FirstFailed, bad)
        BY <3>2, <1>t DEF SawFailure, CountersInv
      <4> QED
        BY <4>1, <4>2, <1>f, NthInjective, RequestAssumption
    <3> QED
      BY <3>1, <3>2, <3>3, <3>4, <2>1, <1>f
  <2>3. CASE IsDone(b) /\ SawFailure(b)
    BY <1>7, <2>3, <1>t, CallReturns DEF TestDone, TypeOK, NumbersOK, CallsOK, CallRecord
  <2>4. CASE IsDone(b) /\ ~SawFailure(b)
    BY <1>7, <2>2, <2>4, <1>t, CallMoves DEF TestDone, Goto, TypeOK, NumbersOK, CallsOK, CallRecord
  <2>5. CASE ~IsDone(b)
    BY <1>7, <2>5, <1>t, CallMoves DEF TestDone, Goto, TypeOK, NumbersOK, CallsOK, CallRecord
  <2> QED
    BY <2>3, <2>4, <2>5
<1>8. ASSUME NEW b \in Backend, ReturnOk(b) PROVE RequestInv'
  BY <1>8, <1>t, CallReturns DEF ReturnOk, TypeOK, NumbersOK, CallsOK, CallRecord
<1>9. CASE StartUp \/ ResetLatch \/ Nap \/ BroadcastStart \/ BroadcastDone \/ LookAgain \/ WaitLatch
  <2>1. TypeOK'
    BY <1>9, <1>t DEF StartUp, ResetLatch, Nap, BroadcastStart, BroadcastDone, LookAgain, WaitLatch, At, TypeOK, NumbersOK, CallsOK, CallRecord
  <2>2. Ended' = Ended /\ UNCHANGED <<shared, call>>
    BY <1>9 DEF StartUp, ResetLatch, Nap, BroadcastStart, BroadcastDone, LookAgain, WaitLatch, At, Ended
  <2>3. CountersInv'
    BY <1>9, <1>t, <2>2, <1>f DEF StartUp, ResetLatch, Nap, BroadcastStart, BroadcastDone, LookAgain, WaitLatch, At, CountersInv
  <2> QED
    BY <2>1, <2>2, <2>3, <1>f, CheckpointerMoves
<1>10. CASE Look \/ OtherError
  <2>1. TypeOK'
    BY <1>10, <1>t, RequestAssumption DEF Look, OtherError, At, TypeOK, NumbersOK, CallsOK, CallRecord
  <2>2. Ended' = Ended /\ UNCHANGED <<begun, good, bad, call>>
    BY <1>10 DEF Look, OtherError, At, Ended
  <2>3. CountersInv'
    BY <1>10, <1>t, <2>2, <1>f, RequestAssumption DEF Look, OtherError, At, CountersInv, TypeOK, NumbersOK, CallsOK, CallRecord
  <2> QED
    BY <2>1, <2>2, <2>3, <1>f, CheckpointerMoves
<1>11. CASE Begin
  <2>1. started' = Nth(FirstStarted, begun + 1) /\ started' \in Counter
    BY <1>11, <1>t, <1>f, IncNth, RequestAssumption DEF Begin, CountersInv
  <2>2. TypeOK'
    BY <1>11, <1>t, <2>1 DEF Begin, At, TypeOK, NumbersOK, CallsOK, CallRecord
  <2>3. Ended' = Ended /\ Ended = begun
    BY <1>11, <1>f DEF Begin, At, Ended
  <2>4. CountersInv'
    BY <1>11, <1>t, <2>1, <2>3, <1>f, RequestAssumption DEF Begin, At, CountersInv, TypeOK, NumbersOK, CallsOK, CallRecord
  <2> QED
    BY <2>2, <2>3, <2>4, <1>11, <1>f, CheckpointerMoves DEF Begin
<1>12. CASE Completed
  <2>1. TypeOK'
    BY <1>12, <1>t DEF Completed, At, TypeOK, NumbersOK, CallsOK, CallRecord
  <2>2. Ended' = begun /\ UNCHANGED <<begun, bad, call>> /\ good' = begun
    BY <1>12 DEF Completed, At, Ended
  <2>3. CountersInv'
    BY <1>12, <1>t, <2>2, <1>f DEF Completed, At, CountersInv
  <2>4. ASSUME NEW b \in Backend, call'[b].pc # "idle" PROVE CallInv(b)'
    <3>1. CallInv(b) /\ call[b].at \in Nat
      BY <2>4, <2>2, <1>t DEF RequestInv, TypeOK, NumbersOK, CallsOK, CallRecord
    <3> QED
      BY <3>1, <2>2, <1>f DEF CallInv, FailureInv
  <2> QED
    BY <2>1, <2>3, <2>4 DEF RequestInv
<1>13. CASE Failed
  <2>1. Ended' = begun /\ Ended + 1 = begun /\ bad' = bad + 1 /\ UNCHANGED <<begun, good, call>>
    BY <1>13, <1>f DEF Failed, At, Ended
  <2>2. bad + 1 <= begun
    BY <2>1, <1>f, <1>t DEF CountersInv
  <2>3. failed' = Nth(FirstFailed, bad + 1) /\ failed' \in Counter
    BY <1>13, <1>t, <1>f, IncNth, RequestAssumption DEF Failed, CountersInv
  <2>4. TypeOK'
    BY <1>13, <1>t, <2>3 DEF Failed, At, TypeOK, NumbersOK, CallsOK, CallRecord, DoneOnError
  <2>5. CountersInv'
    BY <1>13, <1>t, <2>1, <2>2, <2>3, <1>f DEF Failed, At, CountersInv, DoneOnError
  <2>6. ASSUME NEW b \in Backend, call'[b].pc # "idle" PROVE CallInv(b)'
    <3>1. CallInv(b)
      BY <2>6, <2>1 DEF RequestInv
    <3>2. PICK f \in 0..bad : call[b].old_failed = Nth(FirstFailed, f)
      <4>1. FailureInv(b)
        BY <3>1 DEF CallInv
      <4> QED
        BY <4>1 DEF FailureInv
    <3>3. f \in 0..bad' /\ f # bad'
      BY <3>2, <2>1, <1>f
    <3> QED
      BY <3>1, <3>2, <3>3, <2>1 DEF CallInv, FailureInv
  <2> QED
    BY <2>4, <2>5, <2>6 DEF RequestInv
<1> QED
  BY <1>1, <1>2, <1>3, <1>4, <1>5, <1>6, <1>7, <1>8, <1>9, <1>10, <1>11, <1>12, <1>13
     DEF Next, BackendStep, CheckpointerStep

\* RequestCheckpoint with CHECKPOINT_WAIT returns without an error only if a
\* checkpoint that began after the call has been completed, for any number of
\* backends, wherever the counters start and also when they wrap.
THEOREM OkAfterCheckpoint == Spec => []OkMeansCheckpoint
<1>1. RequestInv => OkMeansCheckpoint
  BY DEF RequestInv, CallInv, OkMeansCheckpoint
<1> QED
  BY <1>1, RequestInit, RequestNext, PTL DEF Spec
=============================================================================
