---------------------------- MODULE SyncRequests ----------------------------
(***************************************************************************)
(* How a write becomes durable (sync.c, checkpointer.c, md.c): backends    *)
(* write data files and forward fsync, forget, filter and unlink requests  *)
(* to the checkpointer through a bounded queue in shared memory; the       *)
(* checkpointer absorbs them into its own tables, and a checkpoint syncs   *)
(* the files and removes those that were dropped before it began.          *)
(*                                                                         *)
(* The files are those of one relation, whose number is used again after   *)
(* it was dropped, in one database.  A file has one buffer, and its        *)
(* contents are known by a version: ver is the buffer's, wr the one handed *)
(* to the kernel, dur the one on disk.  An fsync may fail (the checkpoint  *)
(* is then given up with an ERROR).                                        *)
(***************************************************************************)
EXTENDS Naturals, Sequences

CONSTANTS First,       \* first segment of a relation: unlinked after a checkpoint
          Other,       \* its other segments and forks: unlinked at once
          Backend,     \* processes that write and drop files
          MaxRequests, \* max_requests, the size of the queue
          CycleMod,    \* number of values of a CycleCtr, 65536 in the code
          MaxVer       \* bound: changes of a file

ASSUME SyncAssumption ==
    /\ First \notin Other
    /\ MaxRequests \in Nat \ {0}
    /\ CycleMod \in Nat \ {0, 1}
    /\ MaxVer \in Nat

File == {First} \union Other

VARIABLES db,       \* the database the files are in exists
          dropped,  \* a drop of the relation is committed
          file,     \* the files: there, buffer dirty, ver, wr, dur
          io,       \* files whose buffer a backend is writing
          op,       \* what each backend is doing, and to which file
          queue,    \* CheckpointerShmem->requests
          pend,     \* the checkpointer's pendingOps (state and cycle_ctr of each tag)
                    \* and pendingUnlinks
          cyc,      \* sync_cycle_ctr and checkpoint_cycle_ctr
          busy,     \* sync_in_progress
          phase,    \* where the checkpoint is
          todo,     \* buffers to write, then table entries to scan
          retry,    \* the entry the scan is at, after its first failure
          must,     \* the versions that were current at the REDO point
          gone,     \* the drop was committed at the REDO point
          asked,    \* an unlink request was queued before the checkpoint began
          fails     \* checkpoints that failed in a row

vars == <<db, dropped, file, io, op, queue, pend, cyc, busy, phase, todo, retry, must, gone, asked, fails>>

ckptVars == <<cyc, busy, phase, todo, retry, must, gone, asked, fails>>

Absent == [state |-> "none", cycle |-> 0]

Idle == [do |-> "none", file |-> First]

Fresh == [there |-> TRUE, dirty |-> FALSE, ver |-> 0, wr |-> 0, dur |-> 0]

Request == [type : {"sync", "forget", "filter", "unlink"}, file : File]

Entry == [state : {"none", "live", "canceled"}, cycle : 0..CycleMod - 1]

Unlink == [file : File, cycle : 0..CycleMod - 1, canceled : BOOLEAN]

Counters == [sync : 0..CycleMod - 1, ckpt : 0..CycleMod - 1]

Tables == [ops : [File -> Entry], unlinks : Seq(Unlink)]

\* The tables and the queue hold what the code can put there.
TypeOK ==
    /\ db \in BOOLEAN /\ dropped \in BOOLEAN
    /\ file \in [File -> [there : BOOLEAN, dirty : BOOLEAN, ver : Nat, wr : Nat, dur : Nat]]
    /\ \A f \in File : file[f].dur <= file[f].wr /\ file[f].wr <= file[f].ver
    /\ io \in SUBSET File
    /\ op \in [Backend -> [do : {"none", "register", "clear", "drop", "unlink",
                              "dropdb", "request", "wait", "rmtree"}, file : File]]
    /\ queue \in Seq(Request) /\ Len(queue) <= MaxRequests
    /\ pend \in Tables
    /\ cyc \in Counters
    /\ busy \in BOOLEAN
    /\ phase \in {"idle", "redo", "buffers", "sync", "post"}
    /\ todo \in SUBSET File
    /\ retry \in SUBSET todo
    /\ retry # {} => phase = "sync"
    /\ must \in [File -> Nat]
    /\ gone \in BOOLEAN /\ asked \in BOOLEAN
    /\ fails \in 0..CycleMod

Init ==
    /\ db = TRUE /\ dropped = FALSE
    /\ file = [f \in File |-> Fresh]
    /\ io = {}
    /\ op = [b \in Backend |-> Idle]
    /\ queue = <<>>
    /\ pend = [ops |-> [f \in File |-> Absent], unlinks |-> <<>>]
    /\ cyc = [sync |-> 0, ckpt |-> 0]
    /\ busy = FALSE
    /\ phase = "idle" /\ todo = {} /\ retry = {}
    /\ must = [f \in File |-> 0]
    /\ gone = FALSE /\ asked = FALSE
    /\ fails = 0

Inc(n) == IF n = CycleMod - 1 THEN 0 ELSE n + 1

-----------------------------------------------------------------------------
\* RememberSyncRequest, with the counters at c.  The cycle of a live entry is that
\* of its oldest request.
Stamped(c, e) == IF e.state = "live" THEN e ELSE [state |-> "live", cycle |-> c.sync]

Canceled(e) == IF e.state = "live" THEN [e EXCEPT !.state = "canceled"] ELSE e

Remember(c, p, r) ==
    CASE r.type = "sync" -> [p EXCEPT !.ops[r.file] = Stamped(c, @)]
      [] r.type = "forget" -> [p EXCEPT !.ops[r.file] = Canceled(@)]
      [] r.type = "filter" ->
            [ops |-> [f \in File |-> Canceled(p.ops[f])],
             unlinks |-> [i \in DOMAIN p.unlinks |-> [p.unlinks[i] EXCEPT !.canceled = TRUE]]]
      [] r.type = "unlink" ->
            [p EXCEPT !.unlinks = Append(@, [file |-> r.file, cycle |-> c.ckpt, canceled |-> FALSE])]

\* The requests are remembered in the order of the queue.
Absorbed(c, p, requests) ==
    LET after[n \in 0..Len(requests)] ==
            IF n = 0 THEN p ELSE Remember(c, after[n - 1], requests[n])
    IN  after[Len(requests)]

\* AbsorbSyncRequests.
Absorb == queue' = <<>> /\ pend' = Absorbed(cyc, pend, queue)

\* CompactCheckpointerRequestQueue: a request is skipped when an equal one follows.
SkipSameFile(q, n) == \E m \in n + 1..Len(q) : q[m].file = q[n].file
Skip(q, n) == \E m \in n + 1..Len(q) : q[m] = q[n]

Compact(q) ==
    LET kept[n \in 0..Len(q)] ==
            IF n = 0 THEN <<>>
            ELSE IF Skip(q, n) THEN kept[n - 1] ELSE Append(kept[n - 1], q[n])
    IN  kept[Len(q)]

\* ForwardSyncRequest: the queue after the request is in.  A full queue is
\* compacted, but not in a critical section.
Forwarded(r) ==
    {Append(q, r) : q \in {x \in {queue, Compact(queue)} :
        Len(x) < MaxRequests /\ (x # queue => Len(queue) = MaxRequests)}}

Goto(b, what, f) == op' = [op EXCEPT ![b] = [do |-> what, file |-> f]]

-----------------------------------------------------------------------------
\* A backend changes the buffer.
Modify(f) ==
    /\ ~dropped /\ file[f].there
    /\ file[f].ver < MaxVer
    /\ file' = [file EXCEPT ![f].ver = @ + 1, ![f].dirty = TRUE]
    /\ UNCHANGED <<db, dropped, io, op, queue, pend, ckptVars>>

\* FlushBuffer: mdwrite has the kernel take the buffer's contents.
Flush(b, f) ==
    /\ op[b].do = "none"
    /\ file[f].there /\ file[f].dirty
    /\ f \notin io
    /\ file' = [file EXCEPT ![f].wr = file[f].ver]
    /\ io' = io \union {f}
    /\ Goto(b, "register", f)
    /\ UNCHANGED <<db, dropped, queue, pend, ckptVars>>

\* register_dirty_segment: without room in the queue the backend syncs the file
\* itself, and when that fails the buffer stays dirty.
Fsync(f) == [file EXCEPT ![f].dur = file[f].wr]

Register(b) ==
    LET f == op[b].file IN
    /\ op[b].do = "register"
    /\ \/ /\ queue' \in Forwarded([type |-> "sync", file |-> f])
          /\ Goto(b, "clear", f)
          /\ UNCHANGED <<file, io>>
       \/ /\ Len(queue) = MaxRequests
          /\ file' = Fsync(f)
          /\ Goto(b, "clear", f)
          /\ UNCHANGED <<queue, io>>
       \/ /\ Len(queue) = MaxRequests
          /\ io' = io \ {f}
          /\ Goto(b, "none", First)
          /\ UNCHANGED <<queue, file>>
    /\ UNCHANGED <<db, dropped, pend, ckptVars>>

\* TerminateBufferIO: the buffer is clean unless it was changed meanwhile.
ClearDirty(b) ==
    LET f == op[b].file IN
    /\ op[b].do = "clear"
    /\ file' = [file EXCEPT ![f].dirty = file[f].ver > file[f].wr]
    /\ io' = io \ {f}
    /\ Goto(b, "none", First)
    /\ UNCHANGED <<db, dropped, queue, pend, ckptVars>>

\* A drop is committed and the buffers are thrown away.
Discard ==
    /\ io = {}
    /\ dropped' = TRUE
    /\ file' = [f \in File |-> [file[f] EXCEPT !.dirty = FALSE]]

Drop(b) ==
    /\ op[b].do = "none"
    /\ ~dropped
    /\ Discard
    /\ Goto(b, "drop", First)
    /\ UNCHANGED <<db, io, queue, pend, ckptVars>>

\* mdunlinkfork goes on to the next file.
NextToDrop(b) ==
    IF \E f \in Other : file'[f].there
    THEN Goto(b, "drop", CHOOSE f \in Other : file'[f].there)
    ELSE Goto(b, "none", First)

\* The request is queued however long it takes; only then is a file of Other
\* unlinked.
RegisterDrop(b) ==
    LET f == op[b].file IN
    /\ op[b].do = "drop"
    /\ queue' \in Forwarded([type |-> IF f = First THEN "unlink" ELSE "forget", file |-> f])
    /\ UNCHANGED file
    /\ IF f = First THEN NextToDrop(b) ELSE Goto(b, "unlink", f)
    /\ UNCHANGED <<db, dropped, io, pend, ckptVars>>

UnlinkNow(b) ==
    /\ op[b].do = "unlink"
    /\ file' = [file EXCEPT ![op[b].file].there = FALSE]
    /\ NextToDrop(b)
    /\ UNCHANGED <<db, dropped, io, queue, pend, ckptVars>>

\* dropdb, with no other backend in the database: DropDatabaseBuffers,
\* ForgetDatabaseSyncRequests, a checkpoint that is waited for, rmtree.
DropDb(b) ==
    /\ db
    /\ op = [c \in Backend |-> Idle]
    /\ Discard
    /\ Goto(b, "dropdb", First)
    /\ UNCHANGED <<db, io, queue, pend, ckptVars>>

RegisterDropDb(b) ==
    /\ op[b].do = "dropdb"
    /\ queue' \in Forwarded([type |-> "filter", file |-> First])
    /\ Goto(b, "request", First)
    /\ UNCHANGED <<db, dropped, file, io, pend, ckptVars>>

RmTree(b) ==
    /\ op[b].do = "rmtree"
    /\ db' = FALSE
    /\ file' = [f \in File |-> [file[f] EXCEPT !.there = FALSE]]
    /\ Goto(b, "none", First)
    /\ UNCHANGED <<dropped, io, queue, pend, ckptVars>>

\* GetNewRelFileNumber gives out a number again once its first segment is gone.
\* The counter has gone through all its values since the drop: by then the drop
\* has ended and its requests have left the queue.
Create ==
    /\ db /\ op = [c \in Backend |-> Idle]
    /\ \A i \in DOMAIN queue : queue[i].type # "forget"
    /\ ~file[First].there
    /\ dropped' = FALSE
    /\ file' = [file EXCEPT ![First] = Fresh]
    /\ must' = [must EXCEPT ![First] = 0]
    /\ gone' = FALSE
    /\ UNCHANGED <<db, io, op, queue, pend, cyc, busy, phase, todo, retry, asked, fails>>

\* The relation grows by a segment.
Extend(f) ==
    /\ f \in Other
    /\ ~dropped /\ ~file[f].there
    /\ file' = [file EXCEPT ![f] = Fresh]
    /\ must' = [must EXCEPT ![f] = 0]
    /\ UNCHANGED <<db, dropped, io, op, queue, pend, cyc, busy, phase, todo, retry, gone, asked, fails>>

-----------------------------------------------------------------------------
\* The backend that waits for a checkpoint learns that one has begun or ended.
Tell(from, to) ==
    op' = [b \in Backend |-> IF op[b].do = from THEN [op[b] EXCEPT !.do = to] ELSE op[b]]

\* Between checkpoints there is no REDO point to remember.
ForgetRedo == must' = [f \in File |-> 0] /\ gone' = FALSE

AskedFor ==
    \/ \E i \in DOMAIN queue : queue[i].type = "unlink"
    \/ \E i \in DOMAIN pend.unlinks : ~pend.unlinks[i].canceled

\* SyncPreCheckpoint.
NoPreAbsorb == UNCHANGED <<queue, pend>>
PreAbsorb == Absorb

SyncPreCheckpoint ==
    /\ phase = "idle"
    /\ PreAbsorb
    /\ cyc' = [cyc EXCEPT !.ckpt = Inc(@)]
    /\ phase' = "redo"
    /\ asked' = AskedFor
    /\ Tell("request", "wait")
    /\ UNCHANGED <<db, dropped, file, io, busy, todo, retry, must, gone, fails>>

\* CreateCheckPoint fixes the REDO point; BufferSync then marks the dirty buffers.
Redo ==
    /\ phase = "redo"
    /\ must' = [f \in File |-> file[f].ver]
    /\ gone' = dropped
    /\ phase' = "buffers"
    /\ todo' = {f \in File : file[f].dirty}
    /\ UNCHANGED <<db, dropped, file, io, op, queue, pend, cyc, busy, retry, asked, fails>>

\* SyncOneBuffer: a buffer that is still dirty is written, once nobody else is
\* writing it, and the request goes straight into the table.
WriteBuffer(f) ==
    /\ phase = "buffers"
    /\ f \in todo
    /\ todo' = todo \ {f}
    /\ \/ /\ ~file[f].dirty
          /\ UNCHANGED <<file, pend>>
       \/ /\ file[f].dirty /\ f \notin io
          /\ file' = [file EXCEPT ![f].wr = file[f].ver, ![f].dirty = FALSE]
          /\ pend' = Remember(cyc, pend, [type |-> "sync", file |-> f])
    /\ UNCHANGED <<db, dropped, io, op, queue, cyc, busy, phase, retry, must, gone, asked, fails>>

\* The head of ProcessSyncRequests: absorb, forestall wraparound after a failure,
\* and begin a new cycle.
StaleKept(p) == p
StaleUpdated(p) ==
    IF busy
    THEN [p EXCEPT !.ops = [f \in File |-> IF p.ops[f] = Absent THEN Absent
                                           ELSE [p.ops[f] EXCEPT !.cycle = cyc.sync]]]
    ELSE p

BeginSync ==
    /\ phase = "buffers" /\ todo = {}
    /\ pend' = StaleUpdated(Absorbed(cyc, pend, queue))
    /\ queue' = <<>>
    /\ cyc' = [cyc EXCEPT !.sync = Inc(@)]
    /\ busy' = TRUE
    /\ phase' = "sync"
    /\ todo' = {f \in File : pend'.ops[f].state # "none"}
    /\ UNCHANGED <<db, dropped, file, io, op, retry, must, gone, asked, fails>>

Removed(p, f) == [p EXCEPT !.ops[f] = Absent]

\* The rest of the loop over the table, for one entry.  A missing file is
\* forgiven once: after the absorb its entry must have been canceled.
AtEntry(f) ==
    /\ phase = "sync" /\ f \in todo
    /\ IF retry = {} THEN pend.ops[f].cycle # cyc.sync ELSE f \in retry

EntryDone(f) ==
    /\ pend' = Removed(pend, f)
    /\ todo' = todo \ {f} /\ retry' = {}

RetryAtOnce == UNCHANGED <<queue, pend>>
AbsorbForRetry == Absorb

SyncEntry(f) ==
    /\ AtEntry(f)
    /\ \/ /\ pend.ops[f].state = "canceled"
          /\ EntryDone(f)
          /\ UNCHANGED <<file, queue>>
       \/ /\ pend.ops[f].state = "live" /\ file[f].there
          /\ file' = Fsync(f)
          /\ EntryDone(f)
          /\ UNCHANGED queue
       \/ /\ pend.ops[f].state = "live" /\ ~file[f].there /\ retry = {}
          /\ AbsorbForRetry
          /\ retry' = {f}
          /\ UNCHANGED <<file, todo>>
    /\ UNCHANGED <<db, dropped, io, op, cyc, busy, phase, must, gone, asked, fails>>

EndSync ==
    /\ phase = "sync" /\ retry = {}
    /\ \A f \in todo : pend.ops[f].cycle = cyc.sync
    /\ todo' = {}
    /\ busy' = FALSE
    /\ phase' = "post"
    /\ UNCHANGED <<db, dropped, file, io, op, queue, pend, cyc, retry, must, gone, asked, fails>>

\* An ERROR (a write or an fsync failed) ends the checkpoint; whoever waits for
\* it is told.
CheckpointFails ==
    /\ phase \in {"redo", "buffers", "sync"}
    /\ phase' = "idle" /\ todo' = {} /\ retry' = {} /\ asked' = FALSE
    /\ fails' = IF fails < CycleMod THEN fails + 1 ELSE fails
    /\ ForgetRedo
    /\ Tell("wait", "none")
    /\ UNCHANGED <<db, dropped, file, io, queue, pend, cyc, busy>>

\* SyncPostCheckpoint: old requests are at the head of the list.
AnyUnlink(u) == TRUE
OldUnlink(u) == u.cycle # cyc.ckpt

Processable == pend.unlinks # <<>> /\ (Head(pend.unlinks).canceled \/ OldUnlink(Head(pend.unlinks)))

PostUnlink ==
    LET u == Head(pend.unlinks) IN
    /\ phase = "post"
    /\ Processable
    /\ pend' = [pend EXCEPT !.unlinks = Tail(@)]
    /\ asked' = FALSE
    /\ file' = IF u.canceled THEN file ELSE [file EXCEPT ![u.file].there = FALSE]
    /\ UNCHANGED <<db, dropped, io, op, queue, cyc, busy, phase, todo, retry, must, gone, fails>>

EndPost ==
    /\ phase = "post"
    /\ ~Processable
    /\ phase' = "idle"
    /\ asked' = FALSE
    /\ fails' = 0
    /\ ForgetRedo
    /\ Tell("wait", "rmtree")
    /\ UNCHANGED <<db, dropped, file, io, queue, pend, cyc, busy, todo, retry>>

\* AbsorbSyncRequests is called while idle, while waiting and within the loops.
AbsorbNow ==
    /\ queue # <<>>
    /\ Absorb
    /\ UNCHANGED <<db, dropped, file, io, op, ckptVars>>

Checkpointer ==
    \/ SyncPreCheckpoint \/ Redo \/ BeginSync \/ EndSync \/ CheckpointFails
    \/ PostUnlink \/ EndPost \/ AbsorbNow
    \/ \E f \in File : WriteBuffer(f) \/ SyncEntry(f)

Backends ==
    \/ \E f \in File : Modify(f) \/ Extend(f)
    \/ Create
    \/ \E b \in Backend :
        \/ \E f \in File : Flush(b, f)
        \/ Register(b) \/ ClearDirty(b) \/ Drop(b) \/ RegisterDrop(b) \/ UnlinkNow(b)
        \/ DropDb(b) \/ RegisterDropDb(b) \/ RmTree(b)

Next == Checkpointer \/ Backends

Spec == Init /\ [][Next]_vars

-----------------------------------------------------------------------------
\* When ProcessSyncRequests has returned and the checkpoint is about to be
\* declared complete, every change made before its REDO point is on disk,
\* whoever wrote the buffer and however many checkpoints failed before.
CheckpointIsDurable ==
    phase = "post" /\ ~dropped => \A f \in File : file[f].there => file[f].dur >= must[f]

\* A checkpoint never fails because a file was deleted in good order: an entry
\* whose file is missing has been canceled by the time of the second attempt.
MissingIsCanceled ==
    \A f \in retry : file[f].there \/ pend.ops[f].state = "canceled"

\* SyncPostCheckpoint removes a first segment only if its drop was committed
\* before the REDO point: until then a crash would replay WAL into the file.
UnlinkNotTooSoon ==
    [][PostUnlink /\ file[First].there /\ ~file'[First].there => gone]_vars

\* What DROP TABLESPACE relies on: a checkpoint that completes has processed the
\* unlink requests forwarded before it began, unless so many failed before it
\* that the counter came round.
UnlinkedByNextCheckpoint ==
    phase = "post" /\ ~Processable /\ fails < CycleMod - 1 => ~asked

\* What a checkpoint would sync and what it would unlink.
Live(p) ==
    <<{f \in File : p.ops[f].state = "live"},
      {p.unlinks[i] : i \in {j \in DOMAIN p.unlinks : ~p.unlinks[j].canceled}}>>

\* CompactCheckpointerRequestQueue, which keeps the last of equal requests, never
\* changes which files will be synced or unlinked, whatever stands between them.
CompactionKeepsMeaning == Live(Absorbed(cyc, pend, Compact(queue))) = Live(Absorbed(cyc, pend, queue))

=============================================================================
