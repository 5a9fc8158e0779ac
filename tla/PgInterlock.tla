---------------------------- MODULE PgInterlock ----------------------------
(***************************************************************************)
(* The interlock that lets only one server use a data directory: the lock  *)
(* file postmaster.pid (miscinit.c) and the System V shared memory segment *)
(* (sysv_shmem.c), from the start of a postmaster to its end.              *)
(*                                                                         *)
(* Every start of a postmaster is a process of its own; process IDs are    *)
(* reused.  A postmaster may die without cleaning up, leaving its lock     *)
(* file, its segment and perhaps backends that still use the segment.      *)
(*                                                                         *)
(* The lock file is read by its content and written or unlinked by its     *)
(* name, so that a process may touch the file of another one.  A process   *)
(* that filled a file which was unlinked meanwhile does not notice.        *)
(***************************************************************************)
EXTENDS Naturals

CONSTANTS NumStarts,   \* bound: postmasters started one after the other
          NumPids,     \* process IDs that these postmasters may get
          MaxReinits,  \* bound: restarts after a backend crash
          MaxTries,    \* the limit of the retry loop of CreateLockFile (100)
          ForeignKeys, \* shmem keys that other programs may use
          Serial,      \* a start waits until no other one is under way
          StartupFails \* the startup process of a running server may fail

ASSUME InterlockAssumption ==
    /\ NumStarts \in Nat
    /\ NumPids \in Nat
    /\ MaxReinits \in Nat
    /\ MaxTries \in Nat
    /\ ForeignKeys \in SUBSET Nat
    /\ Serial \in BOOLEAN
    /\ StartupFails \in BOOLEAN

Proc == 1..NumStarts

Pid == 1..NumPids

VARIABLES pc,      \* where each postmaster is
          pid,     \* its process ID
          tries,   \* ntries of its CreateLockFile
          seen,    \* the content of the lock file that it read
          key,     \* its NextShmemSegID, as a distance from the inode number
          my,      \* the ID of the segment that it created, 0 if none
          kids,    \* the ID of the segment its backends are attached to, 0 without backends
          lock,    \* postmaster.pid: the process that created it, 0 if there is no
                   \* file, and the PID and the segment ID it shows, 0 if none
          segs,    \* the segments created for this data directory
          ids,     \* segment IDs given out so far
          foreign, \* the keys that segments of other programs have now
          reinits  \* restarts so far

vars == <<pc, pid, tries, seen, key, my, kids, lock, segs, ids, foreign, reinits>>

NoFile == [by |-> 0, pid |-> 0, shm |-> 0]

\* The retry loop of CreateLockFile.
Locking == {"open", "read", "kill", "inuse", "unlink"}

\* Between the creation of the lock file and the end of the start.
Claiming == {"fill", "shmget", "probe", "attach", "record", "header"}

Serving == {"running", "stopping"}

\* proc_exit: the shmem callbacks, then UnlinkLockFiles.
Exiting == {"detach", "unlock"}

Alive == Locking \union Claiming \union Serving \union Exiting

File == [by : Nat, pid : Nat, shm : Nat]

\* "hdr": the header has the magic number and the inode of the data directory.
Segment == [id : Nat, key : Nat, hdr : BOOLEAN]

TypeOK ==
    /\ pc \in [Proc -> {"none", "dead"} \union Alive]
    /\ pid \in [Proc -> 0..NumPids]
    /\ tries \in [Proc -> Nat]
    /\ seen \in [Proc -> File]
    /\ key \in [Proc -> Nat]
    /\ my \in [Proc -> Nat]
    /\ kids \in [Proc -> Nat]
    /\ lock \in File
    /\ segs \in SUBSET Segment
    /\ ids \in Nat
    /\ foreign \in SUBSET ForeignKeys
    /\ reinits \in 0..MaxReinits

\* A lock file from before the last reboot; its segment ID means nothing now.
\* Process IDs are interchangeable, so one of them stands for all.
Leftover == [by : {NumStarts + 1}, pid : {NumPids}, shm : {0, 1}]

Init ==
    /\ pc = [p \in Proc |-> "none"]
    /\ pid = [p \in Proc |-> 0]
    /\ tries = [p \in Proc |-> 0]
    /\ seen = [p \in Proc |-> NoFile]
    /\ key = [p \in Proc |-> 0]
    /\ my = [p \in Proc |-> 0]
    /\ kids = [p \in Proc |-> 0]
    /\ lock \in {NoFile} \union Leftover
    /\ segs = {}
    /\ ids = 0
    /\ foreign \in SUBSET ForeignKeys
    /\ reinits = 0

Goto(p, where) == pc' = [pc EXCEPT ![p] = where]

\* shm_nattch > 0 for the segment with this ID.
Attached(id) ==
    \E p \in Proc : \/ kids[p] = id
                    \/ my[p] = id /\ pc[p] \in {"record", "header", "detach"} \union Serving

-----------------------------------------------------------------------------
\* A postmaster process starts, up to the head of the loop in CreateLockFile.
Start(p) ==
    /\ pc[p] = "none"
    /\ \A q \in Proc : q < p => pc[q] # "none"
    /\ Serial => \A q \in Proc : pc[q] \notin Locking \union Claiming
    /\ Goto(p, "open")
    /\ \E n \in Pid : /\ \A q \in Proc : pc[q] \in Alive => pid[q] # n
                      /\ pid' = [pid EXCEPT ![p] = n]
    /\ UNCHANGED <<tries, seen, key, my, kids, lock, segs, ids, foreign, reinits>>

\* open(O_CREAT | O_EXCL).
OpenLock(p) ==
    /\ pc[p] = "open"
    /\ \/ /\ lock.by = 0
          /\ lock' = [by |-> p, pid |-> 0, shm |-> 0]
          /\ Goto(p, "fill")
       \/ /\ lock.by # 0
          /\ Goto(p, IF tries[p] > MaxTries THEN "dead" ELSE "read")
          /\ UNCHANGED lock
    /\ UNCHANGED <<pid, tries, seen, key, my, kids, segs, ids, foreign, reinits>>

\* The old file is read; it may be gone, empty, or without a PID.
ReadLock(p) ==
    /\ pc[p] = "read"
    /\ \/ /\ lock.by = 0
          /\ Goto(p, "open")
          /\ tries' = [tries EXCEPT ![p] = @ + 1]
          /\ UNCHANGED seen
       \/ /\ lock.by # 0
          /\ Goto(p, IF lock.pid = 0 THEN "dead" ELSE "kill")
          /\ seen' = [seen EXCEPT ![p] = lock]
          /\ UNCHANGED tries
    /\ UNCHANGED <<pid, key, my, kids, lock, segs, ids, foreign, reinits>>

\* kill(other_pid, 0).  The PID of a dead postmaster may by now belong to an
\* unrelated process: to one of this user, which stops the start, or to an
\* ancestor of p or another user, which does not.
PidIsServer(p, n) == \E q \in Proc : pc[q] \in Alive /\ q # p /\ pid[q] = n

KillTest(p) ==
    /\ pc[p] = "kill"
    /\ \/ Goto(p, "dead") /\ seen[p].pid # pid[p]
       \/ Goto(p, "inuse") /\ ~PidIsServer(p, seen[p].pid)
    /\ UNCHANGED <<pid, tries, seen, key, my, kids, lock, segs, ids, foreign, reinits>>

\* PGSharedMemoryIsInUse: PGSharedMemoryAttach by the ID in the lock file.
InUse(id) == Attached(id) /\ \E s \in segs : s.id = id /\ s.hdr

ShmemTest(p) ==
    /\ pc[p] = "inuse"
    /\ Goto(p, IF seen[p].shm # 0 /\ InUse(seen[p].shm) THEN "dead" ELSE "unlink")
    /\ UNCHANGED <<pid, tries, seen, key, my, kids, lock, segs, ids, foreign, reinits>>

\* Nobody is home: unlink whatever file is there now, and try again.
UnlinkStale(p) ==
    /\ pc[p] = "unlink"
    /\ \/ lock.by = 0 /\ Goto(p, "dead") /\ UNCHANGED tries
       \/ lock.by # 0 /\ Goto(p, "open") /\ tries' = [tries EXCEPT ![p] = @ + 1]
    /\ lock' = NoFile
    /\ UNCHANGED <<pid, seen, key, my, kids, segs, ids, foreign, reinits>>

\* write, fsync and close through the descriptor of the new file; after a
\* failure it is unlinked by name.  Then proc_exit will unlink it, and
\* PGSharedMemoryCreate begins at the inode number.
FillLock(p) ==
    /\ pc[p] = "fill"
    /\ \/ /\ lock' = IF lock.by = p THEN [lock EXCEPT !.pid = pid[p], !.shm = 0] ELSE lock
          /\ Goto(p, "shmget")
       \/ lock' = NoFile /\ Goto(p, "dead")
    /\ key' = [key EXCEPT ![p] = 0]
    /\ UNCHANGED <<pid, tries, seen, my, kids, segs, ids, foreign, reinits>>

-----------------------------------------------------------------------------
\* shmget(key, IPC_CREAT | IPC_EXCL) of InternalIpcMemoryCreate.
Shmget(p) ==
    /\ pc[p] = "shmget"
    /\ LET taken == key[p] \in foreign \/ \E s \in segs : s.key = key[p]
       IN  \/ taken /\ Goto(p, "probe") /\ UNCHANGED <<segs, ids, my>>
           \/ /\ ~taken
              /\ ids' = ids + 1
              /\ segs' = segs \union {[id |-> ids + 1, key |-> key[p], hdr |-> FALSE]}
              /\ my' = [my EXCEPT ![p] = ids + 1]
              /\ Goto(p, "attach")
    /\ UNCHANGED <<pid, tries, seen, key, kids, lock, foreign, reinits>>

\* PGSharedMemoryAttach by key: a segment of this directory that is in use
\* ends the start, one that nobody uses is removed and the key tried again, as
\* it is when the segment vanishes under the probe; any other segment, or none
\* at all, means the next key.
Unattached(s) == ~Attached(s.id)

SameKey(k) == k
NextKey(k) == k + 1

Probe(p) ==
    /\ pc[p] = "probe"
    /\ \/ \E s \in segs :
             /\ s.key = key[p] /\ s.hdr
             /\ \/ /\ Unattached(s)
                   /\ segs' = segs \ {s}
                   /\ Goto(p, "shmget")
                \/ /\ ~Unattached(s)
                   /\ Goto(p, "detach")
                   /\ UNCHANGED segs
             /\ UNCHANGED key
       \/ /\ \A s \in segs : s.key = key[p] => ~s.hdr
          /\ key' = [key EXCEPT ![p] = NextKey(key[p])]
          /\ Goto(p, "shmget")
          /\ UNCHANGED segs
       \/ /\ key[p] \notin foreign /\ \A s \in segs : s.key # key[p]
          /\ Goto(p, "shmget")
          /\ UNCHANGED <<key, segs>>
    /\ UNCHANGED <<pid, tries, seen, my, kids, lock, ids, foreign, reinits>>

\* shmat.
Shmat(p) ==
    /\ pc[p] = "attach"
    /\ Goto(p, "record")
    /\ UNCHANGED <<pid, tries, seen, key, my, kids, lock, segs, ids, foreign, reinits>>

\* AddToDataDirLockFile(LOCK_FILE_LINE_SHMEM_KEY): into the file that has the
\* name now; without one it only logs.
RecordShmem(p) ==
    /\ pc[p] = "record"
    /\ lock' = IF lock.by = 0 THEN lock ELSE [lock EXCEPT !.shm = my[p]]
    /\ Goto(p, "header")
    /\ UNCHANGED <<pid, tries, seen, key, my, kids, segs, ids, foreign, reinits>>

\* The header is filled in last.
InitHeader(p) ==
    /\ pc[p] = "header"
    /\ segs' = {IF s.id = my[p] THEN [s EXCEPT !.hdr = TRUE] ELSE s : s \in segs}
    /\ Goto(p, "running")
    /\ UNCHANGED <<pid, tries, seen, key, my, kids, lock, ids, foreign, reinits>>

\* Some other system call of a start fails: FATAL.
Fatal(p) ==
    /\ \/ pc[p] \in Locking /\ Goto(p, "dead")
       \/ pc[p] \in Claiming \ {"fill"} /\ Goto(p, "detach")
    /\ UNCHANGED <<pid, tries, seen, key, my, kids, lock, segs, ids, foreign, reinits>>

-----------------------------------------------------------------------------
\* The running server forks backends, which inherit the attachment.
Fork(p) ==
    /\ pc[p] = "running"
    /\ kids[p] = 0
    /\ kids' = [kids EXCEPT ![p] = my[p]]
    /\ UNCHANGED <<pc, pid, tries, seen, key, my, lock, segs, ids, foreign, reinits>>

\* The last backend of p exits, whether p is alive or not.
BackendsExit(p) ==
    /\ kids[p] # 0
    /\ kids' = [kids EXCEPT ![p] = 0]
    /\ UNCHANGED <<pc, pid, tries, seen, key, my, lock, segs, ids, foreign, reinits>>

\* A backend crashed and all others are gone: the segment is released and
\* created again, under the same lock file.
Reinitialize(p) ==
    /\ pc[p] = "running"
    /\ kids[p] = 0
    /\ reinits < MaxReinits
    /\ reinits' = reinits + 1
    /\ segs' = {s \in segs : s.id # my[p]}
    /\ my' = [my EXCEPT ![p] = 0]
    /\ key' = [key EXCEPT ![p] = 0]
    /\ Goto(p, "shmget")
    /\ UNCHANGED <<pid, tries, seen, kids, lock, ids, foreign>>

\* RecheckDataDirLockFile, once a minute.
LockIsValid(p) == lock.by # 0 /\ lock.pid = pid[p]

FileIsThere(p) == lock.by = 0
RecheckFails(p) == ~LockIsValid(p)

Recheck(p) ==
    /\ pc[p] = "running"
    /\ RecheckFails(p)
    /\ Goto(p, "stopping")
    /\ UNCHANGED <<pid, tries, seen, key, my, kids, lock, segs, ids, foreign, reinits>>

\* pg_ctl stop, or a signal from elsewhere.
Shutdown(p) ==
    /\ pc[p] = "running"
    /\ Goto(p, "stopping")
    /\ UNCHANGED <<pid, tries, seen, key, my, kids, lock, segs, ids, foreign, reinits>>

\* The startup process fails in PM_STARTUP: the postmaster exits at once, though
\* checkpointer and bgwriter run already.
StartupFailure(p) ==
    /\ StartupFails
    /\ pc[p] = "running"
    /\ Goto(p, "detach")
    /\ UNCHANGED <<pid, tries, seen, key, my, kids, lock, segs, ids, foreign, reinits>>

\* ExitPostmaster, once no child is left.
ExitWithoutWaiting(p) == TRUE
ChildrenGone(p) == kids[p] = 0

ExitPostmaster(p) ==
    /\ pc[p] = "stopping"
    /\ ChildrenGone(p)
    /\ Goto(p, "detach")
    /\ UNCHANGED <<pid, tries, seen, key, my, kids, lock, segs, ids, foreign, reinits>>

\* IpcMemoryDetach and IpcMemoryDelete.
ReleaseShmem(p) ==
    /\ pc[p] = "detach"
    /\ segs' = {s \in segs : s.id # my[p]}
    /\ my' = [my EXCEPT ![p] = 0]
    /\ Goto(p, "unlock")
    /\ UNCHANGED <<pid, tries, seen, key, kids, lock, ids, foreign, reinits>>

\* UnlinkLockFiles: by name, whoever the file belongs to.
UnlinkLockFiles(p) ==
    /\ pc[p] = "unlock"
    /\ lock' = NoFile
    /\ Goto(p, "dead")
    /\ UNCHANGED <<pid, tries, seen, key, my, kids, segs, ids, foreign, reinits>>

-----------------------------------------------------------------------------
\* kill -9: the kernel detaches p; lock file, segment and backends stay.
Kill9(p) ==
    /\ pc[p] \in Alive
    /\ Goto(p, "dead")
    /\ UNCHANGED <<pid, tries, seen, key, my, kids, lock, segs, ids, foreign, reinits>>

\* The machine goes down and comes up: only the lock file stays.
Reboot ==
    /\ \E p \in Proc : pc[p] \in Alive \/ kids[p] # 0
    /\ pc' = [p \in Proc |-> IF pc[p] = "none" THEN "none" ELSE "dead"]
    /\ kids' = [p \in Proc |-> 0]
    /\ segs' = {}
    /\ foreign' \in SUBSET ForeignKeys
    /\ UNCHANGED <<pid, tries, seen, key, my, lock, ids, reinits>>

\* Other programs create and remove segments.
ForeignChange ==
    /\ foreign' \in SUBSET (ForeignKeys \ {s.key : s \in segs})
    /\ foreign' # foreign
    /\ UNCHANGED <<pc, pid, tries, seen, key, my, kids, lock, segs, ids, reinits>>

StartStep(p) == \/ OpenLock(p) \/ ReadLock(p) \/ KillTest(p) \/ ShmemTest(p)
                \/ UnlinkStale(p) \/ FillLock(p) \/ Shmget(p) \/ Probe(p)
                \/ Shmat(p) \/ RecordShmem(p) \/ InitHeader(p)

StopStep(p) == ExitPostmaster(p) \/ ReleaseShmem(p) \/ UnlinkLockFiles(p)

Next == \/ \E p \in Proc : \/ Start(p) \/ StartStep(p) \/ Fatal(p)
                           \/ Fork(p) \/ BackendsExit(p) \/ Reinitialize(p)
                           \/ Recheck(p) \/ Shutdown(p) \/ StartupFailure(p) \/ StopStep(p)
                           \/ Kill9(p)
        \/ Reboot
        \/ ForeignChange

Spec == Init /\ [][Next]_vars
-----------------------------------------------------------------------------
\* Postmaster p, or a backend that it left behind, works on the data directory.
Uses(p) == pc[p] \in Serving \/ kids[p] # 0

\* At most one server uses the data directory: no second postmaster runs, and
\* none runs beside the orphaned backends of an earlier one
\* (miscinit.c:1349-1407, sysv_shmem.c:767-783).
OneServer == \A p, q \in Proc : Uses(p) /\ Uses(q) => p = q

\* The lock file of a running server stays in place with its PID, so that
\* RecheckDataDirLockFile never shuts a healthy server down, and pg_ctl, which
\* knows the server by this file only, always finds it.
LockNamesServer == \A p \in Proc : pc[p] \in Serving => lock.by = p /\ LockIsValid(p)

\* The parts of the inductive invariant behind these two, for starts that do
\* not overlap and no segments of other programs.

\* Live processes have process IDs of their own.
PidInv ==
    /\ \A p \in Proc : pc[p] \in Alive => pid[p] # 0
    /\ \A p, q \in Proc : pc[p] \in Alive /\ pc[q] \in Alive /\ pid[p] = pid[q] => p = q

Holding == Claiming \union Serving \union Exiting

\* From its creation to the exit of its creator the lock file stays: whoever
\* else is starting has seen the PID of that creator or no file of a live one.
LockInv ==
    /\ \A p, q \in Proc : pc[p] \in Locking /\ pc[q] \in Locking \union {"fill"} => p = q
    /\ \A p \in Proc : pc[p] \in Holding => lock.by = p
    /\ \A p \in Proc : pc[p] \in Holding \ {"fill"} => lock.pid = pid[p]
    /\ \A p, q \in Proc : pc[p] = "kill" /\ pc[q] \in Holding => seen[p].pid = pid[q]
    /\ \A p, q \in Proc : pc[p] \in {"inuse", "unlink"} => pc[q] \notin Holding

\* IDs and keys identify segments; a postmaster from shmget on, and backends,
\* have theirs.
SegmentInv ==
    /\ \A s \in segs : s.id # 0 /\ s.id <= ids
    /\ \A s, t \in segs : s.id = t.id \/ s.key = t.key => s = t
    /\ \A p \in Proc : pc[p] \in {"none", "fill", "shmget", "probe", "unlock"} \union Locking => my[p] = 0
    /\ \A p \in Proc : pc[p] \in {"attach", "record", "header"} =>
          \E s \in segs : s.id = my[p] /\ ~s.hdr /\ s.key = key[p]
    /\ \A p \in Proc : pc[p] \in Serving => \E s \in segs : s.id = my[p] /\ s.hdr
    /\ \A p \in Proc : kids[p] # 0 => \E s \in segs : s.id = kids[p] /\ s.hdr

\* A segment whose creator died before it wrote the header.  Nobody removes it.
Debris(t) == ~t.hdr /\ \A p \in Proc : pc[p] \in Alive => my[p] # t.id

DebrisBelow(k) == \A j \in 0..k : j < k => \E t \in segs : t.key = j /\ Debris(t)

\* Keys are taken from below: only debris lies under a segment in use and
\* under the key that a starting postmaster tries.
KeyInv ==
    /\ \A s \in segs : s.hdr => DebrisBelow(s.key)
    /\ \A p \in Proc : pc[p] \in Claiming \ {"fill"} => DebrisBelow(key[p])
    /\ \A p \in Proc : pc[p] = "probe" => \E s \in segs : s.key = key[p]

\* Whoever has created its segment is alone.
UseInv ==
    /\ \A p \in Proc : kids[p] # 0 => pc[p] \in Serving \union {"dead"}
    /\ \A p \in Proc : pc[p] \in Serving /\ kids[p] # 0 => kids[p] = my[p]
    /\ \A p, q \in Proc : kids[p] # 0 /\ kids[q] # 0 => p = q
    /\ \A p, q \in Proc : pc[p] \in {"attach", "record", "header"} \union Serving /\ kids[q] # 0 => p = q
    /\ \A p, q \in Proc : pc[p] = "detach" /\ my[p] # 0 => kids[q] = 0

InterlockInv == TypeOK /\ PidInv /\ LockInv /\ SegmentInv /\ KeyInv /\ UseInv

\* With segments of other programs in the way keys prove nothing, and the segment ID
\* in the lock file has to do alone: while backends are left, the file that a start
\* sees, or has seen, names their segment.  This needs servers that do not
\* reinitialize.
RecordInv ==
    /\ \A p, q \in Proc : pc[p] \in Locking /\ pc[q] \in Locking \union Claiming => p = q
    /\ \A p \in Proc : pc[p] \in {"header"} \union Serving => lock.shm = my[p]
    /\ \A p \in Proc : kids[p] # 0 => lock.by = p /\ lock.shm = kids[p]
    /\ \A p, q \in Proc : pc[q] = "kill" /\ pc[p] \in Serving => seen[q].shm = my[p]
    /\ \A p, q \in Proc : pc[q] \in {"kill", "inuse"} /\ kids[p] # 0 => seen[q].shm = kids[p]
    /\ \A p, q \in Proc : pc[q] = "unlink" => kids[p] = 0

ForeignInv == TypeOK /\ PidInv /\ LockInv /\ SegmentInv /\ UseInv /\ RecordInv

Users == {p \in Proc : Uses(p)}

Dir == INSTANCE DataDirUse WITH Server <- Proc, users <- Users

\* Lock file and segment together implement exclusive use of the directory.
ImplementsExclusiveUse == Dir!Spec

-----------------------------------------------------------------------------
\* A process that is not stopped from outside goes on; backends told to quit
\* exit, by SIGKILL after SIGKILL_CHILDREN_AFTER_SECS at the latest; the lock
\* file is rechecked every minute.  Other programs do not take and release the keys
\* that a start tries for ever.
Fairness == \A p \in Proc :
    WF_vars(\/ StartStep(p) \/ Recheck(p) \/ StopStep(p)
            \/ pc[p] = "stopping" /\ BackendsExit(p))

FairSpec == Spec /\ Fairness /\ <>[][~ForeignChange]_vars

TwoServers == \E p, q \in Proc : p # q /\ pc[p] = "running" /\ pc[q] = "running"

\* Two servers that both slipped through the interlock do not stay: at most one
\* of them keeps running.
DoubleServerEnds == TwoServers ~> ~TwoServers

\* Every start comes to an end, in a running server or in a dead process.
StartEnds == \A p \in Proc : pc[p] = "open" ~> pc[p] \in {"running", "dead"}

=============================================================================
