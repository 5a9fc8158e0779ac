-------------------------- MODULE PgInterlockProofs --------------------------
(***************************************************************************)
(* Proofs about the data directory interlock, for any number of starts,    *)
(* process IDs and restarts, when starts do not overlap, no other          *)
(* program's segments are in the way and no startup process fails.         *)
(***************************************************************************)
EXTENDS PgInterlock, TLAPS

\* Every step keeps the types.
LEMMA TypeStep ==
    ASSUME TypeOK, [Next]_vars PROVE TypeOK'
<1> USE DEF Goto, Alive, Locking, Claiming, Serving, Exiting
<1>1. ASSUME NEW p \in Proc, Start(p) PROVE TypeOK'
  BY <1>1 DEF Start, TypeOK, File, Segment, NoFile, Pid
<1>2. ASSUME NEW p \in Proc, OpenLock(p) PROVE TypeOK'
  <2>1. p \in Nat
    BY InterlockAssumption DEF Proc
  <2>2. [by |-> p, pid |-> 0, shm |-> 0] \in File
    BY <2>1 DEF File
  <2>3. lock' \in File
    BY <1>2, <2>2 DEF OpenLock, TypeOK
  <2>4. pc' \in [Proc -> {"none", "dead"} \union Alive]
    BY <1>2 DEF OpenLock, TypeOK
  <2> QED BY <1>2, <2>3, <2>4 DEF OpenLock, TypeOK
<1>3. ASSUME NEW p \in Proc, ReadLock(p) PROVE TypeOK'
  <2>1. seen' \in [Proc -> File] /\ tries' \in [Proc -> Nat]
    BY <1>3, InterlockAssumption DEF ReadLock, TypeOK
  <2>2. pc' \in [Proc -> {"none", "dead"} \union Alive]
    BY <1>3, InterlockAssumption DEF ReadLock, TypeOK
  <2> QED BY <1>3, <2>1, <2>2 DEF ReadLock, TypeOK
<1>4. ASSUME NEW p \in Proc, KillTest(p) PROVE TypeOK'
  BY <1>4 DEF KillTest, TypeOK, File, Segment, NoFile, Pid
<1>5. ASSUME NEW p \in Proc, ShmemTest(p) PROVE TypeOK'
  BY <1>5 DEF ShmemTest, TypeOK, File, Segment, NoFile, Pid
<1>6. ASSUME NEW p \in Proc, UnlinkStale(p) PROVE TypeOK'
  <2>1. lock' \in File /\ tries' \in [Proc -> Nat]
    BY <1>6, InterlockAssumption DEF UnlinkStale, TypeOK, File, NoFile
  <2>2. pc' \in [Proc -> {"none", "dead"} \union Alive]
    BY <1>6, InterlockAssumption DEF UnlinkStale, TypeOK
  <2> QED BY <1>6, <2>1, <2>2 DEF UnlinkStale, TypeOK
<1>7. ASSUME NEW p \in Proc, FillLock(p) PROVE TypeOK'
  <2>1. pid[p] \in Nat /\ lock \in File
    BY InterlockAssumption DEF TypeOK
  <2>2. [lock EXCEPT !.pid = pid[p], !.shm = 0] \in File
    BY <2>1 DEF File
  <2>3. lock' \in File
    <3>1. NoFile \in File
      BY DEF NoFile, File
    <3> QED BY <1>7, <2>1, <2>2, <3>1 DEF FillLock
  <2>4. pc' \in [Proc -> {"none", "dead"} \union Alive] /\ key' \in [Proc -> Nat]
    BY <1>7 DEF FillLock, TypeOK
  <2> QED BY <1>7, <2>3, <2>4 DEF FillLock, TypeOK
<1>8. ASSUME NEW p \in Proc, Shmget(p) PROVE TypeOK'
  <2>1. ids + 1 \in Nat /\ key[p] \in Nat
    BY DEF TypeOK
  <2>2. [id |-> ids + 1, key |-> key[p], hdr |-> FALSE] \in Segment
    BY <2>1 DEF Segment
  <2>3. segs' \in SUBSET Segment
    BY <1>8, <2>2 DEF Shmget, TypeOK
  <2>4. ids' \in Nat /\ my' \in [Proc -> Nat]
    BY <1>8 DEF Shmget, TypeOK
  <2>5. pc' \in [Proc -> {"none", "dead"} \union Alive]
    BY <1>8 DEF Shmget, TypeOK
  <2> QED BY <1>8, <2>3, <2>4, <2>5 DEF Shmget, TypeOK
<1>9. ASSUME NEW p \in Proc, Probe(p) PROVE TypeOK'
  <2>1. segs' \in SUBSET Segment
    BY <1>9, InterlockAssumption DEF Probe, TypeOK
  <2>2. key' \in [Proc -> Nat]
    BY <1>9, InterlockAssumption DEF Probe, TypeOK, NextKey
  <2>3. pc' \in [Proc -> {"none", "dead"} \union Alive]
    BY <1>9, InterlockAssumption DEF Probe, TypeOK
  <2> QED BY <1>9, <2>1, <2>2, <2>3 DEF Probe, TypeOK
<1>10. ASSUME NEW p \in Proc, Shmat(p) PROVE TypeOK'
  BY <1>10 DEF Shmat, TypeOK, File, Segment, NoFile, Pid
<1>11. ASSUME NEW p \in Proc, RecordShmem(p) PROVE TypeOK'
  BY <1>11 DEF RecordShmem, TypeOK, File, Segment, NoFile, Pid
<1>12. ASSUME NEW p \in Proc, InitHeader(p) PROVE TypeOK'
  <2>3. \A s \in Segment : [s EXCEPT !.hdr = TRUE] \in Segment
    BY DEF Segment
  <2>4. segs \in SUBSET Segment
    BY DEF TypeOK
  <2>5. segs' = {IF s.id = my[p] THEN [s EXCEPT !.hdr = TRUE] ELSE s : s \in segs}
    BY <1>12 DEF InitHeader
  <2>1. segs' \in SUBSET Segment
    BY <2>3, <2>4, <2>5
  <2>2. pc' \in [Proc -> {"none", "dead"} \union Alive]
    BY <1>12, InterlockAssumption DEF InitHeader, TypeOK
  <2> QED BY <1>12, <2>1, <2>2 DEF InitHeader, TypeOK
<1>13. ASSUME NEW p \in Proc, Fatal(p) PROVE TypeOK'
  BY <1>13 DEF Fatal, TypeOK, File, Segment, NoFile, Pid
<1>14. ASSUME NEW p \in Proc, Fork(p) PROVE TypeOK'
  BY <1>14 DEF Fork, TypeOK, File, Segment, NoFile, Pid
<1>15. ASSUME NEW p \in Proc, BackendsExit(p) PROVE TypeOK'
  BY <1>15 DEF BackendsExit, TypeOK, File, Segment, NoFile, Pid
<1>16. ASSUME NEW p \in Proc, Reinitialize(p) PROVE TypeOK'
  <2>1. segs' \in SUBSET Segment
    BY <1>16, InterlockAssumption DEF Reinitialize, TypeOK
  <2>2. key' \in [Proc -> Nat] /\ my' \in [Proc -> Nat] /\ reinits' \in 0..MaxReinits
    BY <1>16, InterlockAssumption DEF Reinitialize, TypeOK
  <2>3. pc' \in [Proc -> {"none", "dead"} \union Alive]
    BY <1>16, InterlockAssumption DEF Reinitialize, TypeOK
  <2> QED BY <1>16, <2>1, <2>2, <2>3 DEF Reinitialize, TypeOK
<1>17. ASSUME NEW p \in Proc, Recheck(p) PROVE TypeOK'
  BY <1>17 DEF Recheck, TypeOK, File, Segment, NoFile, Pid
<1>18. ASSUME NEW p \in Proc, Shutdown(p) PROVE TypeOK'
  BY <1>18 DEF Shutdown, TypeOK, File, Segment, NoFile, Pid
<1>26. ASSUME NEW p \in Proc, StartupFailure(p) PROVE TypeOK'
  BY <1>26 DEF StartupFailure, TypeOK, File, Segment, NoFile, Pid
<1>19. ASSUME NEW p \in Proc, ExitPostmaster(p) PROVE TypeOK'
  BY <1>19 DEF ExitPostmaster, TypeOK, File, Segment, NoFile, Pid
<1>20. ASSUME NEW p \in Proc, ReleaseShmem(p) PROVE TypeOK'
  BY <1>20 DEF ReleaseShmem, TypeOK, File, Segment, NoFile, Pid
<1>21. ASSUME NEW p \in Proc, UnlinkLockFiles(p) PROVE TypeOK'
  BY <1>21 DEF UnlinkLockFiles, TypeOK, File, Segment, NoFile, Pid
<1>22. ASSUME NEW p \in Proc, Kill9(p) PROVE TypeOK'
  BY <1>22 DEF Kill9, TypeOK, File, Segment, NoFile, Pid
<1>23. CASE Reboot
  BY <1>23 DEF Reboot, TypeOK, File, Segment, NoFile, Pid
<1>24. CASE ForeignChange
  BY <1>24 DEF ForeignChange, TypeOK, File, Segment, NoFile, Pid
<1>25. CASE UNCHANGED vars
  BY <1>25 DEF vars, TypeOK, File, Segment, NoFile, Pid
<1> QED BY <1>1, <1>2, <1>3, <1>4, <1>5, <1>6, <1>7, <1>8, <1>9, <1>10, <1>11, <1>12, <1>13, <1>14, <1>15, <1>16, <1>17, <1>18, <1>19, <1>20, <1>21, <1>22, <1>23, <1>24, <1>25, <1>26 DEF Next, StartStep, StopStep

\* A new postmaster gets a process ID that no live one has.
LEMMA PidStep ==
    ASSUME TypeOK, PidInv, [Next]_vars PROVE PidInv'
<1> USE DEF Goto, Alive, Locking, Claiming, Serving, Exiting
<1>1. ASSUME NEW p \in Proc, Start(p) PROVE PidInv'
  BY <1>1 DEF Start, TypeOK, PidInv, Pid
<1>2. ASSUME NEW p \in Proc, OpenLock(p) PROVE PidInv'
  BY <1>2 DEF OpenLock, TypeOK, PidInv, Pid
<1>3. ASSUME NEW p \in Proc, ReadLock(p) PROVE PidInv'
  BY <1>3 DEF ReadLock, TypeOK, PidInv, Pid
<1>4. ASSUME NEW p \in Proc, KillTest(p) PROVE PidInv'
  BY <1>4 DEF KillTest, TypeOK, PidInv, Pid
<1>5. ASSUME NEW p \in Proc, ShmemTest(p) PROVE PidInv'
  BY <1>5 DEF ShmemTest, TypeOK, PidInv, Pid
<1>6. ASSUME NEW p \in Proc, UnlinkStale(p) PROVE PidInv'
  BY <1>6 DEF UnlinkStale, TypeOK, PidInv, Pid
<1>7. ASSUME NEW p \in Proc, FillLock(p) PROVE PidInv'
  BY <1>7 DEF FillLock, TypeOK, PidInv, Pid
<1>8. ASSUME NEW p \in Proc, Shmget(p) PROVE PidInv'
  BY <1>8 DEF Shmget, TypeOK, PidInv, Pid
<1>9. ASSUME NEW p \in Proc, Probe(p) PROVE PidInv'
  BY <1>9 DEF Probe, TypeOK, PidInv, Pid
<1>10. ASSUME NEW p \in Proc, Shmat(p) PROVE PidInv'
  BY <1>10 DEF Shmat, TypeOK, PidInv, Pid
<1>11. ASSUME NEW p \in Proc, RecordShmem(p) PROVE PidInv'
  BY <1>11 DEF RecordShmem, TypeOK, PidInv, Pid
<1>12. ASSUME NEW p \in Proc, InitHeader(p) PROVE PidInv'
  BY <1>12 DEF InitHeader, TypeOK, PidInv, Pid
<1>13. ASSUME NEW p \in Proc, Fatal(p) PROVE PidInv'
  BY <1>13 DEF Fatal, TypeOK, PidInv, Pid
<1>14. ASSUME NEW p \in Proc, Fork(p) PROVE PidInv'
  BY <1>14 DEF Fork, TypeOK, PidInv, Pid
<1>15. ASSUME NEW p \in Proc, BackendsExit(p) PROVE PidInv'
  BY <1>15 DEF BackendsExit, TypeOK, PidInv, Pid
<1>16. ASSUME NEW p \in Proc, Reinitialize(p) PROVE PidInv'
  BY <1>16 DEF Reinitialize, TypeOK, PidInv, Pid
<1>17. ASSUME NEW p \in Proc, Recheck(p) PROVE PidInv'
  BY <1>17 DEF Recheck, TypeOK, PidInv, Pid
<1>18. ASSUME NEW p \in Proc, Shutdown(p) PROVE PidInv'
  BY <1>18 DEF Shutdown, TypeOK, PidInv, Pid
<1>26. ASSUME NEW p \in Proc, StartupFailure(p) PROVE PidInv'
  BY <1>26 DEF StartupFailure, TypeOK, PidInv, Pid
<1>19. ASSUME NEW p \in Proc, ExitPostmaster(p) PROVE PidInv'
  BY <1>19 DEF ExitPostmaster, TypeOK, PidInv, Pid
<1>20. ASSUME NEW p \in Proc, ReleaseShmem(p) PROVE PidInv'
  BY <1>20 DEF ReleaseShmem, TypeOK, PidInv, Pid
<1>21. ASSUME NEW p \in Proc, UnlinkLockFiles(p) PROVE PidInv'
  BY <1>21 DEF UnlinkLockFiles, TypeOK, PidInv, Pid
<1>22. ASSUME NEW p \in Proc, Kill9(p) PROVE PidInv'
  BY <1>22 DEF Kill9, TypeOK, PidInv, Pid
<1>23. CASE Reboot
  BY <1>23 DEF Reboot, TypeOK, PidInv, Pid
<1>24. CASE ForeignChange
  BY <1>24 DEF ForeignChange, TypeOK, PidInv, Pid
<1>25. CASE UNCHANGED vars
  BY <1>25 DEF vars, TypeOK, PidInv, Pid
<1> QED BY <1>1, <1>2, <1>3, <1>4, <1>5, <1>6, <1>7, <1>8, <1>9, <1>10, <1>11, <1>12, <1>13, <1>14, <1>15, <1>16, <1>17, <1>18, <1>19, <1>20, <1>21, <1>22, <1>23, <1>24, <1>25, <1>26 DEF Next, StartStep, StopStep

\* With starts that do not overlap, only its creator writes or unlinks the lock
\* file of a live postmaster: CreateLockFile stops at the kill test.
LEMMA LockStep ==
    ASSUME TypeOK, PidInv, LockInv, Serial, [Next]_vars PROVE LockInv'
<1> USE DEF Goto, Alive, Locking, Claiming, Serving, Exiting
<1>1. ASSUME NEW p \in Proc, Start(p) PROVE LockInv'
  BY <1>1 DEF Start, TypeOK, PidInv, LockInv, NoFile, PidIsServer, Holding
<1>2. ASSUME NEW p \in Proc, OpenLock(p) PROVE LockInv'
  <2>1. CASE lock.by = 0
    <3>1. \A q \in Proc : q # 0
      BY InterlockAssumption DEF Proc
    <3>2. \A q \in Proc : pc[q] \notin Holding
      BY <2>1, <3>1 DEF LockInv
    <3>3. lock'.by = p /\ pc' = [pc EXCEPT ![p] = "fill"]
      BY <1>2, <2>1 DEF OpenLock
    <3> QED BY <1>2, <3>2, <3>3 DEF OpenLock, TypeOK, LockInv, Holding
  <2>2. CASE lock.by # 0
    <3>1. pc'[p] \in {"dead", "read"} /\ lock' = lock /\ \A q \in Proc : q # p => pc'[q] = pc[q]
      BY <1>2, <2>2 DEF OpenLock, TypeOK
    <3> QED BY <1>2, <3>1 DEF OpenLock, TypeOK, LockInv, Holding
  <2> QED BY <2>1, <2>2
<1>3. ASSUME NEW p \in Proc, ReadLock(p) PROVE LockInv'
  BY <1>3 DEF ReadLock, TypeOK, PidInv, LockInv, NoFile, PidIsServer, Holding
<1>4. ASSUME NEW p \in Proc, KillTest(p) PROVE LockInv'
  BY <1>4 DEF KillTest, TypeOK, PidInv, LockInv, NoFile, PidIsServer, Holding
<1>5. ASSUME NEW p \in Proc, ShmemTest(p) PROVE LockInv'
  BY <1>5 DEF ShmemTest, TypeOK, PidInv, LockInv, NoFile, PidIsServer, Holding
<1>6. ASSUME NEW p \in Proc, UnlinkStale(p) PROVE LockInv'
  BY <1>6 DEF UnlinkStale, TypeOK, PidInv, LockInv, NoFile, PidIsServer, Holding
<1>7. ASSUME NEW p \in Proc, FillLock(p) PROVE LockInv'
  <2>1. lock.by = p /\ \A q \in Proc : pc[q] \in Holding => q = p
    BY <1>7 DEF FillLock, LockInv, Holding
  <2>2. CASE pc' = [pc EXCEPT ![p] = "shmget"] /\ lock' = [lock EXCEPT !.pid = pid[p], !.shm = 0]
    <3>1. lock'.by = p /\ lock'.pid = pid[p]
      BY <2>1, <2>2 DEF TypeOK, File
    <3> QED BY <1>7, <2>1, <2>2, <3>1 DEF FillLock, TypeOK, LockInv, Holding
  <2>3. CASE pc' = [pc EXCEPT ![p] = "dead"]
    BY <1>7, <2>1, <2>3 DEF FillLock, TypeOK, LockInv, Holding
  <2> QED BY <1>7, <2>1, <2>2, <2>3 DEF FillLock
<1>8. ASSUME NEW p \in Proc, Shmget(p) PROVE LockInv'
  BY <1>8 DEF Shmget, TypeOK, PidInv, LockInv, NoFile, PidIsServer, Holding
<1>9. ASSUME NEW p \in Proc, Probe(p) PROVE LockInv'
  BY <1>9 DEF Probe, TypeOK, PidInv, LockInv, NoFile, PidIsServer, Holding
<1>10. ASSUME NEW p \in Proc, Shmat(p) PROVE LockInv'
  BY <1>10 DEF Shmat, TypeOK, PidInv, LockInv, NoFile, PidIsServer, Holding
<1>11. ASSUME NEW p \in Proc, RecordShmem(p) PROVE LockInv'
  BY <1>11 DEF RecordShmem, TypeOK, PidInv, LockInv, NoFile, PidIsServer, Holding
<1>12. ASSUME NEW p \in Proc, InitHeader(p) PROVE LockInv'
  BY <1>12 DEF InitHeader, TypeOK, PidInv, LockInv, NoFile, PidIsServer, Holding
<1>13. ASSUME NEW p \in Proc, Fatal(p) PROVE LockInv'
  BY <1>13 DEF Fatal, TypeOK, PidInv, LockInv, NoFile, PidIsServer, Holding
<1>14. ASSUME NEW p \in Proc, Fork(p) PROVE LockInv'
  BY <1>14 DEF Fork, TypeOK, PidInv, LockInv, NoFile, PidIsServer, Holding
<1>15. ASSUME NEW p \in Proc, BackendsExit(p) PROVE LockInv'
  BY <1>15 DEF BackendsExit, TypeOK, PidInv, LockInv, NoFile, PidIsServer, Holding
<1>16. ASSUME NEW p \in Proc, Reinitialize(p) PROVE LockInv'
  BY <1>16, SMTT(30) DEF Reinitialize, TypeOK, PidInv, LockInv, NoFile, PidIsServer, Holding
<1>17. ASSUME NEW p \in Proc, Recheck(p) PROVE LockInv'
  BY <1>17 DEF Recheck, TypeOK, PidInv, LockInv, NoFile, PidIsServer, Holding
<1>18. ASSUME NEW p \in Proc, Shutdown(p) PROVE LockInv'
  BY <1>18 DEF Shutdown, TypeOK, PidInv, LockInv, NoFile, PidIsServer, Holding
<1>26. ASSUME NEW p \in Proc, StartupFailure(p) PROVE LockInv'
  BY <1>26 DEF StartupFailure, TypeOK, PidInv, LockInv, NoFile, PidIsServer, Holding
<1>19. ASSUME NEW p \in Proc, ExitPostmaster(p) PROVE LockInv'
  BY <1>19 DEF ExitPostmaster, TypeOK, PidInv, LockInv, NoFile, PidIsServer, Holding
<1>20. ASSUME NEW p \in Proc, ReleaseShmem(p) PROVE LockInv'
  BY <1>20 DEF ReleaseShmem, TypeOK, PidInv, LockInv, NoFile, PidIsServer, Holding
<1>21. ASSUME NEW p \in Proc, UnlinkLockFiles(p) PROVE LockInv'
  BY <1>21 DEF UnlinkLockFiles, TypeOK, PidInv, LockInv, NoFile, PidIsServer, Holding
<1>22. ASSUME NEW p \in Proc, Kill9(p) PROVE LockInv'
  BY <1>22 DEF Kill9, TypeOK, PidInv, LockInv, NoFile, PidIsServer, Holding
<1>23. CASE Reboot
  BY <1>23 DEF Reboot, TypeOK, PidInv, LockInv, NoFile, PidIsServer, Holding
<1>24. CASE ForeignChange
  BY <1>24 DEF ForeignChange, TypeOK, PidInv, LockInv, NoFile, PidIsServer, Holding
<1>25. CASE UNCHANGED vars
  BY <1>25 DEF vars, TypeOK, PidInv, LockInv, NoFile, PidIsServer, Holding
<1> QED BY <1>1, <1>2, <1>3, <1>4, <1>5, <1>6, <1>7, <1>8, <1>9, <1>10, <1>11, <1>12, <1>13, <1>14, <1>15, <1>16, <1>17, <1>18, <1>19, <1>20, <1>21, <1>22, <1>23, <1>24, <1>25, <1>26 DEF Next, StartStep, StopStep

\* No step takes the segment of a live postmaster or of backends away, and none
\* makes a second segment with the same ID or key.
LEMMA SegmentStep ==
    ASSUME TypeOK, LockInv, SegmentInv, UseInv, [Next]_vars PROVE SegmentInv'
<1> USE DEF Goto, Alive, Locking, Claiming, Serving, Exiting
<1>1. ASSUME NEW p \in Proc, Start(p) PROVE SegmentInv'
  BY <1>1 DEF Start, TypeOK, SegmentInv
<1>2. ASSUME NEW p \in Proc, OpenLock(p) PROVE SegmentInv'
  <2>1. my[p] = 0
    BY <1>2 DEF OpenLock, SegmentInv
  <2>2. \E w \in {"fill", "dead", "read"} : pc' = [pc EXCEPT ![p] = w]
    BY <1>2 DEF OpenLock
  <2>3. UNCHANGED <<my, kids, key, segs, ids>>
    BY <1>2 DEF OpenLock
  <2> QED BY <2>1, <2>2, <2>3, SMTT(30) DEF TypeOK, SegmentInv
<1>3. ASSUME NEW p \in Proc, ReadLock(p) PROVE SegmentInv'
  BY <1>3 DEF ReadLock, TypeOK, SegmentInv
<1>4. ASSUME NEW p \in Proc, KillTest(p) PROVE SegmentInv'
  BY <1>4 DEF KillTest, TypeOK, SegmentInv
<1>5. ASSUME NEW p \in Proc, ShmemTest(p) PROVE SegmentInv'
  BY <1>5 DEF ShmemTest, TypeOK, SegmentInv
<1>6. ASSUME NEW p \in Proc, UnlinkStale(p) PROVE SegmentInv'
  BY <1>6 DEF UnlinkStale, TypeOK, SegmentInv
<1>7. ASSUME NEW p \in Proc, FillLock(p) PROVE SegmentInv'
  BY <1>7 DEF FillLock, TypeOK, SegmentInv
<1>8. ASSUME NEW p \in Proc, Shmget(p) PROVE SegmentInv'
  <2>1. CASE UNCHANGED <<segs, ids, my>> /\ pc' = [pc EXCEPT ![p] = "probe"]
    BY <1>8, <2>1 DEF Shmget, TypeOK, SegmentInv
  <2>2. CASE /\ ~\E s \in segs : s.key = key[p]
             /\ ids' = ids + 1
             /\ segs' = segs \union {[id |-> ids + 1, key |-> key[p], hdr |-> FALSE]}
             /\ my' = [my EXCEPT ![p] = ids + 1]
             /\ pc' = [pc EXCEPT ![p] = "attach"]
    <3> DEFINE new == [id |-> ids + 1, key |-> key[p], hdr |-> FALSE]
    <3>1. new.id = ids + 1 /\ new.key = key[p] /\ new.hdr = FALSE
      OBVIOUS
    <3>2. segs' = segs \union {new} /\ UNCHANGED <<key, kids>>
      BY <1>8, <2>2 DEF Shmget
    <3> HIDE DEF new
    <3>3. \A s \in segs : s.id \in Nat /\ s.id # ids + 1 /\ s.id # 0 /\ s.id <= ids + 1
      BY DEF TypeOK, Segment, SegmentInv
    <3>4. (\A s \in segs : s.id # 0 /\ s.id <= ids)'
      BY <2>2, <3>1, <3>2, <3>3 DEF TypeOK
    <3>5. (\A s, t \in segs : s.id = t.id \/ s.key = t.key => s = t)'
      BY <2>2, <3>1, <3>2, <3>3 DEF SegmentInv
    <3>6. my'[p] = ids + 1 /\ pc'[p] = "attach" /\ \A q \in Proc : q # p => my'[q] = my[q] /\ pc'[q] = pc[q]
      BY <2>2 DEF TypeOK
    <3> QED BY <3>1, <3>2, <3>4, <3>5, <3>6 DEF SegmentInv
  <2> QED BY <1>8, <2>1, <2>2 DEF Shmget
<1>9. ASSUME NEW p \in Proc, Probe(p) PROVE SegmentInv'
  <2>1. CASE UNCHANGED segs
    BY <1>9, <2>1 DEF Probe, TypeOK, SegmentInv
  <2>2. CASE \E s \in segs : /\ s.key = key[p] /\ s.hdr /\ Unattached(s)
                             /\ segs' = segs \ {s}
    <3>1. PICK s \in segs : s.hdr /\ ~Attached(s.id) /\ segs' = segs \ {s}
      BY <2>2 DEF Unattached
    <3>2. \A q \in Proc : kids[q] # s.id /\ (pc[q] \in Serving => my[q] # s.id)
      BY <3>1 DEF Attached
    <3>3. pc'[p] \in {"shmget", "detach"} /\ (\A q \in Proc : q # p => pc'[q] = pc[q])
          /\ UNCHANGED <<my, kids, ids>> /\ my[p] = 0 /\ key' \in [Proc -> Nat]
          /\ (\A q \in Proc : q # p => key'[q] = key[q])
      BY <1>9 DEF Probe, TypeOK, SegmentInv, NextKey
    <3>4. (\A t \in segs : t.id # 0 /\ t.id <= ids)' /\ (\A r, t \in segs : r.id = t.id \/ r.key = t.key => r = t)'
      BY <3>1, <3>3 DEF SegmentInv
    <3>5. (\A q \in Proc : pc[q] \in {"attach", "record", "header"} => \E t \in segs : t.id = my[q] /\ ~t.hdr /\ t.key = key[q])'
      BY <3>1, <3>3 DEF SegmentInv
    <3>6. (\A q \in Proc : pc[q] \in Serving => \E t \in segs : t.id = my[q] /\ t.hdr)'
      BY <3>1, <3>2, <3>3 DEF SegmentInv
    <3>7. (\A q \in Proc : kids[q] # 0 => \E t \in segs : t.id = kids[q] /\ t.hdr)'
      BY <3>1, <3>2, <3>3 DEF SegmentInv
    <3>8. (\A q \in Proc : pc[q] \in {"none", "fill", "shmget", "probe", "unlock"} \union Locking => my[q] = 0)'
      BY <3>3 DEF SegmentInv
    <3> QED BY <3>4, <3>5, <3>6, <3>7, <3>8 DEF SegmentInv
  <2> QED BY <1>9, <2>1, <2>2 DEF Probe
<1>10. ASSUME NEW p \in Proc, Shmat(p) PROVE SegmentInv'
  BY <1>10 DEF Shmat, TypeOK, SegmentInv
<1>11. ASSUME NEW p \in Proc, RecordShmem(p) PROVE SegmentInv'
  BY <1>11 DEF RecordShmem, TypeOK, SegmentInv
<1>12. ASSUME NEW p \in Proc, InitHeader(p) PROVE SegmentInv'
  <2> DEFINE Done(s) == [s EXCEPT !.hdr = TRUE]
             New(s) == IF s.id = my[p] THEN Done(s) ELSE s
  <2>1. \A s \in segs : Done(s).id = s.id /\ Done(s).key = s.key /\ Done(s).hdr = TRUE
    BY DEF TypeOK, Segment
  <2>2. segs' = {New(s) : s \in segs} /\ UNCHANGED <<my, kids, ids, key>>
    BY <1>12 DEF InitHeader
  <2> HIDE DEF Done
  <2>3. \A s \in segs : New(s).id = s.id /\ New(s).key = s.key /\ (s.hdr => New(s).hdr) /\ (s.id = my[p] => New(s).hdr)
    BY <2>1
  <2>4. \A s \in segs : s.id # my[p] => New(s) = s
    OBVIOUS
  <2> HIDE DEF New
  <2>5. (\A s \in segs : s.id # 0 /\ s.id <= ids)' /\ (\A s, t \in segs : s.id = t.id \/ s.key = t.key => s = t)'
    BY <2>2, <2>3 DEF SegmentInv
  <2>6. pc[p] = "header" /\ pc'[p] = "running" /\ \A q \in Proc : q # p => pc'[q] = pc[q] /\ pc[q] \notin Holding
    BY <1>12 DEF InitHeader, TypeOK, LockInv, Holding
  <2>7. (\A q \in Proc : pc[q] \in {"none", "fill", "shmget", "probe", "unlock"} \union Locking => my[q] = 0)'
    BY <2>2, <2>6 DEF SegmentInv
  <2>8. (\A q \in Proc : pc[q] \in {"attach", "record", "header"} => \E s \in segs : s.id = my[q] /\ ~s.hdr /\ s.key = key[q])'
    BY <2>6 DEF Holding
  <2>9. (\A q \in Proc : pc[q] \in Serving => \E s \in segs : s.id = my[q] /\ s.hdr)'
    <3>1. \E s \in segs : s.id = my[p]
      BY <2>6 DEF SegmentInv
    <3> QED BY <2>2, <2>3, <2>6, <3>1 DEF Holding
  <2>10. (\A q \in Proc : kids[q] # 0 => \E s \in segs : s.id = kids[q] /\ s.hdr)'
    BY <2>2, <2>3 DEF SegmentInv
  <2> QED BY <2>5, <2>7, <2>8, <2>9, <2>10 DEF SegmentInv
<1>13. ASSUME NEW p \in Proc, Fatal(p) PROVE SegmentInv'
  BY <1>13, SMTT(30) DEF Fatal, TypeOK, SegmentInv
<1>14. ASSUME NEW p \in Proc, Fork(p) PROVE SegmentInv'
  BY <1>14, SMTT(30) DEF Fork, TypeOK, SegmentInv
<1>15. ASSUME NEW p \in Proc, BackendsExit(p) PROVE SegmentInv'
  BY <1>15 DEF BackendsExit, TypeOK, SegmentInv
<1>16. ASSUME NEW p \in Proc, Reinitialize(p) PROVE SegmentInv'
  BY <1>16, SMTT(30) DEF Reinitialize, TypeOK, LockInv, Holding, SegmentInv, UseInv
<1>17. ASSUME NEW p \in Proc, Recheck(p) PROVE SegmentInv'
  BY <1>17 DEF Recheck, TypeOK, SegmentInv
<1>18. ASSUME NEW p \in Proc, Shutdown(p) PROVE SegmentInv'
  BY <1>18, SMTT(30) DEF Shutdown, TypeOK, SegmentInv
<1>26. ASSUME NEW p \in Proc, StartupFailure(p) PROVE SegmentInv'
  BY <1>26, SMTT(30) DEF StartupFailure, TypeOK, SegmentInv
<1>19. ASSUME NEW p \in Proc, ExitPostmaster(p) PROVE SegmentInv'
  BY <1>19, SMTT(30) DEF ExitPostmaster, TypeOK, SegmentInv
<1>20. ASSUME NEW p \in Proc, ReleaseShmem(p) PROVE SegmentInv'
  BY <1>20, SMTT(30) DEF ReleaseShmem, TypeOK, LockInv, Holding, SegmentInv, UseInv
<1>21. ASSUME NEW p \in Proc, UnlinkLockFiles(p) PROVE SegmentInv'
  BY <1>21, SMTT(30) DEF UnlinkLockFiles, TypeOK, SegmentInv
<1>22. ASSUME NEW p \in Proc, Kill9(p) PROVE SegmentInv'
  BY <1>22 DEF Kill9, TypeOK, SegmentInv
<1>23. CASE Reboot
  BY <1>23 DEF Reboot, TypeOK, SegmentInv
<1>24. CASE ForeignChange
  BY <1>24 DEF ForeignChange, TypeOK, SegmentInv
<1>25. CASE UNCHANGED vars
  BY <1>25, SMTT(30) DEF vars, TypeOK, SegmentInv
<1> QED BY <1>1, <1>2, <1>3, <1>4, <1>5, <1>6, <1>7, <1>8, <1>9, <1>10, <1>11, <1>12, <1>13, <1>14, <1>15, <1>16, <1>17, <1>18, <1>19, <1>20, <1>21, <1>22, <1>23, <1>24, <1>25, <1>26 DEF Next, StartStep, StopStep

\* Nobody revives or removes debris, short of a reboot.
DebrisKept == \A t \in segs : Debris(t) => t \in segs' /\ Debris(t)'

\* Probe removes only segments with a header, and ReleaseShmem only its own.
LEMMA DebrisStep ==
    ASSUME TypeOK, SegmentInv, [Next]_vars PROVE DebrisKept \/ Reboot
<1> USE DEF Goto, Alive, Locking, Claiming, Serving, Exiting
<1>1. ASSUME NEW p \in Proc, Start(p) PROVE DebrisKept \/ Reboot
  <2>1. my[p] = 0 /\ \A t \in segs : t.id # 0
    BY <1>1 DEF Start, SegmentInv
  <2> QED BY <1>1, <2>1 DEF Start, TypeOK, DebrisKept, Debris
<1>2. ASSUME NEW p \in Proc, OpenLock(p) PROVE DebrisKept \/ Reboot
  BY <1>2 DEF OpenLock, TypeOK, DebrisKept, Debris
<1>3. ASSUME NEW p \in Proc, ReadLock(p) PROVE DebrisKept \/ Reboot
  BY <1>3 DEF ReadLock, TypeOK, DebrisKept, Debris
<1>4. ASSUME NEW p \in Proc, KillTest(p) PROVE DebrisKept \/ Reboot
  BY <1>4 DEF KillTest, TypeOK, DebrisKept, Debris
<1>5. ASSUME NEW p \in Proc, ShmemTest(p) PROVE DebrisKept \/ Reboot
  BY <1>5 DEF ShmemTest, TypeOK, DebrisKept, Debris
<1>6. ASSUME NEW p \in Proc, UnlinkStale(p) PROVE DebrisKept \/ Reboot
  BY <1>6 DEF UnlinkStale, TypeOK, DebrisKept, Debris
<1>7. ASSUME NEW p \in Proc, FillLock(p) PROVE DebrisKept \/ Reboot
  BY <1>7 DEF FillLock, TypeOK, DebrisKept, Debris
<1>8. ASSUME NEW p \in Proc, Shmget(p) PROVE DebrisKept \/ Reboot
  <2>1. \A t \in segs : t.id \in Nat /\ t.id # ids + 1
    BY DEF TypeOK, Segment, SegmentInv
  <2> QED BY <1>8, <2>1 DEF Shmget, TypeOK, DebrisKept, Debris
<1>9. ASSUME NEW p \in Proc, Probe(p) PROVE DebrisKept \/ Reboot
  BY <1>9 DEF Probe, TypeOK, DebrisKept, Debris
<1>10. ASSUME NEW p \in Proc, Shmat(p) PROVE DebrisKept \/ Reboot
  BY <1>10 DEF Shmat, TypeOK, DebrisKept, Debris
<1>11. ASSUME NEW p \in Proc, RecordShmem(p) PROVE DebrisKept \/ Reboot
  BY <1>11 DEF RecordShmem, TypeOK, DebrisKept, Debris
<1>12. ASSUME NEW p \in Proc, InitHeader(p) PROVE DebrisKept \/ Reboot
  <2>1. \A t \in segs : Debris(t) => t.id # my[p]
    BY <1>12 DEF InitHeader, Debris
  <2> QED BY <1>12, <2>1 DEF InitHeader, TypeOK, DebrisKept, Debris
<1>13. ASSUME NEW p \in Proc, Fatal(p) PROVE DebrisKept \/ Reboot
  BY <1>13 DEF Fatal, TypeOK, DebrisKept, Debris
<1>14. ASSUME NEW p \in Proc, Fork(p) PROVE DebrisKept \/ Reboot
  BY <1>14 DEF Fork, TypeOK, DebrisKept, Debris
<1>15. ASSUME NEW p \in Proc, BackendsExit(p) PROVE DebrisKept \/ Reboot
  BY <1>15 DEF BackendsExit, TypeOK, DebrisKept, Debris
<1>16. ASSUME NEW p \in Proc, Reinitialize(p) PROVE DebrisKept \/ Reboot
  <2>1. \A t \in segs : Debris(t) => t.id # my[p]
    BY <1>16 DEF Reinitialize, Debris
  <2>2. \A t \in segs : t.id # 0
    BY DEF SegmentInv
  <2> QED BY <1>16, <2>1, <2>2 DEF Reinitialize, TypeOK, DebrisKept, Debris
<1>17. ASSUME NEW p \in Proc, Recheck(p) PROVE DebrisKept \/ Reboot
  BY <1>17 DEF Recheck, TypeOK, DebrisKept, Debris
<1>18. ASSUME NEW p \in Proc, Shutdown(p) PROVE DebrisKept \/ Reboot
  BY <1>18 DEF Shutdown, TypeOK, DebrisKept, Debris
<1>26. ASSUME NEW p \in Proc, StartupFailure(p) PROVE DebrisKept \/ Reboot
  BY <1>26 DEF StartupFailure, TypeOK, DebrisKept, Debris
<1>19. ASSUME NEW p \in Proc, ExitPostmaster(p) PROVE DebrisKept \/ Reboot
  BY <1>19 DEF ExitPostmaster, TypeOK, DebrisKept, Debris
<1>20. ASSUME NEW p \in Proc, ReleaseShmem(p) PROVE DebrisKept \/ Reboot
  <2>1. \A t \in segs : Debris(t) => t.id # my[p]
    BY <1>20 DEF ReleaseShmem, Debris
  <2>2. \A t \in segs : t.id # 0
    BY DEF SegmentInv
  <2> QED BY <1>20, <2>1, <2>2 DEF ReleaseShmem, TypeOK, DebrisKept, Debris
<1>21. ASSUME NEW p \in Proc, UnlinkLockFiles(p) PROVE DebrisKept \/ Reboot
  BY <1>21 DEF UnlinkLockFiles, TypeOK, DebrisKept, Debris
<1>22. ASSUME NEW p \in Proc, Kill9(p) PROVE DebrisKept \/ Reboot
  BY <1>22 DEF Kill9, TypeOK, DebrisKept, Debris
<1>23. CASE Reboot
  BY <1>23
<1>24. CASE ForeignChange
  BY <1>24 DEF ForeignChange, TypeOK, DebrisKept, Debris
<1>25. CASE UNCHANGED vars
  BY <1>25 DEF vars, TypeOK, DebrisKept, Debris
<1> QED BY <1>1, <1>2, <1>3, <1>4, <1>5, <1>6, <1>7, <1>8, <1>9, <1>10, <1>11, <1>12, <1>13, <1>14, <1>15, <1>16, <1>17, <1>18, <1>19, <1>20, <1>21, <1>22, <1>23, <1>24, <1>25, <1>26 DEF Next, StartStep, StopStep

\* The search for a key moves on only past debris.
LEMMA KeyStep ==
    ASSUME TypeOK, LockInv, SegmentInv, KeyInv, ForeignKeys = {}, [Next]_vars PROVE KeyInv'
<1> USE DEF Goto, Alive, Locking, Claiming, Serving, Exiting
<1>a. CASE Reboot
  BY <1>a DEF Reboot, TypeOK, KeyInv
<1> SUFFICES ASSUME ~Reboot PROVE KeyInv'
  BY <1>a
<1>b. \A k \in Nat : DebrisBelow(k) => DebrisBelow(k)'
  BY DebrisStep DEF DebrisKept, DebrisBelow
<1>c. (\A s \in segs : s.key \in Nat) /\ \A q \in Proc : key[q] \in Nat
  BY DEF TypeOK, Segment
<1>1. ASSUME NEW p \in Proc, Start(p) PROVE KeyInv'
  BY <1>1, <1>b, <1>c DEF Start, TypeOK, KeyInv
<1>2. ASSUME NEW p \in Proc, OpenLock(p) PROVE KeyInv'
  BY <1>2, <1>b, <1>c DEF OpenLock, TypeOK, KeyInv
<1>3. ASSUME NEW p \in Proc, ReadLock(p) PROVE KeyInv'
  BY <1>3, <1>b, <1>c DEF ReadLock, TypeOK, KeyInv
<1>4. ASSUME NEW p \in Proc, KillTest(p) PROVE KeyInv'
  BY <1>4, <1>b, <1>c DEF KillTest, TypeOK, KeyInv
<1>5. ASSUME NEW p \in Proc, ShmemTest(p) PROVE KeyInv'
  BY <1>5, <1>b, <1>c DEF ShmemTest, TypeOK, KeyInv
<1>6. ASSUME NEW p \in Proc, UnlinkStale(p) PROVE KeyInv'
  BY <1>6, <1>b, <1>c DEF UnlinkStale, TypeOK, KeyInv
<1>7. ASSUME NEW p \in Proc, FillLock(p) PROVE KeyInv'
  <2>1. DebrisBelow(0)'
    BY DEF DebrisBelow
  <2>2. key'[p] = 0 /\ pc'[p] \in {"dead", "shmget"} /\ UNCHANGED segs
        /\ \A q \in Proc : q # p => key'[q] = key[q] /\ pc'[q] = pc[q]
    BY <1>7 DEF FillLock, TypeOK
  <2> QED BY <1>b, <1>c, <2>1, <2>2 DEF KeyInv
<1>8. ASSUME NEW p \in Proc, Shmget(p) PROVE KeyInv'
  <2>1. UNCHANGED key /\ pc'[p] \in {"probe", "attach"} /\ pc[p] = "shmget"
        /\ \A q \in Proc : q # p => pc'[q] = pc[q]
    BY <1>8 DEF Shmget, TypeOK
  <2>2. /\ segs \subseteq segs'
        /\ \A s \in segs' : s.hdr => s \in segs
        /\ pc'[p] = "probe" => \E s \in segs' : s.key = key[p]
    BY <1>8 DEF Shmget, TypeOK
  <2>3. (\A s \in segs : s.hdr => DebrisBelow(s.key))'
    BY <1>b, <1>c, <2>2 DEF KeyInv
  <2>4. (\A q \in Proc : pc[q] \in Claiming \ {"fill"} => DebrisBelow(key[q]))'
    BY <1>b, <1>c, <2>1 DEF KeyInv
  <2>5. (\A q \in Proc : pc[q] = "probe" => \E s \in segs : s.key = key[q])'
    BY <2>1, <2>2 DEF KeyInv
  <2> QED BY <2>3, <2>4, <2>5 DEF KeyInv
<1>9. ASSUME NEW p \in Proc, Probe(p) PROVE KeyInv'
  <2>1. /\ pc[p] = "probe" /\ pc'[p] \in {"shmget", "detach"} /\ segs' \subseteq segs
        /\ \A q \in Proc : q # p => key'[q] = key[q] /\ pc'[q] = pc[q] /\ pc[q] \notin Claiming
    BY <1>9, SMTT(30) DEF Probe, TypeOK, LockInv, Holding
  <2>2. CASE UNCHANGED key
    BY <1>b, <1>c, <2>1, <2>2 DEF KeyInv
  <2>3. CASE UNCHANGED segs /\ key' = [key EXCEPT ![p] = NextKey(key[p])] /\ \A s \in segs : s.key = key[p] => ~s.hdr
    <3>1. PICK t \in segs : t.key = key[p]
      BY <2>1 DEF KeyInv
    <3>2. \A q \in Proc : pc[q] \in Alive => my[q] = 0
      BY <2>1, SMTT(30) DEF LockInv, Holding, SegmentInv
    <3>3. Debris(t)
      BY <2>3, <3>1, <3>2, SMTT(30) DEF Debris, SegmentInv
    <3>4. DebrisBelow(key[p])
      BY <2>1 DEF KeyInv
    <3>5. DebrisBelow(key[p] + 1)
      BY <1>c, <3>1, <3>3, <3>4 DEF DebrisBelow
    <3>6. key'[p] = key[p] + 1
      BY <2>3 DEF NextKey, TypeOK
    <3>7. (DebrisBelow(key[p]))'
      BY <1>b, <1>c, <3>5, <3>6
    <3> QED BY <1>b, <1>c, <2>1, <2>3, <3>7 DEF KeyInv
  <2> QED BY <1>9, <2>2, <2>3 DEF Probe
<1>10. ASSUME NEW p \in Proc, Shmat(p) PROVE KeyInv'
  BY <1>10, <1>b, <1>c DEF Shmat, TypeOK, KeyInv
<1>11. ASSUME NEW p \in Proc, RecordShmem(p) PROVE KeyInv'
  BY <1>11, <1>b, <1>c DEF RecordShmem, TypeOK, KeyInv
<1>12. ASSUME NEW p \in Proc, InitHeader(p) PROVE KeyInv'
  <2>1. /\ pc[p] = "header" /\ pc'[p] = "running" /\ UNCHANGED <<key, my>>
        /\ segs' = {IF s.id = my[p] THEN [s EXCEPT !.hdr = TRUE] ELSE s : s \in segs}
        /\ \A q \in Proc : q # p => pc'[q] = pc[q] /\ pc[q] \notin Claiming
    BY <1>12 DEF InitHeader, TypeOK, LockInv, Holding
  <2>2. \A s \in segs : s.id = my[p] => s.key = key[p]
    BY <2>1 DEF SegmentInv
  <2>3. \A s \in segs' : s \in segs \/ s.key = key[p]
    BY <2>1, <2>2 DEF TypeOK, Segment
  <2>4. DebrisBelow(key[p])
    BY <2>1 DEF KeyInv
  <2> QED BY <1>b, <1>c, <2>1, <2>3, <2>4 DEF KeyInv
<1>13. ASSUME NEW p \in Proc, Fatal(p) PROVE KeyInv'
  BY <1>13, <1>b, <1>c DEF Fatal, TypeOK, KeyInv
<1>14. ASSUME NEW p \in Proc, Fork(p) PROVE KeyInv'
  BY <1>14, <1>b, <1>c DEF Fork, TypeOK, KeyInv
<1>15. ASSUME NEW p \in Proc, BackendsExit(p) PROVE KeyInv'
  BY <1>15, <1>b, <1>c DEF BackendsExit, TypeOK, KeyInv
<1>16. ASSUME NEW p \in Proc, Reinitialize(p) PROVE KeyInv'
  <2>1. DebrisBelow(0)'
    BY DEF DebrisBelow
  <2>2. /\ key'[p] = 0 /\ pc'[p] = "shmget" /\ segs' \subseteq segs
        /\ \A q \in Proc : q # p => key'[q] = key[q] /\ pc'[q] = pc[q] /\ pc[q] \notin Claiming
    BY <1>16, SMTT(30) DEF Reinitialize, TypeOK, LockInv, Holding
  <2> QED BY <1>b, <1>c, <2>1, <2>2 DEF KeyInv
<1>17. ASSUME NEW p \in Proc, Recheck(p) PROVE KeyInv'
  BY <1>17, <1>b, <1>c DEF Recheck, TypeOK, KeyInv
<1>18. ASSUME NEW p \in Proc, Shutdown(p) PROVE KeyInv'
  BY <1>18, <1>b, <1>c DEF Shutdown, TypeOK, KeyInv
<1>26. ASSUME NEW p \in Proc, StartupFailure(p) PROVE KeyInv'
  BY <1>26, <1>b, <1>c DEF StartupFailure, TypeOK, KeyInv
<1>19. ASSUME NEW p \in Proc, ExitPostmaster(p) PROVE KeyInv'
  BY <1>19, <1>b, <1>c DEF ExitPostmaster, TypeOK, KeyInv
<1>20. ASSUME NEW p \in Proc, ReleaseShmem(p) PROVE KeyInv'
  <2>1. /\ pc'[p] = "unlock" /\ segs' \subseteq segs
        /\ \A q \in Proc : q # p => key'[q] = key[q] /\ pc'[q] = pc[q] /\ pc[q] \notin Claiming
    BY <1>20, SMTT(30) DEF ReleaseShmem, TypeOK, LockInv, Holding
  <2> QED BY <1>b, <1>c, <2>1 DEF KeyInv
<1>21. ASSUME NEW p \in Proc, UnlinkLockFiles(p) PROVE KeyInv'
  BY <1>21, <1>b, <1>c DEF UnlinkLockFiles, TypeOK, KeyInv
<1>22. ASSUME NEW p \in Proc, Kill9(p) PROVE KeyInv'
  BY <1>22, <1>b, <1>c DEF Kill9, TypeOK, KeyInv
<1>23. CASE Reboot
  BY <1>23
<1>24. CASE ForeignChange
  BY <1>24, <1>b, <1>c DEF ForeignChange, TypeOK, KeyInv
<1>25. CASE UNCHANGED vars
  BY <1>25, <1>b, <1>c DEF vars, TypeOK, KeyInv
<1> QED BY <1>1, <1>2, <1>3, <1>4, <1>5, <1>6, <1>7, <1>8, <1>9, <1>10, <1>11, <1>12, <1>13, <1>14, <1>15, <1>16, <1>17, <1>18, <1>19, <1>20, <1>21, <1>22, <1>23, <1>24, <1>25, <1>26 DEF Next, StartStep, StopStep

\* A postmaster that finds a free key has found no segment with a header, so no
\* backends of an earlier server are left.
LEMMA UseStep ==
    ASSUME TypeOK, LockInv, SegmentInv, KeyInv, UseInv, ~StartupFails, [Next]_vars PROVE UseInv'
<1> USE DEF Goto, Alive, Locking, Claiming, Serving, Exiting
<1>1. ASSUME NEW p \in Proc, Start(p) PROVE UseInv'
  BY <1>1, SMTT(30) DEF Start, TypeOK, UseInv
<1>2. ASSUME NEW p \in Proc, OpenLock(p) PROVE UseInv'
  BY <1>2, SMTT(30) DEF OpenLock, TypeOK, UseInv
<1>3. ASSUME NEW p \in Proc, ReadLock(p) PROVE UseInv'
  BY <1>3 DEF ReadLock, TypeOK, UseInv
<1>4. ASSUME NEW p \in Proc, KillTest(p) PROVE UseInv'
  BY <1>4, SMTT(30) DEF KillTest, TypeOK, UseInv
<1>5. ASSUME NEW p \in Proc, ShmemTest(p) PROVE UseInv'
  BY <1>5 DEF ShmemTest, TypeOK, UseInv
<1>6. ASSUME NEW p \in Proc, UnlinkStale(p) PROVE UseInv'
  BY <1>6, SMTT(30) DEF UnlinkStale, TypeOK, UseInv
<1>7. ASSUME NEW p \in Proc, FillLock(p) PROVE UseInv'
  BY <1>7 DEF FillLock, TypeOK, UseInv
<1>8. ASSUME NEW p \in Proc, Shmget(p) PROVE UseInv'
  <2>1. CASE pc' = [pc EXCEPT ![p] = "probe"] /\ UNCHANGED my
    BY <1>8, <2>1, SMTT(30) DEF Shmget, TypeOK, UseInv
  <2>2. CASE pc' = [pc EXCEPT ![p] = "attach"] /\ ~\E s \in segs : s.key = key[p]
    <3>1. DebrisBelow(key[p]) /\ key[p] \in Nat
      BY <1>8 DEF Shmget, TypeOK, KeyInv
    <3>2. ASSUME NEW s \in segs, s.hdr PROVE FALSE
      <4>1. s.key \in Nat /\ DebrisBelow(s.key) /\ s.key # key[p]
        BY <2>2, <3>2 DEF TypeOK, Segment, KeyInv
      <4>2. CASE s.key < key[p]
        BY <3>1, <3>2, <4>1, <4>2, SMTT(30) DEF DebrisBelow, Debris, SegmentInv
      <4>3. CASE key[p] < s.key
        BY <2>2, <3>1, <4>1, <4>3 DEF DebrisBelow
      <4> QED BY <3>1, <4>1, <4>2, <4>3
    <3>3. \A q \in Proc : kids[q] = 0
      BY <3>2 DEF SegmentInv
    <3> QED BY <1>8, <2>2, <3>3 DEF Shmget, TypeOK, UseInv
  <2> QED BY <1>8, <2>1, <2>2 DEF Shmget
<1>9. ASSUME NEW p \in Proc, Probe(p) PROVE UseInv'
  <2>1. my[p] = 0 /\ UNCHANGED <<my, kids>>
    BY <1>9 DEF Probe, SegmentInv
  <2> QED BY <1>9, <2>1, SMTT(30) DEF Probe, TypeOK, UseInv
<1>10. ASSUME NEW p \in Proc, Shmat(p) PROVE UseInv'
  BY <1>10 DEF Shmat, TypeOK, UseInv
<1>11. ASSUME NEW p \in Proc, RecordShmem(p) PROVE UseInv'
  BY <1>11 DEF RecordShmem, TypeOK, UseInv
<1>12. ASSUME NEW p \in Proc, InitHeader(p) PROVE UseInv'
  BY <1>12 DEF InitHeader, TypeOK, UseInv
<1>13. ASSUME NEW p \in Proc, Fatal(p) PROVE UseInv'
  BY <1>13, SMTT(30) DEF Fatal, TypeOK, UseInv, SegmentInv
<1>14. ASSUME NEW p \in Proc, Fork(p) PROVE UseInv'
  <2>3. PICK s \in segs : s.id = my[p]
    BY <1>14 DEF Fork, SegmentInv
  <2>1. my[p] # 0
    BY <2>3 DEF SegmentInv
  <2>2. \A q \in Proc : q # p => kids[q] = 0 /\ pc[q] \notin Holding
    BY <1>14 DEF Fork, UseInv, LockInv, Holding
  <2> QED BY <1>14, <2>1, <2>2, SMTT(30) DEF Fork, TypeOK, UseInv, Holding
<1>15. ASSUME NEW p \in Proc, BackendsExit(p) PROVE UseInv'
  BY <1>15 DEF BackendsExit, TypeOK, UseInv
<1>16. ASSUME NEW p \in Proc, Reinitialize(p) PROVE UseInv'
  BY <1>16 DEF Reinitialize, TypeOK, UseInv
<1>17. ASSUME NEW p \in Proc, Recheck(p) PROVE UseInv'
  BY <1>17, SMTT(30) DEF Recheck, TypeOK, UseInv
<1>18. ASSUME NEW p \in Proc, Shutdown(p) PROVE UseInv'
  BY <1>18 DEF Shutdown, TypeOK, UseInv
<1>26. ASSUME NEW p \in Proc, StartupFailure(p) PROVE UseInv'
  BY <1>26 DEF StartupFailure, TypeOK, UseInv
<1>19. ASSUME NEW p \in Proc, ExitPostmaster(p) PROVE UseInv'
  BY <1>19 DEF ExitPostmaster, ChildrenGone, TypeOK, UseInv
<1>20. ASSUME NEW p \in Proc, ReleaseShmem(p) PROVE UseInv'
  BY <1>20 DEF ReleaseShmem, TypeOK, UseInv
<1>21. ASSUME NEW p \in Proc, UnlinkLockFiles(p) PROVE UseInv'
  BY <1>21 DEF UnlinkLockFiles, TypeOK, UseInv
<1>22. ASSUME NEW p \in Proc, Kill9(p) PROVE UseInv'
  BY <1>22 DEF Kill9, TypeOK, UseInv
<1>23. CASE Reboot
  BY <1>23 DEF Reboot, TypeOK, UseInv
<1>24. CASE ForeignChange
  BY <1>24 DEF ForeignChange, TypeOK, UseInv
<1>25. CASE UNCHANGED vars
  BY <1>25 DEF vars, TypeOK, UseInv
<1> QED BY <1>1, <1>2, <1>3, <1>4, <1>5, <1>6, <1>7, <1>8, <1>9, <1>10, <1>11, <1>12, <1>13, <1>14, <1>15, <1>16, <1>17, <1>18, <1>19, <1>20, <1>21, <1>22, <1>23, <1>24, <1>25, <1>26 DEF Next, StartStep, StopStep

\* Users of the directory are the one holder of the lock file or the backends
\* of the one dead server.
LEMMA OneUser ==
    ASSUME InterlockInv PROVE OneServer
BY DEF InterlockInv, LockInv, UseInv, OneServer, Uses, Holding, Alive, Serving

\* The invariant holds before the first start.
LEMMA InitInv ==
    ASSUME Init PROVE InterlockInv
<1> USE DEF Alive, Locking, Claiming, Serving, Exiting
<1>1. TypeOK
  <2>1. NoFile \in File
    BY DEF NoFile, File
  <2>2. Leftover \subseteq File
    BY InterlockAssumption DEF Leftover, File
  <2> QED BY <2>1, <2>2, InterlockAssumption DEF Init, TypeOK
<1>2. PidInv /\ LockInv
  BY DEF Init, PidInv, LockInv, Holding
<1>3. SegmentInv /\ KeyInv /\ UseInv
  BY DEF Init, SegmentInv, KeyInv, UseInv
<1> QED BY <1>1, <1>2, <1>3 DEF InterlockInv

\* The invariant behind the interlock, for any number of starts, process IDs
\* and crash restarts: CreateLockFile's tests leave the file of a live
\* postmaster alone, and the search for a shmem key finds every segment that
\* orphaned backends use before it creates a new one.
THEOREM InterlockInvariant ==
    ASSUME Serial, ForeignKeys = {}, ~StartupFails PROVE Spec => []InterlockInv
<1>1. Init => InterlockInv
  BY InitInv
<1>2. InterlockInv /\ [Next]_vars => InterlockInv'
  <2> SUFFICES ASSUME InterlockInv, [Next]_vars PROVE InterlockInv'
    OBVIOUS
  <2>1. TypeOK /\ PidInv /\ LockInv /\ SegmentInv /\ KeyInv /\ UseInv
    BY DEF InterlockInv
  <2>2. TypeOK' /\ PidInv' /\ LockInv'
    BY <2>1, TypeStep, PidStep, LockStep
  <2>3. SegmentInv' /\ KeyInv' /\ UseInv'
    BY <2>1, SegmentStep, KeyStep, UseStep
  <2> QED BY <2>2, <2>3 DEF InterlockInv
<1> QED BY <1>1, <1>2, PTL DEF Spec

\* No two servers ever use the data directory, orphaned backends included.
THEOREM OneServerTheorem ==
    ASSUME Serial, ForeignKeys = {}, ~StartupFails PROVE Spec => []OneServer
<1>1. InterlockInv => OneServer
  BY OneUser
<1> QED BY <1>1, InterlockInvariant, PTL

\* The lock file always names the running server.
THEOREM LockNamesServerTheorem ==
    ASSUME Serial, ForeignKeys = {}, ~StartupFails PROVE Spec => []LockNamesServer
<1>1. InterlockInv => LockNamesServer
  <2>1. \A p \in Proc : p # 0
    BY InterlockAssumption DEF Proc
  <2> QED BY <2>1 DEF InterlockInv, LockInv, LockNamesServer, LockIsValid, Holding, Serving
<1> QED BY <1>1, InterlockInvariant, PTL

\* InitHeader enters the directory; the end of the last process leaves it.
LEMMA UseRefines ==
    ASSUME InterlockInv, [Next]_vars PROVE [Dir!Next]_Users
<1> USE DEF Goto, Alive, Locking, Claiming, Serving, Exiting
<1> USE DEF InterlockInv
<1>1. ASSUME NEW p \in Proc, Start(p) PROVE [Dir!Next]_Users
  <2>1. \A q \in Proc : Uses(q)' <=> Uses(q)
    BY <1>1 DEF Start, Uses, TypeOK
  <2> QED BY <2>1 DEF Users
<1>2. ASSUME NEW p \in Proc, OpenLock(p) PROVE [Dir!Next]_Users
  <2>1. \A q \in Proc : Uses(q)' <=> Uses(q)
    BY <1>2 DEF OpenLock, Uses, TypeOK
  <2> QED BY <2>1 DEF Users
<1>3. ASSUME NEW p \in Proc, ReadLock(p) PROVE [Dir!Next]_Users
  <2>1. \A q \in Proc : Uses(q)' <=> Uses(q)
    BY <1>3 DEF ReadLock, Uses, TypeOK
  <2> QED BY <2>1 DEF Users
<1>4. ASSUME NEW p \in Proc, KillTest(p) PROVE [Dir!Next]_Users
  <2>1. \A q \in Proc : Uses(q)' <=> Uses(q)
    BY <1>4 DEF KillTest, Uses, TypeOK
  <2> QED BY <2>1 DEF Users
<1>5. ASSUME NEW p \in Proc, ShmemTest(p) PROVE [Dir!Next]_Users
  <2>1. \A q \in Proc : Uses(q)' <=> Uses(q)
    BY <1>5 DEF ShmemTest, Uses, TypeOK
  <2> QED BY <2>1 DEF Users
<1>6. ASSUME NEW p \in Proc, UnlinkStale(p) PROVE [Dir!Next]_Users
  <2>1. \A q \in Proc : Uses(q)' <=> Uses(q)
    BY <1>6 DEF UnlinkStale, Uses, TypeOK
  <2> QED BY <2>1 DEF Users
<1>7. ASSUME NEW p \in Proc, FillLock(p) PROVE [Dir!Next]_Users
  <2>1. \A q \in Proc : Uses(q)' <=> Uses(q)
    BY <1>7 DEF FillLock, Uses, TypeOK
  <2> QED BY <2>1 DEF Users
<1>8. ASSUME NEW p \in Proc, Shmget(p) PROVE [Dir!Next]_Users
  <2>1. \A q \in Proc : Uses(q)' <=> Uses(q)
    BY <1>8 DEF Shmget, Uses, TypeOK
  <2> QED BY <2>1 DEF Users
<1>9. ASSUME NEW p \in Proc, Probe(p) PROVE [Dir!Next]_Users
  <2>1. \A q \in Proc : Uses(q)' <=> Uses(q)
    BY <1>9 DEF Probe, Uses, TypeOK
  <2> QED BY <2>1 DEF Users
<1>10. ASSUME NEW p \in Proc, Shmat(p) PROVE [Dir!Next]_Users
  <2>1. \A q \in Proc : Uses(q)' <=> Uses(q)
    BY <1>10 DEF Shmat, Uses, TypeOK
  <2> QED BY <2>1 DEF Users
<1>11. ASSUME NEW p \in Proc, RecordShmem(p) PROVE [Dir!Next]_Users
  <2>1. \A q \in Proc : Uses(q)' <=> Uses(q)
    BY <1>11 DEF RecordShmem, Uses, TypeOK
  <2> QED BY <2>1 DEF Users
<1>12. ASSUME NEW p \in Proc, InitHeader(p) PROVE [Dir!Next]_Users
  <2>1. \A q \in Proc : ~Uses(q) /\ (Uses(q)' <=> q = p)
    BY <1>12 DEF InitHeader, Uses, TypeOK, LockInv, Holding, UseInv
  <2>2. Users = {} /\ Users' = {p}
    BY <2>1 DEF Users
  <2> QED BY <2>2 DEF Dir!Next, Dir!Enter
<1>13. ASSUME NEW p \in Proc, Fatal(p) PROVE [Dir!Next]_Users
  <2>1. \A q \in Proc : Uses(q)' <=> Uses(q)
    BY <1>13 DEF Fatal, Uses, TypeOK
  <2> QED BY <2>1 DEF Users
<1>14. ASSUME NEW p \in Proc, Fork(p) PROVE [Dir!Next]_Users
  <2>1. \A q \in Proc : Uses(q)' <=> Uses(q)
    BY <1>14 DEF Fork, Uses, TypeOK, SegmentInv
  <2> QED BY <2>1 DEF Users
<1>15. ASSUME NEW p \in Proc, BackendsExit(p) PROVE [Dir!Next]_Users
  <2>1. \A q \in Proc : (Uses(q)' <=> Uses(q)) \/ (q = p /\ ~Uses(q)')
    BY <1>15 DEF BackendsExit, Uses, TypeOK
  <2>2. Users' = Users \/ (p \in Users /\ Users' = Users \ {p})
    BY <2>1 DEF Users
  <2> QED BY <2>2 DEF Dir!Next, Dir!Leave
<1>16. ASSUME NEW p \in Proc, Reinitialize(p) PROVE [Dir!Next]_Users
  <2>1. \A q \in Proc : (Uses(q)' <=> Uses(q)) \/ (q = p /\ ~Uses(q)')
    BY <1>16 DEF Reinitialize, Uses, TypeOK
  <2>2. Users' = Users \/ (p \in Users /\ Users' = Users \ {p})
    BY <2>1 DEF Users
  <2> QED BY <2>2 DEF Dir!Next, Dir!Leave
<1>17. ASSUME NEW p \in Proc, Recheck(p) PROVE [Dir!Next]_Users
  <2>1. \A q \in Proc : Uses(q)' <=> Uses(q)
    BY <1>17 DEF Recheck, Uses, TypeOK
  <2> QED BY <2>1 DEF Users
<1>18. ASSUME NEW p \in Proc, Shutdown(p) PROVE [Dir!Next]_Users
  <2>1. \A q \in Proc : Uses(q)' <=> Uses(q)
    BY <1>18 DEF Shutdown, Uses, TypeOK
  <2> QED BY <2>1 DEF Users
<1>26. ASSUME NEW p \in Proc, StartupFailure(p) PROVE [Dir!Next]_Users
  <2>1. \A q \in Proc : (Uses(q)' <=> Uses(q)) \/ (q = p /\ ~Uses(q)')
    BY <1>26 DEF StartupFailure, Uses, TypeOK
  <2>2. Users' = Users \/ (p \in Users /\ Users' = Users \ {p})
    BY <2>1 DEF Users
  <2> QED BY <2>2 DEF Dir!Next, Dir!Leave
<1>19. ASSUME NEW p \in Proc, ExitPostmaster(p) PROVE [Dir!Next]_Users
  <2>1. \A q \in Proc : (Uses(q)' <=> Uses(q)) \/ (q = p /\ ~Uses(q)')
    BY <1>19 DEF ExitPostmaster, Uses, TypeOK
  <2>2. Users' = Users \/ (p \in Users /\ Users' = Users \ {p})
    BY <2>1 DEF Users
  <2> QED BY <2>2 DEF Dir!Next, Dir!Leave
<1>20. ASSUME NEW p \in Proc, ReleaseShmem(p) PROVE [Dir!Next]_Users
  <2>1. \A q \in Proc : Uses(q)' <=> Uses(q)
    BY <1>20 DEF ReleaseShmem, Uses, TypeOK
  <2> QED BY <2>1 DEF Users
<1>21. ASSUME NEW p \in Proc, UnlinkLockFiles(p) PROVE [Dir!Next]_Users
  <2>1. \A q \in Proc : Uses(q)' <=> Uses(q)
    BY <1>21 DEF UnlinkLockFiles, Uses, TypeOK
  <2> QED BY <2>1 DEF Users
<1>22. ASSUME NEW p \in Proc, Kill9(p) PROVE [Dir!Next]_Users
  <2>1. \A q \in Proc : (Uses(q)' <=> Uses(q)) \/ (q = p /\ ~Uses(q)')
    BY <1>22 DEF Kill9, Uses, TypeOK
  <2>2. Users' = Users \/ (p \in Users /\ Users' = Users \ {p})
    BY <2>1 DEF Users
  <2> QED BY <2>2 DEF Dir!Next, Dir!Leave
<1>23. CASE Reboot
  <2>1. Users' = {}
    BY <1>23 DEF Reboot, Users, Uses, TypeOK
  <2>2. CASE Users = {}
    BY <2>1, <2>2
  <2>3. CASE Users # {}
    <3>1. PICK p \in Proc : p \in Users
      BY <2>3 DEF Users
    <3>2. Users \ {p} = {}
      BY <3>1, OneUser DEF OneServer, Users, InterlockInv
    <3> QED BY <2>1, <3>1, <3>2 DEF Dir!Next, Dir!Leave
  <2> QED BY <2>2, <2>3
<1>24. CASE ForeignChange
  <2>1. \A q \in Proc : Uses(q)' <=> Uses(q)
    BY <1>24 DEF ForeignChange, Uses, TypeOK
  <2> QED BY <2>1 DEF Users
<1>25. CASE UNCHANGED vars
  <2>1. \A q \in Proc : Uses(q)' <=> Uses(q)
    BY <1>25 DEF vars, Uses, TypeOK
  <2> QED BY <2>1 DEF Users
<1> QED BY <1>1, <1>2, <1>3, <1>4, <1>5, <1>6, <1>7, <1>8, <1>9, <1>10, <1>11, <1>12, <1>13, <1>14, <1>15, <1>16, <1>17, <1>18, <1>19, <1>20, <1>21, <1>22, <1>23, <1>24, <1>25, <1>26 DEF Next, StartStep, StopStep

\* Lock file and shared memory segment together implement exclusive use of the
\* data directory: a server enters only when no process of another one is left.
THEOREM InterlockRefinement ==
    ASSUME Serial, ForeignKeys = {}, ~StartupFails PROVE Spec => ImplementsExclusiveUse
<1>1. Init => Dir!Init
  BY DEF Init, Dir!Init, Users, Uses, Serving
<1>2. InterlockInv /\ [Next]_vars => [Dir!Next]_Users
  BY UseRefines
<1> QED BY <1>1, <1>2, InterlockInvariant, PTL DEF Spec, ImplementsExclusiveUse, Dir!Spec

=============================================================================
