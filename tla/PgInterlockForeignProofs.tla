---------------------- MODULE PgInterlockForeignProofs ----------------------
(***************************************************************************)
(* The data directory interlock beside other programs whose segments take  *)
(* any of the shared memory keys: the segment ID in the lock file alone    *)
(* keeps servers apart, for any number of starts and process IDs, when     *)
(* starts do not overlap, no server reinitializes and no startup process   *)
(* fails.                                                                  *)
(***************************************************************************)
EXTENDS PgInterlockProofs

\* Whose backends are there, and which segment they use.
KidsInv ==
    /\ \A p \in Proc : kids[p] # 0 => pc[p] \in Serving \union {"dead"}
    /\ \A p \in Proc : pc[p] \in Serving /\ kids[p] # 0 => kids[p] = my[p]

\* Backends are forked by a running server, and a server waits for them to exit.
LEMMA KidsStep ==
    ASSUME TypeOK, KidsInv, MaxReinits = 0, ~StartupFails, [Next]_vars PROVE KidsInv'
<1> USE DEF Goto, Alive, Locking, Claiming, Serving, Exiting
<1>1. ASSUME NEW p \in Proc, Start(p) PROVE KidsInv'
  BY <1>1 DEF Start, TypeOK, KidsInv
<1>2. ASSUME NEW p \in Proc, OpenLock(p) PROVE KidsInv'
  BY <1>2 DEF OpenLock, TypeOK, KidsInv
<1>3. ASSUME NEW p \in Proc, ReadLock(p) PROVE KidsInv'
  BY <1>3 DEF ReadLock, TypeOK, KidsInv
<1>4. ASSUME NEW p \in Proc, KillTest(p) PROVE KidsInv'
  BY <1>4 DEF KillTest, TypeOK, KidsInv
<1>5. ASSUME NEW p \in Proc, ShmemTest(p) PROVE KidsInv'
  BY <1>5 DEF ShmemTest, TypeOK, KidsInv
<1>6. ASSUME NEW p \in Proc, UnlinkStale(p) PROVE KidsInv'
  BY <1>6 DEF UnlinkStale, TypeOK, KidsInv
<1>7. ASSUME NEW p \in Proc, FillLock(p) PROVE KidsInv'
  BY <1>7 DEF FillLock, TypeOK, KidsInv
<1>8. ASSUME NEW p \in Proc, Shmget(p) PROVE KidsInv'
  BY <1>8 DEF Shmget, TypeOK, KidsInv
<1>9. ASSUME NEW p \in Proc, Probe(p) PROVE KidsInv'
  BY <1>9 DEF Probe, TypeOK, KidsInv
<1>10. ASSUME NEW p \in Proc, Shmat(p) PROVE KidsInv'
  BY <1>10 DEF Shmat, TypeOK, KidsInv
<1>11. ASSUME NEW p \in Proc, RecordShmem(p) PROVE KidsInv'
  BY <1>11 DEF RecordShmem, TypeOK, KidsInv
<1>12. ASSUME NEW p \in Proc, InitHeader(p) PROVE KidsInv'
  BY <1>12 DEF InitHeader, TypeOK, KidsInv
<1>13. ASSUME NEW p \in Proc, Fatal(p) PROVE KidsInv'
  BY <1>13 DEF Fatal, TypeOK, KidsInv
<1>14. ASSUME NEW p \in Proc, Fork(p) PROVE KidsInv'
  BY <1>14 DEF Fork, TypeOK, KidsInv
<1>15. ASSUME NEW p \in Proc, BackendsExit(p) PROVE KidsInv'
  BY <1>15 DEF BackendsExit, TypeOK, KidsInv
<1>16. ASSUME NEW p \in Proc, Reinitialize(p) PROVE KidsInv'
  BY <1>16 DEF Reinitialize, TypeOK
<1>17. ASSUME NEW p \in Proc, Recheck(p) PROVE KidsInv'
  BY <1>17 DEF Recheck, TypeOK, KidsInv
<1>18. ASSUME NEW p \in Proc, Shutdown(p) PROVE KidsInv'
  BY <1>18 DEF Shutdown, TypeOK, KidsInv
<1>19. ASSUME NEW p \in Proc, StartupFailure(p) PROVE KidsInv'
  BY <1>19 DEF StartupFailure
<1>20. ASSUME NEW p \in Proc, ExitPostmaster(p) PROVE KidsInv'
  BY <1>20 DEF ExitPostmaster, ChildrenGone, TypeOK, KidsInv
<1>21. ASSUME NEW p \in Proc, ReleaseShmem(p) PROVE KidsInv'
  BY <1>21 DEF ReleaseShmem, TypeOK, KidsInv
<1>22. ASSUME NEW p \in Proc, UnlinkLockFiles(p) PROVE KidsInv'
  BY <1>22 DEF UnlinkLockFiles, TypeOK, KidsInv
<1>23. ASSUME NEW p \in Proc, Kill9(p) PROVE KidsInv'
  BY <1>23 DEF Kill9, TypeOK, KidsInv
<1>24. CASE Reboot
  BY <1>24 DEF Reboot, TypeOK, KidsInv
<1>25. CASE ForeignChange
  BY <1>25 DEF ForeignChange, TypeOK, KidsInv
<1>26. CASE UNCHANGED vars
  BY <1>26 DEF vars, TypeOK, KidsInv
<1> QED BY <1>1, <1>2, <1>3, <1>4, <1>5, <1>6, <1>7, <1>8, <1>9, <1>10, <1>11, <1>12, <1>13, <1>14, <1>15, <1>16, <1>17, <1>18, <1>19, <1>20, <1>21, <1>22, <1>23, <1>24, <1>25, <1>26 DEF Next, StartStep, StopStep

\* What the lock file, and what a starting postmaster has read in it, say of the
\* segments in use.
LEMMA RecordStep ==
    ASSUME TypeOK, PidInv, LockInv, SegmentInv, UseInv, RecordInv,
           Serial, MaxReinits = 0, ~StartupFails, [Next]_vars
    PROVE  RecordInv'
<1> USE DEF Goto, Alive, Locking, Claiming, Serving, Exiting
<1>p. \A p \in Proc : p # 0
  BY InterlockAssumption DEF Proc
<1>1. ASSUME NEW p \in Proc, Start(p) PROVE RecordInv'
  BY <1>1 DEF Start, TypeOK, RecordInv
<1>2. ASSUME NEW p \in Proc, OpenLock(p) PROVE RecordInv'
  BY <1>2, <1>p DEF OpenLock, TypeOK, LockInv, RecordInv, Holding
<1>3. ASSUME NEW p \in Proc, ReadLock(p) PROVE RecordInv'
  BY <1>3 DEF ReadLock, TypeOK, LockInv, RecordInv, Holding, UseInv
<1>4. ASSUME NEW p \in Proc, KillTest(p) PROVE RecordInv'
  BY <1>4 DEF KillTest, PidIsServer, TypeOK, PidInv, LockInv, RecordInv, Holding
<1>5. ASSUME NEW p \in Proc, ShmemTest(p) PROVE RecordInv'
  BY <1>5 DEF ShmemTest, InUse, Attached, TypeOK, SegmentInv, RecordInv, LockInv, Holding
<1>6. ASSUME NEW p \in Proc, UnlinkStale(p) PROVE RecordInv'
  BY <1>6 DEF UnlinkStale, NoFile, TypeOK, LockInv, RecordInv, Holding
<1>7. ASSUME NEW p \in Proc, FillLock(p) PROVE RecordInv'
  BY <1>7 DEF FillLock, NoFile, TypeOK, LockInv, RecordInv, Holding, UseInv
<1>8. ASSUME NEW p \in Proc, Shmget(p) PROVE RecordInv'
  BY <1>8 DEF Shmget, TypeOK, LockInv, RecordInv, Holding
<1>9. ASSUME NEW p \in Proc, Probe(p) PROVE RecordInv'
  BY <1>9 DEF Probe, TypeOK, RecordInv
<1>10. ASSUME NEW p \in Proc, Shmat(p) PROVE RecordInv'
  BY <1>10 DEF Shmat, TypeOK, RecordInv
<1>11. ASSUME NEW p \in Proc, RecordShmem(p) PROVE RecordInv'
  BY <1>11, <1>p DEF RecordShmem, TypeOK, LockInv, RecordInv, Holding, UseInv
<1>12. ASSUME NEW p \in Proc, InitHeader(p) PROVE RecordInv'
  BY <1>12 DEF InitHeader, TypeOK, LockInv, RecordInv, Holding
<1>13. ASSUME NEW p \in Proc, Fatal(p) PROVE RecordInv'
  BY <1>13 DEF Fatal, TypeOK, RecordInv
<1>14. ASSUME NEW p \in Proc, Fork(p) PROVE RecordInv'
  BY <1>14 DEF Fork, TypeOK, LockInv, RecordInv, Holding
<1>15. ASSUME NEW p \in Proc, BackendsExit(p) PROVE RecordInv'
  BY <1>15 DEF BackendsExit, TypeOK, RecordInv
<1>16. ASSUME NEW p \in Proc, Reinitialize(p) PROVE RecordInv'
  BY <1>16 DEF Reinitialize, TypeOK
<1>17. ASSUME NEW p \in Proc, Recheck(p) PROVE RecordInv'
  BY <1>17 DEF Recheck, TypeOK, RecordInv
<1>18. ASSUME NEW p \in Proc, Shutdown(p) PROVE RecordInv'
  BY <1>18 DEF Shutdown, TypeOK, RecordInv
<1>19. ASSUME NEW p \in Proc, StartupFailure(p) PROVE RecordInv'
  BY <1>19 DEF StartupFailure
<1>20. ASSUME NEW p \in Proc, ExitPostmaster(p) PROVE RecordInv'
  BY <1>20 DEF ExitPostmaster, TypeOK, RecordInv
<1>21. ASSUME NEW p \in Proc, ReleaseShmem(p) PROVE RecordInv'
  BY <1>21 DEF ReleaseShmem, TypeOK, LockInv, RecordInv, Holding
<1>22. ASSUME NEW p \in Proc, UnlinkLockFiles(p) PROVE RecordInv'
  BY <1>22 DEF UnlinkLockFiles, NoFile, TypeOK, LockInv, RecordInv, Holding, UseInv
<1>23. ASSUME NEW p \in Proc, Kill9(p) PROVE RecordInv'
  BY <1>23 DEF Kill9, TypeOK, RecordInv
<1>24. CASE Reboot
  BY <1>24 DEF Reboot, TypeOK, RecordInv
<1>25. CASE ForeignChange
  BY <1>25 DEF ForeignChange, TypeOK, RecordInv
<1>26. CASE UNCHANGED vars
  BY <1>26 DEF vars, TypeOK, RecordInv
<1> QED BY <1>1, <1>2, <1>3, <1>4, <1>5, <1>6, <1>7, <1>8, <1>9, <1>10, <1>11, <1>12, <1>13, <1>14, <1>15, <1>16, <1>17, <1>18, <1>19, <1>20, <1>21, <1>22, <1>23, <1>24, <1>25, <1>26 DEF Next, StartStep, StopStep

\* The invariant holds before the first start.
LEMMA ForeignInit ==
    ASSUME Init PROVE ForeignInv
<1>1. TypeOK /\ PidInv /\ LockInv /\ SegmentInv /\ UseInv
  BY InitInv DEF InterlockInv
<1>2. RecordInv
  BY DEF Init, RecordInv, Locking, Claiming, Serving
<1> QED BY <1>1, <1>2 DEF ForeignInv

\* At most one server uses the data directory also when segments of other programs
\* lie at the keys that a server would try first.
THEOREM OneServerBesideForeign ==
    ASSUME Serial, MaxReinits = 0, ~StartupFails PROVE Spec => []OneServer
<1>1. Init => ForeignInv
  BY ForeignInit
<1>2. ForeignInv /\ [Next]_vars => ForeignInv'
  <2> SUFFICES ASSUME ForeignInv, [Next]_vars PROVE ForeignInv'
    OBVIOUS
  <2>1. TypeOK /\ PidInv /\ LockInv /\ SegmentInv /\ UseInv /\ RecordInv
    BY DEF ForeignInv
  <2>2. TypeOK' /\ PidInv' /\ LockInv' /\ SegmentInv'
    BY <2>1, TypeStep, PidStep, LockStep, SegmentStep
  <2>3. RecordInv'
    BY <2>1, RecordStep
  <2>4. KidsInv
    BY <2>1 DEF UseInv, KidsInv
  <2>5. KidsInv'
    BY <2>1, <2>4, KidsStep
  <2>6. UseInv'
    BY <2>2, <2>3, <2>5
       DEF KidsInv, LockInv, RecordInv, UseInv, Holding, Alive, Locking, Claiming, Serving, Exiting
  <2> QED BY <2>2, <2>3, <2>6 DEF ForeignInv
<1>3. ForeignInv => OneServer
  BY DEF ForeignInv, LockInv, UseInv, OneServer, Uses, Holding, Alive, Serving
<1> QED BY <1>1, <1>2, <1>3, PTL DEF Spec

=============================================================================
