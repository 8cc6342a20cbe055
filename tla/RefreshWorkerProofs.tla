------------------------- MODULE RefreshWorkerProofs --------------------------
(***************************************************************************)
(* Proofs about RefreshWorker, for any set of jobs and any contents.       *)
(*                                                                         *)
(* WorkerInv is inductive.  Its parts depend on each other: a twin cannot  *)
(* appear before an insert because one transaction is open at a time       *)
(* (TxInv), the bundle of an open transaction is archived (EvidenceInv),   *)
(* and the lock outlives a step only where a worker can still give it back *)
(* (LockInv).  Each part has a lemma with one case for every action.       *)
(***************************************************************************)
EXTENDS RefreshWorker, TLAPS

USE DEF processVars, lockVars, databaseVars, archiveVars, workerVars

-----------------------------------------------------------------------------
\* Every action keeps the types; those that store a bundle need EvidenceInv.
LEMMA TypeStep ==
    ASSUME WorkerInv, NEW k \in Jobs, Launch(k) \/ RunningStep(k)
    PROVE  TypeOK'
<1> USE DEF WorkerInv, TypeOK, WorkerStates, BodyStates, ExitCodes, Goto, At,
            EndBody, MayStore, EvidenceInv, Bundles
<1>1. CASE Launch(k)
  BY <1>1 DEF Launch
<1>2. CASE TryLock(k)
  BY <1>2 DEF TryLock
<1>3. CASE LockFails(k)
  BY <1>3 DEF LockFails
<1>4. CASE EnterBody(k)
  BY <1>4 DEF EnterBody
<1>5. CASE Fetch(k)
  BY <1>5 DEF Fetch
<1>6. CASE FetchFails(k)
  BY <1>6 DEF FetchFails
<1>7. CASE Validate(k)
  BY <1>7 DEF Validate
<1>8. CASE ArchiveRejected(k)
  BY <1>8 DEF ArchiveRejected
<1>9. CASE ArchiveAccepted(k)
  BY <1>9 DEF ArchiveAccepted
<1>10. CASE ArchiveFails(k)
  BY <1>10 DEF ArchiveFails
<1>11. CASE AssertLock(k)
  BY <1>11 DEF AssertLock
<1>12. CASE TakeTxLock(k)
  BY <1>12 DEF TakeTxLock
<1>13. CASE LoadNotStarted(k)
  BY <1>13 DEF LoadNotStarted
<1>14. CASE ReuseExisting(k)
  BY <1>14 DEF ReuseExisting
<1>15. CASE DecideInsert(k)
  BY <1>15 DEF DecideInsert
<1>16. CASE LoaderRejects(k)
  BY <1>16 DEF LoaderRejects
<1>17. CASE InsertRows(k)
  BY <1>17 DEF InsertRows
<1>18. CASE Committed(k)
  BY <1>18 DEF Committed
<1>19. CASE StartWorker(k)
  BY <1>19 DEF StartWorker
<1>20. CASE Unlock(k)
  BY <1>20 DEF Unlock
<1>21. CASE Discard(k)
  BY <1>21 DEF Discard
<1>22. CASE ExitWorker(k)
  BY <1>22 DEF ExitWorker
<1>23. CASE CancelStarting(k)
  BY <1>23 DEF CancelStarting
<1>24. CASE CancelBody(k)
  BY <1>24 DEF CancelBody
<1>25. CASE CancelCleanup(k)
  BY <1>25 DEF CancelCleanup
<1>26. CASE CancelDisposing(k)
  BY <1>26 DEF CancelDisposing
<1>27. CASE Die(k)
  BY <1>27 DEF Die
<1>28. CASE ServerCommits(k)
  BY <1>28 DEF ServerCommits
<1>29. CASE ReapLockSession(k)
  BY <1>29 DEF ReapLockSession
<1>30. CASE ReapLoadSession(k)
  BY <1>30 DEF ReapLoadSession
<1>31. CASE DropLockSession(k)
  BY <1>31 DEF DropLockSession
<1>32. CASE DropLoadSession(k)
  BY <1>32 DEF DropLoadSession
<1> QED
  BY <1>1, <1>2, <1>3, <1>4, <1>5, <1>6, <1>7, <1>8, <1>9, <1>10, <1>11,
     <1>12, <1>13, <1>14, <1>15, <1>16, <1>17, <1>18, <1>19, <1>20, <1>21,
     <1>22, <1>23, <1>24, <1>25, <1>26, <1>27, <1>28, <1>29, <1>30, <1>31,
     <1>32
     DEF RunningStep, BodyStep, ProcessStep, SignalStep, ServerStep

\* The lock stays with its owner until the worker gives it back, the server drops
\* the session, or the worker is dead.
LEMMA LockStep ==
    ASSUME WorkerInv, NEW k \in Jobs, Launch(k) \/ RunningStep(k)
    PROVE  LockInv'
<1> USE DEF WorkerInv, TypeOK, WorkerStates, BodyStates, ExitCodes, Goto, At,
            EndBody, MayStore, LockInv, InBody, Dead, Alive
<1>1. CASE Launch(k)
  BY <1>1, NullAssumption DEF Launch
<1>2. CASE TryLock(k)
  BY <1>2, NullAssumption DEF TryLock
<1>3. CASE LockFails(k)
  BY <1>3, NullAssumption DEF LockFails
<1>4. CASE EnterBody(k)
  BY <1>4, NullAssumption DEF EnterBody
<1>5. CASE Fetch(k)
  BY <1>5, NullAssumption DEF Fetch
<1>6. CASE FetchFails(k)
  BY <1>6, NullAssumption DEF FetchFails
<1>7. CASE Validate(k)
  BY <1>7, NullAssumption DEF Validate
<1>8. CASE ArchiveRejected(k)
  BY <1>8, NullAssumption DEF ArchiveRejected
<1>9. CASE ArchiveAccepted(k)
  BY <1>9, NullAssumption DEF ArchiveAccepted
<1>10. CASE ArchiveFails(k)
  BY <1>10, NullAssumption DEF ArchiveFails
<1>11. CASE AssertLock(k)
  BY <1>11, NullAssumption DEF AssertLock
<1>12. CASE TakeTxLock(k)
  BY <1>12, NullAssumption DEF TakeTxLock
<1>13. CASE LoadNotStarted(k)
  BY <1>13, NullAssumption DEF LoadNotStarted
<1>14. CASE ReuseExisting(k)
  BY <1>14, NullAssumption DEF ReuseExisting
<1>15. CASE DecideInsert(k)
  BY <1>15, NullAssumption DEF DecideInsert
<1>16. CASE LoaderRejects(k)
  BY <1>16, NullAssumption DEF LoaderRejects
<1>17. CASE InsertRows(k)
  BY <1>17, NullAssumption DEF InsertRows
<1>18. CASE Committed(k)
  BY <1>18, NullAssumption DEF Committed
<1>19. CASE StartWorker(k)
  BY <1>19, NullAssumption DEF StartWorker
<1>20. CASE Unlock(k)
  BY <1>20, NullAssumption DEF Unlock
<1>21. CASE Discard(k)
  BY <1>21, NullAssumption DEF Discard
<1>22. CASE ExitWorker(k)
  BY <1>22, NullAssumption DEF ExitWorker
<1>23. CASE CancelStarting(k)
  BY <1>23, NullAssumption DEF CancelStarting
<1>24. CASE CancelBody(k)
  BY <1>24, NullAssumption DEF CancelBody
<1>25. CASE CancelCleanup(k)
  BY <1>25, NullAssumption DEF CancelCleanup
<1>26. CASE CancelDisposing(k)
  BY <1>26, NullAssumption DEF CancelDisposing
<1>27. CASE Die(k)
  BY <1>27, NullAssumption DEF Die
<1>28. CASE ServerCommits(k)
  BY <1>28, NullAssumption DEF ServerCommits
<1>29. CASE ReapLockSession(k)
  BY <1>29, NullAssumption DEF ReapLockSession
<1>30. CASE ReapLoadSession(k)
  BY <1>30, NullAssumption DEF ReapLoadSession
<1>31. CASE DropLockSession(k)
  BY <1>31, NullAssumption DEF DropLockSession
<1>32. CASE DropLoadSession(k)
  BY <1>32, NullAssumption DEF DropLoadSession
<1> QED
  BY <1>1, <1>2, <1>3, <1>4, <1>5, <1>6, <1>7, <1>8, <1>9, <1>10, <1>11,
     <1>12, <1>13, <1>14, <1>15, <1>16, <1>17, <1>18, <1>19, <1>20, <1>21,
     <1>22, <1>23, <1>24, <1>25, <1>26, <1>27, <1>28, <1>29, <1>30, <1>31,
     <1>32
     DEF RunningStep, BodyStep, ProcessStep, SignalStep, ServerStep

\* At most one loader is in its transaction, and none sees a twin appear there.
LEMMA TxStep ==
    ASSUME WorkerInv, NEW k \in Jobs, Launch(k) \/ RunningStep(k)
    PROVE  TxInv'
<1> USE DEF WorkerInv, TypeOK, WorkerStates, BodyStates, ExitCodes, Goto, At,
            EndBody, MayStore, TxInv, EvidenceInv, BeforeBundle, InTx, Twin,
            TxLockFree, InBody
<1>1. CASE Launch(k)
  BY <1>1 DEF Launch
<1>2. CASE TryLock(k)
  BY <1>2 DEF TryLock
<1>3. CASE LockFails(k)
  BY <1>3 DEF LockFails
<1>4. CASE EnterBody(k)
  BY <1>4 DEF EnterBody
<1>5. CASE Fetch(k)
  BY <1>5 DEF Fetch
<1>6. CASE FetchFails(k)
  BY <1>6 DEF FetchFails
<1>7. CASE Validate(k)
  BY <1>7 DEF Validate
<1>8. CASE ArchiveRejected(k)
  BY <1>8 DEF ArchiveRejected
<1>9. CASE ArchiveAccepted(k)
  BY <1>9 DEF ArchiveAccepted
<1>10. CASE ArchiveFails(k)
  BY <1>10 DEF ArchiveFails
<1>11. CASE AssertLock(k)
  BY <1>11 DEF AssertLock
<1>12. CASE TakeTxLock(k)
  BY <1>12 DEF TakeTxLock
<1>13. CASE LoadNotStarted(k)
  BY <1>13 DEF LoadNotStarted
<1>14. CASE ReuseExisting(k)
  BY <1>14 DEF ReuseExisting
<1>15. CASE DecideInsert(k)
  BY <1>15 DEF DecideInsert
<1>16. CASE LoaderRejects(k)
  BY <1>16 DEF LoaderRejects
<1>17. CASE InsertRows(k)
  BY <1>17 DEF InsertRows
<1>18. CASE Committed(k)
  BY <1>18 DEF Committed
<1>19. CASE StartWorker(k)
  BY <1>19 DEF StartWorker
<1>20. CASE Unlock(k)
  BY <1>20 DEF Unlock
<1>21. CASE Discard(k)
  BY <1>21 DEF Discard
<1>22. CASE ExitWorker(k)
  BY <1>22 DEF ExitWorker
<1>23. CASE CancelStarting(k)
  BY <1>23 DEF CancelStarting
<1>24. CASE CancelBody(k)
  BY <1>24 DEF CancelBody
<1>25. CASE CancelCleanup(k)
  BY <1>25 DEF CancelCleanup
<1>26. CASE CancelDisposing(k)
  BY <1>26 DEF CancelDisposing
<1>27. CASE Die(k)
  BY <1>27 DEF Die
<1>28. CASE ServerCommits(k)
  BY <1>28 DEF ServerCommits
<1>29. CASE ReapLockSession(k)
  BY <1>29 DEF ReapLockSession
<1>30. CASE ReapLoadSession(k)
  BY <1>30 DEF ReapLoadSession
<1>31. CASE DropLockSession(k)
  BY <1>31 DEF DropLockSession
<1>32. CASE DropLoadSession(k)
  BY <1>32 DEF DropLoadSession
<1> QED
  BY <1>1, <1>2, <1>3, <1>4, <1>5, <1>6, <1>7, <1>8, <1>9, <1>10, <1>11,
     <1>12, <1>13, <1>14, <1>15, <1>16, <1>17, <1>18, <1>19, <1>20, <1>21,
     <1>22, <1>23, <1>24, <1>25, <1>26, <1>27, <1>28, <1>29, <1>30, <1>31,
     <1>32
     DEF RunningStep, BodyStep, ProcessStep, SignalStep, ServerStep

\* What a bundle has been through before the step its worker has reached.
LEMMA EvidenceStep ==
    ASSUME WorkerInv, NEW k \in Jobs, Launch(k) \/ RunningStep(k)
    PROVE  EvidenceInv'
<1> USE DEF WorkerInv, TypeOK, WorkerStates, BodyStates, ExitCodes, Goto, At,
            EndBody, MayStore, EvidenceInv, TxInv, BeforeBundle, Archived,
            Bundles, InBody, Dead, Alive, InTx
<1>1. CASE Launch(k)
  BY <1>1 DEF Launch
<1>2. CASE TryLock(k)
  BY <1>2 DEF TryLock
<1>3. CASE LockFails(k)
  BY <1>3 DEF LockFails
<1>4. CASE EnterBody(k)
  BY <1>4 DEF EnterBody
<1>5. CASE Fetch(k)
  BY <1>5 DEF Fetch
<1>6. CASE FetchFails(k)
  BY <1>6 DEF FetchFails
<1>7. CASE Validate(k)
  BY <1>7 DEF Validate
<1>8. CASE ArchiveRejected(k)
  BY <1>8 DEF ArchiveRejected
<1>9. CASE ArchiveAccepted(k)
  BY <1>9 DEF ArchiveAccepted
<1>10. CASE ArchiveFails(k)
  BY <1>10 DEF ArchiveFails
<1>11. CASE AssertLock(k)
  BY <1>11 DEF AssertLock
<1>12. CASE TakeTxLock(k)
  BY <1>12 DEF TakeTxLock
<1>13. CASE LoadNotStarted(k)
  BY <1>13 DEF LoadNotStarted
<1>14. CASE ReuseExisting(k)
  BY <1>14 DEF ReuseExisting
<1>15. CASE DecideInsert(k)
  BY <1>15 DEF DecideInsert
<1>16. CASE LoaderRejects(k)
  BY <1>16 DEF LoaderRejects
<1>17. CASE InsertRows(k)
  BY <1>17 DEF InsertRows
<1>18. CASE Committed(k)
  BY <1>18 DEF Committed
<1>19. CASE StartWorker(k)
  BY <1>19 DEF StartWorker
<1>20. CASE Unlock(k)
  BY <1>20 DEF Unlock
<1>21. CASE Discard(k)
  BY <1>21 DEF Discard
<1>22. CASE ExitWorker(k)
  BY <1>22 DEF ExitWorker
<1>23. CASE CancelStarting(k)
  BY <1>23 DEF CancelStarting
<1>24. CASE CancelBody(k)
  BY <1>24 DEF CancelBody
<1>25. CASE CancelCleanup(k)
  BY <1>25 DEF CancelCleanup
<1>26. CASE CancelDisposing(k)
  BY <1>26 DEF CancelDisposing
<1>27. CASE Die(k)
  BY <1>27 DEF Die
<1>28. CASE ServerCommits(k)
  BY <1>28 DEF ServerCommits
<1>29. CASE ReapLockSession(k)
  BY <1>29 DEF ReapLockSession
<1>30. CASE ReapLoadSession(k)
  BY <1>30 DEF ReapLoadSession
<1>31. CASE DropLockSession(k)
  BY <1>31 DEF DropLockSession
<1>32. CASE DropLoadSession(k)
  BY <1>32 DEF DropLoadSession
<1> QED
  BY <1>1, <1>2, <1>3, <1>4, <1>5, <1>6, <1>7, <1>8, <1>9, <1>10, <1>11,
     <1>12, <1>13, <1>14, <1>15, <1>16, <1>17, <1>18, <1>19, <1>20, <1>21,
     <1>22, <1>23, <1>24, <1>25, <1>26, <1>27, <1>28, <1>29, <1>30, <1>31,
     <1>32
     DEF RunningStep, BodyStep, ProcessStep, SignalStep, ServerStep

\* A body that has succeeded has its bundle archived and its content published.
LEMMA CodeStep ==
    ASSUME WorkerInv, NEW k \in Jobs, Launch(k) \/ RunningStep(k)
    PROVE  CodeInv'
<1> USE DEF WorkerInv, TypeOK, WorkerStates, BodyStates, ExitCodes, Goto, At,
            EndBody, MayStore, CodeInv, TxInv, EvidenceInv, BeforeBundle,
            Archived, Twin, InTx, InBody
<1>1. CASE Launch(k)
  BY <1>1 DEF Launch
<1>2. CASE TryLock(k)
  BY <1>2 DEF TryLock
<1>3. CASE LockFails(k)
  BY <1>3 DEF LockFails
<1>4. CASE EnterBody(k)
  BY <1>4 DEF EnterBody
<1>5. CASE Fetch(k)
  BY <1>5 DEF Fetch
<1>6. CASE FetchFails(k)
  BY <1>6 DEF FetchFails
<1>7. CASE Validate(k)
  BY <1>7 DEF Validate
<1>8. CASE ArchiveRejected(k)
  BY <1>8 DEF ArchiveRejected
<1>9. CASE ArchiveAccepted(k)
  BY <1>9 DEF ArchiveAccepted
<1>10. CASE ArchiveFails(k)
  BY <1>10 DEF ArchiveFails
<1>11. CASE AssertLock(k)
  BY <1>11 DEF AssertLock
<1>12. CASE TakeTxLock(k)
  BY <1>12 DEF TakeTxLock
<1>13. CASE LoadNotStarted(k)
  BY <1>13 DEF LoadNotStarted
<1>14. CASE ReuseExisting(k)
  BY <1>14 DEF ReuseExisting
<1>15. CASE DecideInsert(k)
  BY <1>15 DEF DecideInsert
<1>16. CASE LoaderRejects(k)
  BY <1>16 DEF LoaderRejects
<1>17. CASE InsertRows(k)
  BY <1>17 DEF InsertRows
<1>18. CASE Committed(k)
  BY <1>18 DEF Committed
<1>19. CASE StartWorker(k)
  BY <1>19 DEF StartWorker
<1>20. CASE Unlock(k)
  BY <1>20 DEF Unlock
<1>21. CASE Discard(k)
  BY <1>21 DEF Discard
<1>22. CASE ExitWorker(k)
  BY <1>22 DEF ExitWorker
<1>23. CASE CancelStarting(k)
  BY <1>23 DEF CancelStarting
<1>24. CASE CancelBody(k)
  BY <1>24 DEF CancelBody
<1>25. CASE CancelCleanup(k)
  BY <1>25 DEF CancelCleanup
<1>26. CASE CancelDisposing(k)
  BY <1>26 DEF CancelDisposing
<1>27. CASE Die(k)
  BY <1>27 DEF Die
<1>28. CASE ServerCommits(k)
  BY <1>28 DEF ServerCommits
<1>29. CASE ReapLockSession(k)
  BY <1>29 DEF ReapLockSession
<1>30. CASE ReapLoadSession(k)
  BY <1>30 DEF ReapLoadSession
<1>31. CASE DropLockSession(k)
  BY <1>31 DEF DropLockSession
<1>32. CASE DropLoadSession(k)
  BY <1>32 DEF DropLoadSession
<1> QED
  BY <1>1, <1>2, <1>3, <1>4, <1>5, <1>6, <1>7, <1>8, <1>9, <1>10, <1>11,
     <1>12, <1>13, <1>14, <1>15, <1>16, <1>17, <1>18, <1>19, <1>20, <1>21,
     <1>22, <1>23, <1>24, <1>25, <1>26, <1>27, <1>28, <1>29, <1>30, <1>31,
     <1>32
     DEF RunningStep, BodyStep, ProcessStep, SignalStep, ServerStep

-----------------------------------------------------------------------------
LEMMA InvInit == Init => WorkerInv
BY NullAssumption
   DEF Init, WorkerInv, TypeOK, WorkerStates, BodyStates, ExitCodes, LockInv, InBody,
       TxInv, InTx, Twin, EvidenceInv, BeforeBundle, Archived, CodeInv

LEMMA InvStutter == WorkerInv /\ UNCHANGED workerVars => WorkerInv'
BY DEF WorkerInv, TypeOK, LockInv, InBody, TxInv, InTx, Twin, EvidenceInv, CodeInv

LEMMA InvStep == WorkerInv /\ [Next]_workerVars => WorkerInv'
<1> SUFFICES ASSUME WorkerInv, [Next]_workerVars
             PROVE  WorkerInv'
  OBVIOUS
<1>1. ASSUME NEW k \in Jobs, Launch(k) \/ RunningStep(k)
      PROVE  WorkerInv'
  BY <1>1, TypeStep, LockStep, TxStep, EvidenceStep, CodeStep DEF WorkerInv
<1>2. CASE Settled \/ UNCHANGED workerVars
  BY <1>2, InvStutter DEF Settled
<1> QED
  BY <1>1, <1>2 DEF Next

\* The inductive invariant holds in every reachable state.
THEOREM WorkerInvariant == Spec => []WorkerInv
BY InvInit, InvStep, PTL DEF Spec

\* Type correctness.
THEOREM TypeCorrect == Spec => []TypeOK
<1>1. WorkerInv => TypeOK
  BY DEF WorkerInv
<1> QED
  BY <1>1, WorkerInvariant, PTL

\* Evidence is durable before publication, for any number of jobs.
THEOREM EvidenceFirst == Spec => []EvidenceBeforePublication
<1>1. WorkerInv => EvidenceBeforePublication
  BY DEF WorkerInv, EvidenceInv, EvidenceBeforePublication
<1> QED
  BY <1>1, WorkerInvariant, PTL

\* Rejected evidence is never accepted and never loaded.
THEOREM RejectedOut == Spec => []RejectedStaysOut
<1>1. WorkerInv => RejectedStaysOut
  BY DEF WorkerInv, EvidenceInv, RejectedStaysOut
<1> QED
  BY <1>1, WorkerInvariant, PTL

\* Two jobs are inside the source lock together only after a dropped session.
THEOREM Exclusion == Spec => []BodyExclusion
<1>1. WorkerInv => BodyExclusion
  BY DEF WorkerInv, LockInv, BodyExclusion
<1> QED
  BY <1>1, WorkerInvariant, PTL

\* A worker that has exited holds no lock, wherever signals have hit it.
THEOREM ExitFreesLock == Spec => []LockFreedOnExit
<1>1. WorkerInv => LockFreedOnExit
  BY DEF WorkerInv, LockInv, LockFreedOnExit, InBody, BodyStates, At
<1> QED
  BY <1>1, WorkerInvariant, PTL

\* The look-up of the loader is still true when its rows are inserted.
THEOREM NoTwin == Spec => []InsertFindsNoTwin
<1>1. WorkerInv => InsertFindsNoTwin
  BY DEF WorkerInv, TxInv, InsertFindsNoTwin, At
<1> QED
  BY <1>1, WorkerInvariant, PTL

\* Exit code 0 means archived and published.
THEOREM Success == Spec => []SuccessIsPublished
<1>1. WorkerInv => SuccessIsPublished
  BY DEF WorkerInv, CodeInv, SuccessIsPublished
<1> QED
  BY <1>1, WorkerInvariant, PTL

-----------------------------------------------------------------------------
(* The workers implement SnapshotStore. *)

USE DEF Store!storeVars

LEMMA StoreInit == Init => Store!Init
BY DEF Init, Store!Init, Reported, At

\* Only the exit of a worker changes what is reported.
LEMMA ReportedFrame ==
    ASSUME \A i \in Jobs :
             /\ (At(i, "exited") /\ code[i] = 0)' <=> At(i, "exited") /\ code[i] = 0
             /\ At(i, "exited") => bundle'[i] = bundle[i]
    PROVE  Reported' = Reported
BY DEF Reported, At

\* Every step of a job is a step of the store or leaves it alone.
LEMMA StoreStep ==
    ASSUME WorkerInv, NEW k \in Jobs, Launch(k) \/ RunningStep(k)
    PROVE  Store!Next \/ (UNCHANGED <<accepted, snapshots, Reported>>)
<1> USE DEF WorkerInv, TypeOK, EvidenceInv, Archived, Goto, At, EndBody, MayStore
<1>1. CASE Launch(k)
  BY <1>1, ReportedFrame DEF Launch
<1>2. CASE TryLock(k)
  BY <1>2, ReportedFrame DEF TryLock
<1>3. CASE LockFails(k)
  BY <1>3, ReportedFrame DEF LockFails
<1>4. CASE EnterBody(k)
  BY <1>4, ReportedFrame DEF EnterBody
<1>5. CASE Fetch(k)
  BY <1>5, ReportedFrame DEF Fetch
<1>6. CASE FetchFails(k)
  BY <1>6, ReportedFrame DEF FetchFails
<1>7. CASE Validate(k)
  BY <1>7, ReportedFrame DEF Validate
<1>8. CASE ArchiveRejected(k)
  BY <1>8, ReportedFrame DEF ArchiveRejected
<1>9. CASE ArchiveAccepted(k)
  <2>1. Reported' = Reported
    BY <1>9, ReportedFrame DEF ArchiveAccepted
  <2>2. bundle[k] \in Bundles /\ Store!Archive(bundle[k])
    BY <1>9, <2>1 DEF ArchiveAccepted, Store!Archive
  <2> QED
    BY <2>2 DEF Store!Next
<1>10. CASE ArchiveFails(k)
  <2>1. Reported' = Reported
    BY <1>10, ReportedFrame DEF ArchiveFails
  <2>2. CASE accepted' = accepted
    BY <1>10, <2>1, <2>2 DEF ArchiveFails
  <2>3. CASE accepted' = accepted \cup {bundle[k]}
    <3>1. bundle[k] \in Bundles /\ Store!Archive(bundle[k])
      BY <1>10, <2>1, <2>3 DEF ArchiveFails, Store!Archive
    <3> QED
      BY <3>1 DEF Store!Next
  <2> QED
    BY <1>10, <2>2, <2>3 DEF ArchiveFails
<1>11. CASE AssertLock(k)
  BY <1>11, ReportedFrame DEF AssertLock
<1>12. CASE TakeTxLock(k)
  BY <1>12, ReportedFrame DEF TakeTxLock
<1>13. CASE LoadNotStarted(k)
  BY <1>13, ReportedFrame DEF LoadNotStarted
<1>14. CASE ReuseExisting(k)
  BY <1>14, ReportedFrame DEF ReuseExisting
<1>15. CASE DecideInsert(k)
  BY <1>15, ReportedFrame DEF DecideInsert
<1>16. CASE LoaderRejects(k)
  BY <1>16, ReportedFrame DEF LoaderRejects
<1>17. CASE InsertRows(k)
  BY <1>17, ReportedFrame DEF InsertRows
<1>18. CASE Committed(k)
  BY <1>18, ReportedFrame DEF Committed
<1>19. CASE StartWorker(k)
  BY <1>19, ReportedFrame DEF StartWorker
<1>20. CASE Unlock(k)
  BY <1>20, ReportedFrame DEF Unlock
<1>21. CASE Discard(k)
  BY <1>21, ReportedFrame DEF Discard
<1>22. CASE ExitWorker(k)
  <2>1. CASE ~ (code[k] = 0)
    <3>1. Reported' = Reported
      BY <1>22, <2>1, ReportedFrame DEF ExitWorker
    <3> QED
      BY <1>22, <3>1 DEF ExitWorker
  <2>2. CASE code[k] = 0
    <3>1. bundle[k] \in accepted /\ Store!IsPublished(bundle[k])
      BY <2>2 DEF CodeInv, Twin, Store!IsPublished
    <3>2. Reported' = Reported \cup {bundle[k]}
      BY <1>22, <2>2 DEF ExitWorker, Reported
    <3>3. bundle[k] \in Bundles /\ Store!Report(bundle[k])
      BY <1>22, <3>1, <3>2 DEF ExitWorker, Store!Report
    <3> QED
      BY <3>3 DEF Store!Next
  <2> QED
    BY <2>1, <2>2
<1>23. CASE CancelStarting(k)
  BY <1>23, ReportedFrame DEF CancelStarting
<1>24. CASE CancelBody(k)
  <2>1. Reported' = Reported
    BY <1>24, ReportedFrame DEF CancelBody, InBody, BodyStates
  <2>2. CASE accepted' = accepted
    BY <1>24, <2>1, <2>2 DEF CancelBody
  <2>3. CASE At(k, "archiving") /\ accepted' = accepted \cup {bundle[k]}
    <3>1. bundle[k] \in Bundles /\ Store!Archive(bundle[k])
      BY <1>24, <2>1, <2>3 DEF CancelBody, Store!Archive
    <3> QED
      BY <3>1 DEF Store!Next
  <2> QED
    BY <1>24, <2>2, <2>3 DEF CancelBody
<1>25. CASE CancelCleanup(k)
  BY <1>25, ReportedFrame DEF CancelCleanup
<1>26. CASE CancelDisposing(k)
  BY <1>26, ReportedFrame DEF CancelDisposing
<1>27. CASE Die(k)
  <2>1. Reported' = Reported
    BY <1>27, ReportedFrame DEF Die, Alive
  <2>2. CASE accepted' = accepted
    BY <1>27, <2>1, <2>2 DEF Die
  <2>3. CASE At(k, "archiving") /\ accepted' = accepted \cup {bundle[k]}
    <3>1. bundle[k] \in Bundles /\ Store!Archive(bundle[k])
      BY <1>27, <2>1, <2>3 DEF Die, Store!Archive
    <3> QED
      BY <3>1 DEF Store!Next
  <2> QED
    BY <1>27, <2>2, <2>3 DEF Die
<1>28. CASE ServerCommits(k)
  <2>1. Reported' = Reported
    BY <1>28, ReportedFrame DEF ServerCommits
  <2>2. bundle[k] \in accepted /\ ~ Store!IsPublished(bundle[k])
    BY <1>28 DEF ServerCommits, TxInv, Twin, Store!IsPublished
  <2>3. bundle[k] \in Bundles /\ Store!Publish(bundle[k])
    BY <1>28, <2>1, <2>2 DEF ServerCommits, Store!Publish
  <2> QED
    BY <2>3 DEF Store!Next
<1>29. CASE ReapLockSession(k)
  BY <1>29, ReportedFrame DEF ReapLockSession
<1>30. CASE ReapLoadSession(k)
  BY <1>30, ReportedFrame DEF ReapLoadSession
<1>31. CASE DropLockSession(k)
  BY <1>31, ReportedFrame DEF DropLockSession
<1>32. CASE DropLoadSession(k)
  BY <1>32, ReportedFrame DEF DropLoadSession
<1> QED
  BY <1>1, <1>2, <1>3, <1>4, <1>5, <1>6, <1>7, <1>8, <1>9, <1>10, <1>11,
     <1>12, <1>13, <1>14, <1>15, <1>16, <1>17, <1>18, <1>19, <1>20, <1>21,
     <1>22, <1>23, <1>24, <1>25, <1>26, <1>27, <1>28, <1>29, <1>30, <1>31,
     <1>32
     DEF RunningStep, BodyStep, ProcessStep, SignalStep, ServerStep

LEMMA StoreStutter ==
    UNCHANGED workerVars => UNCHANGED <<accepted, snapshots, Reported>>
BY DEF Reported, At

\* The jobs of a source implement the store of immutable snapshots.
THEOREM WorkersImplementStore == Spec => ImplementsStore
<1>1. WorkerInv /\ [Next]_workerVars => [Store!Next]_<<accepted, snapshots, Reported>>
  BY StoreStep, StoreStutter DEF Next, Settled
<1> QED
  BY <1>1, StoreInit, WorkerInvariant, PTL DEF Spec, ImplementsStore, Store!Spec
=============================================================================
