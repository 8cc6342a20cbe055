--------------------------- MODULE RefreshJobProofs ---------------------------
(***************************************************************************)
(* Proofs about RefreshJob, on top of those about its workers: the exit    *)
(* status of a supervisor is truthful, and a supervisor that has returned  *)
(* leaves no worker behind, for any set of jobs and any contents.          *)
(*                                                                         *)
(* The invariant of the workers says nothing about exit code 3; here it is *)
(* extended by what a job has left behind that never got the lock          *)
(* (FreshInv).  JobInv ties the status to a worker that has ended, whose   *)
(* code can no longer change.                                              *)
(***************************************************************************)
EXTENDS RefreshJob, RefreshWorkerProofs

USE DEF processVars, lockVars, databaseVars, archiveVars, workerVars

\* The steps of a worker that has let go of the lock, or never got it.
Leaving == {"releasing", "discarding", "disposing", "exited"}

\* Nothing of this run is anywhere.
RunUnseen(j) ==
    /\ tx[j] = "none"
    /\ \A i \in Jobs : bundle[i] \in Bundles => bundle[i].run # j
    /\ \A b \in accepted \cup rejected : b.run # j

FreshInv ==
    \A j \in Jobs :
        /\ worker[j] \in BeforeBundle => RunUnseen(j)
        /\ code[j] = 3 => RunUnseen(j) /\ worker[j] \in Leaving

StatusInv ==
    \A j \in Jobs :
        /\ supervisor[j] = "idle" => worker[j] = "unborn"
        /\ supervisor[j] = "returned" => ~ Alive(j)
        /\ status[j] \in {0, 3} => At(j, "exited") /\ code[j] = status[j]

JobInv == WorkerInv /\ FreshInv /\ JobTypeOK /\ StatusInv

-----------------------------------------------------------------------------
\* What one step of one worker may do to the things FreshInv is about.
StepEffect(k) ==
    /\ \A j \in Jobs \ {k} : /\ worker'[j] = worker[j] /\ code'[j] = code[j]
                             /\ tx'[j] = tx[j] /\ bundle'[j] = bundle[j]
    /\ \/ \E i \in Jobs : bundle'[k] = bundle[i]
       \/ /\ worker[k] = "fetching" /\ worker'[k] \notin BeforeBundle /\ code'[k] = code[k]
          /\ bundle'[k].run = k
    /\ \A b \in accepted' \cup rejected' :
         \/ b \in accepted \cup rejected
         \/ b = bundle[k] /\ worker[k] \in {"archiving", "rejecting"}
    /\ worker'[k] \in BeforeBundle => worker[k] \in BeforeBundle
    /\ code'[k] = 3 => code[k] = 3 \/ (worker[k] = "locking" /\ worker'[k] = "releasing")
    /\ worker[k] \in Leaving => worker'[k] \in Leaving \/ code'[k] = 1
    /\ tx[k] = "none" /\ worker[k] # "waiting" => tx'[k] = "none"

LEMMA BodyEffect ==
    ASSUME WorkerInv, NEW k \in Jobs, BodyStep(k)
    PROVE  StepEffect(k)
<1> USE DEF WorkerInv, TypeOK, At, Goto, EndBody, MayStore, BeforeBundle, Leaving, StepEffect
<1>1. CASE TryLock(k)
  BY <1>1 DEF TryLock
<1>2. CASE LockFails(k) \/ EnterBody(k)
  BY <1>2 DEF LockFails, EnterBody
<1>3. CASE Fetch(k)
  BY <1>3 DEF Fetch
<1>4. CASE FetchFails(k)
  BY <1>4 DEF FetchFails
<1>5. CASE Validate(k) \/ AssertLock(k)
  BY <1>5 DEF Validate, AssertLock
<1>6. CASE ArchiveRejected(k) \/ ArchiveFails(k)
  BY <1>6 DEF ArchiveRejected, ArchiveFails
<1>7. CASE ArchiveAccepted(k)
  BY <1>7 DEF ArchiveAccepted
<1>8. CASE TakeTxLock(k) \/ LoadNotStarted(k)
  BY <1>8 DEF TakeTxLock, LoadNotStarted
<1>9. CASE ReuseExisting(k) \/ DecideInsert(k) \/ LoaderRejects(k)
  BY <1>9 DEF ReuseExisting, DecideInsert, LoaderRejects, TxInv
<1>10. CASE InsertRows(k) \/ Committed(k)
  BY <1>10 DEF InsertRows, Committed, TxInv
<1> QED
  BY <1>1, <1>2, <1>3, <1>4, <1>5, <1>6, <1>7, <1>8, <1>9, <1>10 DEF BodyStep

LEMMA OtherEffect ==
    ASSUME WorkerInv, NEW k \in Jobs, ProcessStep(k) \/ SignalStep(k) \/ ServerStep(k)
    PROVE  StepEffect(k)
<1> USE DEF WorkerInv, TypeOK, At, Goto, EndBody, MayStore, BeforeBundle, Leaving, StepEffect
<1>1. CASE StartWorker(k) \/ ExitWorker(k)
  BY <1>1 DEF StartWorker, ExitWorker
<1>2. CASE Unlock(k)
  BY <1>2 DEF Unlock
<1>3. CASE Discard(k)
  BY <1>3 DEF Discard
<1>4. CASE CancelStarting(k)
  BY <1>4 DEF CancelStarting
<1>5. CASE CancelBody(k)
  BY <1>5 DEF CancelBody, InBody, BodyStates
<1>6. CASE CancelCleanup(k) \/ CancelDisposing(k)
  BY <1>6 DEF CancelCleanup, CancelDisposing
<1>7. CASE Die(k)
  BY <1>7 DEF Die
<1>8. CASE ServerCommits(k) \/ ReapLoadSession(k)
  BY <1>8 DEF ServerCommits, ReapLoadSession, InTx
<1>9. CASE ReapLockSession(k) \/ DropLockSession(k)
  BY <1>9 DEF ReapLockSession, DropLockSession
<1>10. CASE DropLoadSession(k)
  BY <1>10 DEF DropLoadSession, TxInv
<1> QED
  BY <1>1, <1>2, <1>3, <1>4, <1>5, <1>6, <1>7, <1>8, <1>9, <1>10
     DEF ProcessStep, SignalStep, ServerStep

LEMMA LaunchEffect ==
    ASSUME WorkerInv, NEW k \in Jobs, Launch(k)
    PROVE  StepEffect(k)
BY DEF WorkerInv, TypeOK, At, Goto, BeforeBundle, Leaving, StepEffect, Launch

LEMMA FreshStep ==
    ASSUME WorkerInv, FreshInv, NEW k \in Jobs, StepEffect(k), WorkerInv'
    PROVE  FreshInv'
<1> USE DEF WorkerInv, TypeOK, StepEffect, BeforeBundle, Leaving
<1>1. ASSUME NEW j \in Jobs, RunUnseen(j),
             j = k => worker[k] # "fetching" /\ worker[k] # "waiting"
      PROVE  RunUnseen(j)'
  <2>1. tx'[j] = "none"
    BY <1>1 DEF RunUnseen
  <2>2. ASSUME NEW i \in Jobs, bundle'[i] \in Bundles
        PROVE  bundle'[i].run # j
    BY <1>1, <2>2 DEF RunUnseen
  <2>3. ASSUME NEW b \in accepted' \cup rejected'
        PROVE  b.run # j
    <3>1. CASE b \in accepted \cup rejected
      BY <1>1, <3>1 DEF RunUnseen
    <3>2. CASE b \notin accepted \cup rejected
      BY <1>1, <2>3, <3>2 DEF RunUnseen, EvidenceInv
    <3> QED
      BY <3>1, <3>2
  <2> QED
    BY <2>1, <2>2, <2>3 DEF RunUnseen
<1>2. SUFFICES ASSUME NEW j \in Jobs
               PROVE  /\ worker'[j] \in BeforeBundle => RunUnseen(j)'
                      /\ code'[j] = 3 => RunUnseen(j)' /\ worker'[j] \in Leaving
  BY DEF FreshInv
<1>3. CASE j # k
  BY <1>1, <1>3 DEF FreshInv
<1>4. CASE j = k
  <2>1. ASSUME worker'[k] \in BeforeBundle
        PROVE  RunUnseen(k)'
    <3>1. RunUnseen(k)
      BY <2>1 DEF FreshInv
    <3>2. tx'[k] = "none"
      BY <2>1 DEF EvidenceInv
    <3> QED
      BY <2>1, <3>1, <3>2 DEF RunUnseen
  <2>2. ASSUME code'[k] = 3
        PROVE  RunUnseen(k)' /\ worker'[k] \in Leaving
    BY <1>1, <2>2 DEF FreshInv
  <2> QED
    BY <1>4, <2>1, <2>2
<1> QED
  BY <1>3, <1>4

-----------------------------------------------------------------------------
\* A worker that has not been launched, or has ended, does nothing more.
LEMMA EndedStays ==
    ASSUME WorkerInv, NEW k \in Jobs, RunningStep(k), NEW j \in Jobs, ~ Alive(j)
    PROVE  worker'[j] = worker[j] /\ code'[j] = code[j]
<1>1. CASE j # k
  BY <1>1, BodyEffect, OtherEffect DEF RunningStep, StepEffect
<1>2. CASE j = k
  <2>1. CASE BodyStep(k)
    BY <1>2, <2>1
       DEF Alive, BodyStep, At, TryLock, LockFails, EnterBody, Fetch, FetchFails, Validate,
           ArchiveRejected, ArchiveAccepted, ArchiveFails, AssertLock, TakeTxLock,
           LoadNotStarted, ReuseExisting, DecideInsert, LoaderRejects, InsertRows, Committed
  <2>2. CASE ProcessStep(k) \/ SignalStep(k)
    BY <1>2, <2>2
       DEF Alive, ProcessStep, SignalStep, At, InBody, BodyStates, StartWorker, Unlock, Discard,
           ExitWorker, CancelStarting, CancelBody, CancelCleanup, CancelDisposing, Die
  <2>3. CASE ServerStep(k)
    BY <1>2, <2>3
       DEF Alive, ServerStep, ServerCommits, ReapLockSession, ReapLoadSession, DropLockSession,
           DropLoadSession
  <2> QED
    BY <1>2, <2>1, <2>2, <2>3 DEF RunningStep
<1> QED
  BY <1>1, <1>2

LEMMA JobInitial == JobInit => JobInv
<1> SUFFICES ASSUME JobInit PROVE JobInv
  OBVIOUS
<1>1. WorkerInv
  BY InvInit DEF JobInit
<1>2. FreshInv
  BY NullAssumption DEF JobInit, Init, FreshInv, RunUnseen, BeforeBundle
<1>3. JobTypeOK
  BY <1>1 DEF JobInit, JobTypeOK, WorkerInv, SupervisorStates
<1>4. StatusInv
  BY DEF JobInit, Init, StatusInv
<1> QED
  BY <1>1, <1>2, <1>3, <1>4 DEF JobInv

\* Steps of a worker, of the server, and of a signal.
LEMMA WorkerPart ==
    ASSUME JobInv, NEW k \in Jobs, RunningStep(k), UNCHANGED supervisorVars
    PROVE  JobInv'
<1> USE DEF JobInv
<1>1. WorkerInv'
  BY InvStep DEF Next
<1>2. FreshInv'
  BY <1>1, BodyEffect, OtherEffect, FreshStep DEF RunningStep
<1>3. JobTypeOK'
  BY <1>1 DEF WorkerInv, JobTypeOK, supervisorVars
<1>4. StatusInv'
  BY EndedStays DEF StatusInv, supervisorVars, Alive, At
<1> QED
  BY <1>1, <1>2, <1>3, <1>4

LEMMA StartPart ==
    ASSUME JobInv, NEW k \in Jobs, StartProcess(k)
    PROVE  JobInv'
<1> USE DEF JobInv
<1>0. Launch(k) /\ supervisor[k] = "idle" /\ supervisor' = [supervisor EXCEPT ![k] = "watching"]
      /\ status' = status
  BY DEF StartProcess, Moves
<1>1. WorkerInv'
  BY <1>0, InvStep DEF Next
<1>2. FreshInv'
  BY <1>0, <1>1, LaunchEffect, FreshStep
<1>3. JobTypeOK'
  BY <1>0, <1>1 DEF WorkerInv, JobTypeOK, SupervisorStates
<1>4. StatusInv'
  BY <1>0 DEF Launch, Goto, StatusInv, Alive, At, WorkerInv, TypeOK, JobTypeOK
<1> QED
  BY <1>1, <1>2, <1>3, <1>4

LEMMA FreshStutter == FreshInv /\ UNCHANGED workerVars => FreshInv'
BY DEF FreshInv, RunUnseen

\* Steps that leave the workers alone.
LEMMA SupervisorPart ==
    ASSUME JobInv, NEW k \in Jobs, UNCHANGED workerVars,
           \/ SupervisorStep(k) \/ StartFails(k) \/ Interrupt(k) \/ Escape(k)
           \/ KillSupervisor(k)
    PROVE  JobInv'
<1> USE DEF JobInv
<1>1. WorkerInv' /\ FreshInv'
  BY InvStutter, FreshStutter
<1>2. \E to \in SupervisorStates \ {"idle"}, s \in ExitCodes \cup {-1, 4} :
        /\ supervisor' = [supervisor EXCEPT ![k] = to]
        /\ status' = [status EXCEPT ![k] = s]
        /\ to = "returned" => ~ Alive(k)
        /\ s \in {0, 3} => s = status[k] \/ (At(k, "exited") /\ code[k] = s)
  <2> USE DEF JobTypeOK, SupervisorStates, ExitCodes, Moves, Sets
  <2>1. CASE ObserveExit(k)
    <3> DEFINE s == IF At(k, "exited") THEN code[k] ELSE 1
    <3>1. supervisor' = [supervisor EXCEPT ![k] = "stopping"] /\ status' = [status EXCEPT ![k] = s]
      BY <2>1 DEF ObserveExit
    <3>2. s \in ExitCodes /\ (s \in {0, 3} => At(k, "exited") /\ code[k] = s)
      BY DEF WorkerInv, TypeOK
    <3> HIDE DEF s
    <3> QED
      BY <3>1, <3>2
  <2>2. CASE Deadline(k) \/ Interrupt(k) \/ Escape(k)
    BY <2>2 DEF Deadline, Interrupt, Escape
  <2>3. CASE Terminate(k)
    BY <2>3 DEF Terminate
  <2>4. CASE JoinTerminated(k)
    BY <2>4 DEF JoinTerminated
  <2>5. CASE JoinKilled(k)
    <3>1. CASE Alive(k)
      <4>1. /\ supervisor' = [supervisor EXCEPT ![k] = "raised"]
            /\ status' = [status EXCEPT ![k] = 1]
        BY <2>5, <3>1 DEF JoinKilled
      <4> WITNESS "raised" \in SupervisorStates \ {"idle"}, 1 \in ExitCodes \cup {-1, 4}
      <4> QED
        BY <4>1
    <3>2. CASE ~ Alive(k)
      <4>1. status' = [status EXCEPT ![k] = status[k]] /\ status[k] \in ExitCodes \cup {-1, 4}
        BY <2>5, <3>2 DEF JoinKilled
      <4>2. supervisor' = [supervisor EXCEPT ![k] = "returned"]
        BY <2>5, <3>2 DEF JoinKilled
      <4> QED
        BY <3>2, <4>1, <4>2
    <3> QED
      BY <3>1, <3>2
  <2>6. CASE StartFails(k)
    <3>1. /\ supervisor' = [supervisor EXCEPT ![k] = "returned"]
          /\ status' = [status EXCEPT ![k] = 1]
          /\ ~ Alive(k)
      BY <2>6 DEF StartFails, StatusInv, Alive
    <3> WITNESS "returned" \in SupervisorStates \ {"idle"}, 1 \in ExitCodes \cup {-1, 4}
    <3> QED
      BY <3>1
  <2>7. CASE KillSupervisor(k)
    <3>1. /\ supervisor' = [supervisor EXCEPT ![k] = "lost"]
          /\ status' = [status EXCEPT ![k] = -1]
      BY <2>7 DEF KillSupervisor
    <3>2. "lost" # "returned" /\ "lost" \in SupervisorStates \ {"idle"}
      OBVIOUS
    <3>3. -1 \in ExitCodes \cup {-1, 4} /\ -1 \notin {0, 3}
      OBVIOUS
    <3> WITNESS "lost" \in SupervisorStates \ {"idle"}, -1 \in ExitCodes \cup {-1, 4}
    <3> QED
      BY <3>1, <3>2, <3>3
  <2> QED
    BY <2>1, <2>2, <2>3, <2>4, <2>5, <2>6, <2>7 DEF SupervisorStep
<1>3. JobTypeOK'
  BY <1>1, <1>2 DEF WorkerInv, JobTypeOK
<1>4. StatusInv'
  BY <1>2 DEF StatusInv, JobTypeOK, Alive, At
<1> QED
  BY <1>1, <1>3, <1>4

LEMMA JobStutter == JobInv /\ UNCHANGED vars => JobInv'
BY InvStutter, FreshStutter
   DEF JobInv, vars, supervisorVars, JobTypeOK, WorkerInv, StatusInv, Alive, At

LEMMA JobStep == JobInv /\ [JobNext]_vars => JobInv'
<1> SUFFICES ASSUME JobInv, [JobNext]_vars PROVE JobInv'
  OBVIOUS
<1>1. ASSUME NEW k \in Jobs, SupervisorStep(k) PROVE JobInv'
  <2>1. UNCHANGED workerVars
    BY <1>1 DEF SupervisorStep, ObserveExit, Deadline, Terminate, JoinTerminated, JoinKilled
  <2> QED
    BY <1>1, <2>1, SupervisorPart
<1>2. ASSUME NEW k \in Jobs, SchedulerStep(k) PROVE JobInv'
  <2>1. CASE StartProcess(k)
    BY <2>1, StartPart
  <2>2. CASE StartFails(k) \/ Interrupt(k) \/ Escape(k) \/ KillSupervisor(k)
    <3>1. UNCHANGED workerVars
      BY <2>2 DEF StartFails, Interrupt, Escape, KillSupervisor
    <3> QED
      BY <2>2, <3>1, SupervisorPart
  <2> QED
    BY <1>2, <2>1, <2>2 DEF SchedulerStep
<1>3. ASSUME NEW k \in Jobs, WorkerStep(k) \/ DieKilled(k) PROVE JobInv'
  BY <1>3, WorkerPart DEF WorkerStep, DieKilled, RunningStep, SignalStep
<1>4. CASE AllEnded \/ UNCHANGED vars
  BY <1>4, JobStutter DEF AllEnded
<1> QED
  BY <1>1, <1>2, <1>3, <1>4 DEF JobNext

-----------------------------------------------------------------------------
\* The inductive invariant of supervisors and workers.
THEOREM JobInvariant == JobSpec => []JobInv
BY JobInitial, JobStep, PTL DEF JobSpec

\* The exit status a scheduler sees is true: 0 only for evidence that is archived and a
\* snapshot that is published, 3 only for a run that has left nothing anywhere.
THEOREM StatusAlwaysTruthful == JobSpec => []StatusIsTruthful
<1>1. JobInv => StatusIsTruthful
  <2> SUFFICES ASSUME JobInv, NEW j \in Jobs
               PROVE  /\ status[j] = 0 => bundle[j] \in accepted /\ Twin(j)
                      /\ status[j] = 3 => /\ tx[j] = "none"
                                          /\ \A b \in accepted \cup rejected : b.run # j
    BY DEF StatusIsTruthful
  <2>1. status[j] = 0 => bundle[j] \in accepted /\ Twin(j)
    BY DEF JobInv, StatusInv, WorkerInv, CodeInv
  <2>2. status[j] = 3 => RunUnseen(j)
    BY DEF JobInv, StatusInv, FreshInv
  <2> QED
    BY <2>1, <2>2 DEF RunUnseen
<1> QED
  BY <1>1, JobInvariant, PTL

\* A supervisor that has returned has no worker any more, whatever the worker was doing.
THEOREM ReturnReaps == JobSpec => []ReturnedMeansReaped
<1>1. JobInv => ReturnedMeansReaped
  BY DEF JobInv, StatusInv, ReturnedMeansReaped
<1> QED
  BY <1>1, JobInvariant, PTL
=============================================================================
