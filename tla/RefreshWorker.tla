---------------------------- MODULE RefreshWorker -----------------------------
(***************************************************************************)
(* The worker processes that refresh one data source                       *)
(* (operations/refresh.py: source_lock, assert_lock, refresh, _worker).    *)
(* A worker takes the source's PostgreSQL session lock, fetches and        *)
(* validates a bundle of evidence, archives it, checks that it still owns  *)
(* the lock and runs the loader's transaction on a second connection.      *)
(* Signals, SIGKILL and broken connections reach it at any step.           *)
(*                                                                         *)
(* A bundle stands for an evidence directory: the run that fetched it and  *)
(* the content it normalises to.  What only computes is one step; every    *)
(* step of another actor can come between two steps.                       *)
(***************************************************************************)
EXTENDS Integers, FiniteSets

CONSTANTS
    Jobs,       \* refresh jobs, each launched at most once
    Contents,   \* what the publisher may serve
    Valid,      \* the contents that read_snapshot accepts
    NoJob,      \* nobody holds the session lock
    NoBundle    \* a job without evidence (yet)

Bundles == [run : Jobs, content : Contents]

ASSUME ValidAssumption == Valid \subseteq Contents

ASSUME NullAssumption == NoJob \notin Jobs /\ NoBundle \notin Bundles

VARIABLES
    worker,      \* where the worker process of each job is
    code,        \* the exit code the worker would end with
    acquired,    \* the worker's local variable of source_lock
    bundle,      \* the evidence directory the worker uses
    lockHolder,  \* the job whose session holds the source's advisory lock
    dropped,     \* jobs whose lock session the server no longer has
    tx,          \* the loader transaction of each job, as the server sees it
    snapshots,   \* committed snapshot rows, by the bundle they came from
    accepted,    \* bundles archived under the accepted disposition
    rejected     \* bundles archived under the rejected disposition

processVars  == <<worker, code, acquired, bundle>>
lockVars     == <<lockHolder, dropped>>
databaseVars == <<tx, snapshots>>
archiveVars  == <<accepted, rejected>>
workerVars   == <<processVars, lockVars, databaseVars, archiveVars>>

\* The with-block of source_lock, from the granted lock to the end of the body.
BodyStates ==
    {"granted", "fetching", "validating", "rejecting", "archiving", "asserting",
     "waiting", "deciding", "inserting", "committing"}

WorkerStates ==
    BodyStates \cup {"unborn", "starting", "locking", "releasing", "discarding",
                     "disposing", "exited", "killed"}

ExitCodes == {0, 1, 3, 5}

TypeOK ==
    /\ worker \in [Jobs -> WorkerStates]
    /\ code \in [Jobs -> ExitCodes]
    /\ acquired \in [Jobs -> BOOLEAN]
    /\ bundle \in [Jobs -> Bundles \cup {NoBundle}]
    /\ lockHolder \in Jobs \cup {NoJob}
    /\ dropped \subseteq Jobs
    /\ tx \in [Jobs -> {"none", "open", "sent", "committed", "ended"}]
    /\ snapshots \subseteq Bundles
    /\ accepted \subseteq Bundles
    /\ rejected \subseteq Bundles

Init ==
    /\ worker = [j \in Jobs |-> "unborn"]
    /\ code = [j \in Jobs |-> 1]
    /\ acquired = [j \in Jobs |-> FALSE]
    /\ bundle = [j \in Jobs |-> NoBundle]
    /\ lockHolder = NoJob
    /\ dropped = {}
    /\ tx = [j \in Jobs |-> "none"]
    /\ snapshots = {}
    /\ accepted = {}
    /\ rejected = {}

-----------------------------------------------------------------------------
(* The worker. *)

Dead(j)   == worker[j] \in {"exited", "killed"}
Alive(j)  == worker[j] \notin {"unborn", "exited", "killed"}
InBody(j) == worker[j] \in BodyStates

At(j, pc)   == worker[j] = pc
Goto(j, pc) == worker' = [worker EXCEPT ![j] = pc]

\* The body of source_lock ends, by returning (0) or by raising.
EndBody(j, c) ==
    /\ Goto(j, "releasing")
    /\ code' = [code EXCEPT ![j] = c]

\* A worker is spawned for an online request, or for the evidence directory of
\* another run, complete or not.
Launch(j) ==
    /\ At(j, "unborn")
    /\ Goto(j, "starting")
    /\ \E b \in {bundle[i] : i \in Jobs} : bundle' = [bundle EXCEPT ![j] = b]
    /\ UNCHANGED <<code, acquired, lockVars, databaseVars, archiveVars>>

\* Settings, evidence store and engine are made, or one of them fails.
StartWorker(j) ==
    /\ At(j, "starting")
    /\ \/ Goto(j, "locking")
       \/ Goto(j, "disposing")
    /\ UNCHANGED <<code, acquired, bundle, lockVars, databaseVars, archiveVars>>

\* Fault: the answer of pg_try_advisory_lock is not looked at.
TryLockUnchecked(j) ==
    /\ At(j, "locking")
    /\ lockHolder' = j
    /\ Goto(j, "granted")
    /\ UNCHANGED <<dropped, code, acquired, bundle, databaseVars, archiveVars>>

\* pg_try_advisory_lock answers at once; the server may grant it before the
\* worker has stored the answer.
TryLock(j) ==
    /\ At(j, "locking")
    /\ IF lockHolder = NoJob
         THEN /\ lockHolder' = j
              /\ Goto(j, "granted")
              /\ UNCHANGED code
         ELSE /\ EndBody(j, 3)
              /\ UNCHANGED lockHolder
    /\ UNCHANGED <<dropped, acquired, bundle, databaseVars, archiveVars>>

\* The database does not answer.
LockFails(j) ==
    /\ At(j, "locking")
    /\ EndBody(j, 1)
    /\ UNCHANGED <<lockVars, acquired, bundle, databaseVars, archiveVars>>

EnterBody(j) ==
    /\ At(j, "granted")
    /\ acquired' = [acquired EXCEPT ![j] = TRUE]
    /\ Goto(j, IF bundle[j] = NoBundle THEN "fetching" ELSE "validating")
    /\ UNCHANGED <<code, bundle, lockVars, databaseVars, archiveVars>>

Fetch(j) ==
    /\ At(j, "fetching")
    /\ \E c \in Contents : bundle' = [bundle EXCEPT ![j] = [run |-> j, content |-> c]]
    /\ Goto(j, "validating")
    /\ UNCHANGED <<code, acquired, lockVars, databaseVars, archiveVars>>

\* The client raises, and has left either no file or an unusable bundle.
FetchFails(j) ==
    /\ At(j, "fetching")
    /\ \/ /\ EndBody(j, 1)
          /\ UNCHANGED bundle
       \/ /\ \E c \in Contents \ Valid :
               bundle' = [bundle EXCEPT ![j] = [run |-> j, content |-> c]]
          /\ Goto(j, "rejecting")
          /\ UNCHANGED code
    /\ UNCHANGED <<acquired, lockVars, databaseVars, archiveVars>>

Validate(j) ==
    /\ At(j, "validating")
    /\ Goto(j, IF bundle[j].content \in Valid THEN "archiving" ELSE "rejecting")
    /\ UNCHANGED <<code, acquired, bundle, lockVars, databaseVars, archiveVars>>

\* persist is under way: when it fails or is interrupted, the archive may or may
\* not have the bundle.
MayStore(j) ==
    /\ accepted' \in {accepted} \cup
         (IF At(j, "archiving") THEN {accepted \cup {bundle[j]}} ELSE {})
    /\ rejected' \in {rejected} \cup
         (IF At(j, "rejecting") THEN {rejected \cup {bundle[j]}} ELSE {})

\* Fault: the validation error is not raised again.
ArchiveRejectedSwallows(j) ==
    /\ At(j, "rejecting")
    /\ rejected' = rejected \cup {bundle[j]}
    /\ Goto(j, "asserting")
    /\ UNCHANGED <<code, acquired, bundle, lockVars, databaseVars, accepted>>

\* The rejected bundle is archived, if that succeeds, and the error raised again.
ArchiveRejected(j) ==
    /\ At(j, "rejecting")
    /\ MayStore(j)
    /\ EndBody(j, 1)
    /\ UNCHANGED <<acquired, bundle, lockVars, databaseVars>>

ArchiveAccepted(j) ==
    /\ At(j, "archiving")
    /\ accepted' = accepted \cup {bundle[j]}
    /\ Goto(j, "asserting")
    /\ UNCHANGED <<code, acquired, bundle, lockVars, databaseVars, rejected>>

\* Fault: a failing archive is logged and the refresh goes on.
ArchiveFailsIgnored(j) ==
    /\ At(j, "archiving")
    /\ Goto(j, "asserting")
    /\ UNCHANGED <<code, acquired, bundle, lockVars, databaseVars, archiveVars>>

ArchiveFails(j) ==
    /\ At(j, "archiving")
    /\ MayStore(j)
    /\ EndBody(j, 1)
    /\ UNCHANGED <<acquired, bundle, lockVars, databaseVars>>

\* pg_locks of the worker's own session, before the load; a dropped session
\* cannot answer.
AssertLock(j) ==
    /\ At(j, "asserting")
    /\ IF lockHolder = j /\ j \notin dropped
         THEN Goto(j, "waiting") /\ UNCHANGED code
         ELSE EndBody(j, 1)
    /\ UNCHANGED <<acquired, bundle, lockVars, databaseVars, archiveVars>>

-----------------------------------------------------------------------------
(* The loader's transaction, on a connection of its own. *)

InTx(j) == tx[j] \in {"open", "sent"}

TxLockFree == \A i \in Jobs : ~ InTx(i)

Twin(j) == \E b \in snapshots : b.content = bundle[j].content

\* Fault: look-up and insert without the transaction lock.
TakeTxLockShared(j) ==
    /\ At(j, "waiting")
    /\ tx' = [tx EXCEPT ![j] = "open"]
    /\ Goto(j, "deciding")
    /\ UNCHANGED <<code, acquired, bundle, lockVars, snapshots, archiveVars>>

\* pg_advisory_xact_lock: held until the transaction ends.
TakeTxLock(j) ==
    /\ At(j, "waiting")
    /\ TxLockFree
    /\ tx' = [tx EXCEPT ![j] = "open"]
    /\ Goto(j, "deciding")
    /\ UNCHANGED <<code, acquired, bundle, lockVars, snapshots, archiveVars>>

\* The bundle fails its second reading, or the lock is awaited for longer than
\* statement_timeout.
LoadNotStarted(j) ==
    /\ At(j, "waiting")
    /\ EndBody(j, 1)
    /\ UNCHANGED <<acquired, bundle, lockVars, databaseVars, archiveVars>>

\* Fault: the latest snapshot is reused without comparing its content.
ReuseLatest(j) ==
    /\ At(j, "deciding")
    /\ snapshots # {}
    /\ tx' = [tx EXCEPT ![j] = "ended"]
    /\ EndBody(j, 0)
    /\ UNCHANGED <<acquired, bundle, lockVars, snapshots, archiveVars>>

\* An identical snapshot exists: its stored rows are verified and it is reused.
ReuseExisting(j) ==
    /\ At(j, "deciding")
    /\ Twin(j)
    /\ tx' = [tx EXCEPT ![j] = "ended"]
    /\ EndBody(j, 0)
    /\ UNCHANGED <<acquired, bundle, lockVars, snapshots, archiveVars>>

DecideInsert(j) ==
    /\ At(j, "deciding")
    /\ ~ Twin(j)
    /\ Goto(j, "inserting")
    /\ UNCHANGED <<code, acquired, bundle, lockVars, databaseVars, archiveVars>>

\* Stored rows differ, spatial completeness fell, or a constraint is violated.
LoaderRejects(j) ==
    /\ worker[j] \in {"deciding", "inserting"}
    /\ tx' = [tx EXCEPT ![j] = "ended"]
    /\ EndBody(j, 1)
    /\ UNCHANGED <<acquired, bundle, lockVars, snapshots, archiveVars>>

\* Rows are inserted and COMMIT is sent; UNIQUE (content, version) refuses a twin.
InsertRows(j) ==
    /\ At(j, "inserting")
    /\ ~ Twin(j)
    /\ tx' = [tx EXCEPT ![j] = "sent"]
    /\ Goto(j, "committing")
    /\ UNCHANGED <<code, acquired, bundle, lockVars, snapshots, archiveVars>>

\* The server commits whether or not the worker still waits for the answer.
ServerCommits(j) ==
    /\ tx[j] = "sent"
    /\ tx' = [tx EXCEPT ![j] = "committed"]
    /\ snapshots' = snapshots \cup {bundle[j]}
    /\ UNCHANGED <<processVars, lockVars, archiveVars>>

Committed(j) ==
    /\ At(j, "committing")
    /\ tx[j] = "committed"
    /\ EndBody(j, 0)
    /\ UNCHANGED <<acquired, bundle, lockVars, databaseVars, archiveVars>>

-----------------------------------------------------------------------------
(* The end of source_lock and of the worker. *)

\* pg_advisory_unlock; an unconfirmed release fails a body that had succeeded.
Unlock(j) ==
    /\ At(j, "releasing")
    /\ LET confirmed == lockHolder = j /\ j \notin dropped
       IN  /\ lockHolder' = IF acquired[j] /\ confirmed THEN NoJob ELSE lockHolder
           /\ code' = IF acquired[j] /\ ~ confirmed /\ code[j] = 0
                        THEN [code EXCEPT ![j] = 1] ELSE code
    /\ Goto(j, "discarding")
    /\ UNCHANGED <<dropped, acquired, bundle, databaseVars, archiveVars>>

\* Fault: the connection goes back to the pool with its session open.
DiscardToPool(j) ==
    /\ At(j, "discarding")
    /\ acquired' = [acquired EXCEPT ![j] = FALSE]
    /\ Goto(j, "disposing")
    /\ UNCHANGED <<code, bundle, lockVars, databaseVars, archiveVars>>

\* connection.invalidate (or detach) and close: the session ends in any case.
Discard(j) ==
    /\ At(j, "discarding")
    /\ lockHolder' = IF lockHolder = j THEN NoJob ELSE lockHolder
    /\ dropped' = dropped \cup {j}
    /\ acquired' = [acquired EXCEPT ![j] = FALSE]
    /\ Goto(j, "disposing")
    /\ UNCHANGED <<code, bundle, databaseVars, archiveVars>>

\* engine.dispose and SystemExit.
ExitWorker(j) ==
    /\ At(j, "disposing")
    /\ Goto(j, "exited")
    /\ UNCHANGED <<code, acquired, bundle, lockVars, databaseVars, archiveVars>>

-----------------------------------------------------------------------------
(* SIGTERM or SIGINT reaches the worker, from its supervisor's terminate or   *)
(* from whoever signals the process group: RefreshCancelled is raised where   *)
(* the worker is.                                                             *)

\* Before its handlers are installed the worker dies of the signal.
CancelStarting(j) ==
    /\ At(j, "starting")
    /\ Goto(j, "killed")
    /\ UNCHANGED <<code, acquired, bundle, lockVars, databaseVars, archiveVars>>

\* A BaseException: it skips the archive of rejected evidence, and rolls an
\* open transaction back; a COMMIT under way is left to the server.
CancelBody(j) ==
    /\ At(j, "locking") \/ InBody(j)
    /\ EndBody(j, 5)
    /\ tx' = IF tx[j] = "open" THEN [tx EXCEPT ![j] = "ended"] ELSE tx
    /\ MayStore(j)
    /\ UNCHANGED <<acquired, bundle, lockVars, snapshots>>

\* During the clean-up the session is discarded all the same.
CancelCleanup(j) ==
    /\ worker[j] \in {"releasing", "discarding"}
    /\ Goto(j, "discarding")
    /\ code' = IF code[j] = 0 THEN [code EXCEPT ![j] = 5] ELSE code
    /\ UNCHANGED <<acquired, bundle, lockVars, databaseVars, archiveVars>>

\* After the except clauses nothing catches it: the process ends with 1.
CancelDisposing(j) ==
    /\ At(j, "disposing")
    /\ Goto(j, "exited")
    /\ code' = [code EXCEPT ![j] = 1]
    /\ UNCHANGED <<acquired, bundle, lockVars, databaseVars, archiveVars>>

(* The database server and the faults. *)

\* The server notices that a dead worker's lock session is gone.
ReapLockSession(j) ==
    /\ Dead(j)
    /\ lockHolder = j
    /\ lockHolder' = NoJob
    /\ dropped' = dropped \cup {j}
    /\ UNCHANGED <<processVars, databaseVars, archiveVars>>

\* The load connection has no client any more: it is rolled back.
ReapLoadSession(j) ==
    /\ ~ InBody(j)
    /\ InTx(j)
    /\ tx' = [tx EXCEPT ![j] = "ended"]
    /\ UNCHANGED <<processVars, lockVars, snapshots, archiveVars>>

\* The lock session breaks under a live worker: the server frees the lock.
DropLockSession(j) ==
    /\ lockHolder = j
    /\ Alive(j)
    /\ lockHolder' = NoJob
    /\ dropped' = dropped \cup {j}
    /\ UNCHANGED <<processVars, databaseVars, archiveVars>>

\* The load connection breaks; a COMMIT under way may still succeed.
DropLoadSession(j) ==
    /\ worker[j] \in {"deciding", "inserting", "committing"}
    /\ tx' = IF tx[j] = "open" THEN [tx EXCEPT ![j] = "ended"] ELSE tx
    /\ EndBody(j, 1)
    /\ UNCHANGED <<acquired, bundle, lockVars, snapshots, archiveVars>>

\* SIGKILL, from the supervisor or from the kernel: no exit code of its own.
Die(j) ==
    /\ Alive(j)
    /\ Goto(j, "killed")
    /\ code' = [code EXCEPT ![j] = 1]
    /\ acquired' = [acquired EXCEPT ![j] = FALSE]
    /\ MayStore(j)
    /\ UNCHANGED <<bundle, lockVars, databaseVars>>

-----------------------------------------------------------------------------
BodyStep(j) ==
    \/ TryLock(j) \/ LockFails(j) \/ EnterBody(j)
    \/ Fetch(j) \/ FetchFails(j) \/ Validate(j) \/ ArchiveRejected(j)
    \/ ArchiveAccepted(j) \/ ArchiveFails(j) \/ AssertLock(j)
    \/ TakeTxLock(j) \/ LoadNotStarted(j) \/ ReuseExisting(j) \/ DecideInsert(j)
    \/ LoaderRejects(j) \/ InsertRows(j) \/ Committed(j)

ProcessStep(j) == StartWorker(j) \/ Unlock(j) \/ Discard(j) \/ ExitWorker(j)

SignalStep(j) ==
    \/ CancelStarting(j) \/ CancelBody(j) \/ CancelCleanup(j) \/ CancelDisposing(j)
    \/ Die(j)

ServerStep(j) ==
    \/ ServerCommits(j) \/ ReapLockSession(j) \/ ReapLoadSession(j)
    \/ DropLockSession(j) \/ DropLoadSession(j)

\* Every step but the launch, which is the supervisor's.
RunningStep(j) == BodyStep(j) \/ ProcessStep(j) \/ SignalStep(j) \/ ServerStep(j)

\* Every job has ended and the server has forgotten it.
Settled ==
    /\ \A j \in Jobs : Dead(j) /\ ~ InTx(j)
    /\ lockHolder = NoJob
    /\ UNCHANGED workerVars

Next == (\E j \in Jobs : Launch(j) \/ RunningStep(j)) \/ Settled

Spec == Init /\ [][Next]_workerVars

-----------------------------------------------------------------------------
(* Safety. *)

\* Evidence is durable before publication: a published snapshot comes from a
\* valid bundle that the accepted archive already holds (refresh, lines 267-274).
EvidenceBeforePublication ==
    \A b \in snapshots : b \in accepted /\ b.content \in Valid

\* What was archived as rejected is never archived as accepted and never loaded,
\* whichever job retries it (refresh, the re-raise of line 266).
RejectedStaysOut == rejected \cap (accepted \cup snapshots) = {}

\* Two jobs are inside source_lock together only if the server has dropped the
\* lock session of one of them.
BodyExclusion ==
    \A i, j \in Jobs :
        i # j /\ InBody(i) /\ InBody(j) => i \in dropped \/ j \in dropped

\* Whatever signal arrives wherever, also between the server's grant and the
\* assignment of "acquired", a worker that has exited holds no lock.
LockFreedOnExit == \A j \in Jobs : At(j, "exited") => lockHolder # j

\* The look-up for an identical snapshot is still true when the rows are
\* inserted, also after a job has lost its session lock: the transaction lock
\* serialises look-up and insert, so UNIQUE never has to refuse.
InsertFindsNoTwin == \A j \in Jobs : At(j, "inserting") => ~ Twin(j)

\* Exit code 0 is "committed or verified existing snapshot", with the evidence
\* of this very run archived.
SuccessIsPublished ==
    \A j \in Jobs :
        At(j, "exited") /\ code[j] = 0 => bundle[j] \in accepted /\ Twin(j)

-----------------------------------------------------------------------------
(* The inductive invariant behind the safety properties: who can hold the     *)
(* lock, who can be in a transaction, what a bundle has been through.         *)

LockInv ==
    \A j \in Jobs :
        /\ InBody(j) => lockHolder = j \/ j \in dropped
        /\ lockHolder = j =>
             InBody(j) \/ worker[j] \in {"releasing", "discarding", "killed"}

TxInv ==
    /\ \A i, j \in Jobs : InTx(i) /\ InTx(j) => i = j
    /\ \A j \in Jobs :
         /\ worker[j] \in {"deciding", "inserting"} => tx[j] = "open"
         /\ worker[j] = "committing" => tx[j] \in {"sent", "committed"}
         /\ worker[j] = "inserting" \/ tx[j] = "sent" => ~ Twin(j)
         /\ tx[j] = "committed" => Twin(j)

BeforeBundle == {"unborn", "starting", "locking", "granted", "fetching"}

\* The steps that still follow when the evidence has been archived.
Archived == {"asserting", "waiting", "deciding", "inserting", "committing"}

EvidenceInv ==
    /\ \A b \in accepted : b.content \in Valid
    /\ \A b \in rejected : b.content \notin Valid
    /\ snapshots \subseteq accepted
    /\ \A j \in Jobs :
         /\ worker[j] \in {"validating", "archiving", "rejecting"} => bundle[j] \in Bundles
         /\ worker[j] = "archiving" => bundle[j].content \in Valid
         /\ worker[j] = "rejecting" => bundle[j].content \notin Valid
         /\ worker[j] \in Archived \/ tx[j] # "none" => bundle[j] \in accepted
         /\ worker[j] \in BeforeBundle => tx[j] = "none"

\* The success a worker is about to report is already true.
CodeInv ==
    \A j \in Jobs : code[j] = 0 =>
        /\ worker[j] \in {"releasing", "discarding", "disposing", "exited"}
        /\ bundle[j] \in accepted
        /\ Twin(j)

WorkerInv == TypeOK /\ LockInv /\ TxInv /\ EvidenceInv /\ CodeInv

-----------------------------------------------------------------------------
\* What the jobs that ended with exit code 0 have loaded.
Reported == {bundle[j] : j \in {i \in Jobs : At(i, "exited") /\ code[i] = 0}}

\* A job is SnapshotStore's client: archive, then publish, then report success.
Store == INSTANCE SnapshotStore WITH
            archived  <- accepted,
            published <- snapshots,
            reported  <- Reported

\* Jobs implement the store that archives before it publishes one snapshot for a
\* content, and reports success only of what is published, whatever dies or breaks.
ImplementsStore == Store!Spec
=============================================================================
