----------------------------- MODULE LocalArchive -----------------------------
(***************************************************************************)
(* LocalEvidenceStore.persist (evidence.py) for one bundle: several        *)
(* processes that archive the same evidence directory, because a job is    *)
(* retried or because a worker outlived its supervisor, any of which may   *)
(* be interrupted or killed, on a machine that may lose its power.         *)
(*                                                                         *)
(* The file system is POSIX: what a file holds is on disk after its fsync, *)
(* the entries of a directory are on disk after an fsync of the directory. *)
(* An entry that is not may be lost or kept when the power fails.          *)
(***************************************************************************)
EXTENDS Integers, FiniteSets

CONSTANTS
    Writers,       \* processes that persist the bundle
    Files,         \* its files, without the index
    Nested,        \* the files that lie in a subdirectory of the bundle
    Ancestors,     \* the directories above the final one that persist has to make
    Index,         \* evidence-index.json
    MaxPowerLosses \* bound on power failures

ASSUME FilesAssumption == Nested \subseteq Files /\ Index \notin Files

ASSUME AncestorsAssumption == Ancestors \cap Files = {} /\ "rename" \notin Ancestors \cup Files

ASSUME PowerAssumption == MaxPowerLosses \in Nat

Whole == Files \cup {Index}

\* The final directory always has an index: no names, no directory.
NoTarget == {}

VARIABLES
    writerAt, \* where persist of each writer is
    pending,  \* the names in each writer's .pending directory
    target,   \* the names in the bundle's final directory, or NoTarget
    unsynced, \* nested files and directories whose entries are not on disk
    creator,  \* the writers whose own rename made the target
    acks,     \* whether any persist has returned the bundle's identity
    losses    \* power failures so far

localVars == <<writerAt, pending, target, unsynced, creator, acks, losses>>

\* The steps inside the try statement: their exceptions remove the staging.
TryStates == {"copying", "indexing", "syncing", "renaming", "syncingParent"}

States == TryStates \cup {"idle", "checking", "verifying", "acked", "failed", "dead"}

\* Stands in "unsynced" for the target's own entry in its parent directory.
Rename == "rename"

\* The entries that lead to the target.
Links == Ancestors \cup {Rename}

LocalTypeOK ==
    /\ writerAt \in [Writers -> States]
    /\ pending \in [Writers -> SUBSET Whole]
    /\ target \subseteq Whole
    /\ unsynced \subseteq Nested \cup Links
    /\ creator \subseteq Writers
    /\ acks \in BOOLEAN
    /\ losses \in 0 .. MaxPowerLosses

LocalInit ==
    /\ writerAt = [w \in Writers |-> "idle"]
    /\ pending = [w \in Writers |-> {}]
    /\ target = NoTarget
    /\ unsynced = Ancestors
    /\ creator = {}
    /\ acks = FALSE
    /\ losses = 0

WriterMoves(w, from, to) ==
    /\ writerAt[w] = from
    /\ writerAt' = [writerAt EXCEPT ![w] = to]

fsVars == <<target, unsynced, creator>>

\* _inventory: the evidence directory itself may be refused.
Inventory(w) ==
    /\ \/ WriterMoves(w, "idle", "checking")
       \/ WriterMoves(w, "idle", "failed")
    /\ UNCHANGED <<pending, fsVars, acks, losses>>

\* target.exists()
CheckTarget(w) ==
    /\ WriterMoves(w, "checking", IF target = NoTarget THEN "copying" ELSE "verifying")
    /\ UNCHANGED <<pending, fsVars, acks, losses>>

\* Fault: the bundle is copied straight into its final directory.
CopyFileInPlace(w) ==
    /\ writerAt[w] = "copying"
    /\ \E f \in Files \ pending[w] :
         /\ pending' = [pending EXCEPT ![w] = @ \cup {f}]
         /\ target' = target \cup {f}
    /\ UNCHANGED <<writerAt, unsynced, creator, acks, losses>>

\* _copy_durable of the next file; files in any order.
CopyFile(w) ==
    /\ writerAt[w] = "copying"
    /\ \E f \in Files \ pending[w] : pending' = [pending EXCEPT ![w] = @ \cup {f}]
    /\ UNCHANGED <<writerAt, fsVars, acks, losses>>

CopyDone(w) ==
    /\ pending[w] = Files
    /\ WriterMoves(w, "copying", "indexing")
    /\ UNCHANGED <<pending, fsVars, acks, losses>>

WriteIndex(w) ==
    /\ WriterMoves(w, "indexing", "syncing")
    /\ pending' = [pending EXCEPT ![w] = @ \cup {Index}]
    /\ UNCHANGED <<fsVars, acks, losses>>

\* _sync_directory(staging): the entries of the top directory, not of its
\* subdirectories.
SyncStaging(w) ==
    /\ WriterMoves(w, "syncing", "renaming")
    /\ UNCHANGED <<pending, fsVars, acks, losses>>

\* os.rename replaces no directory that has entries.
RenameStaging(w) ==
    /\ target = NoTarget
    /\ WriterMoves(w, "renaming", "syncingParent")
    /\ target' = pending[w]
    /\ unsynced' = (unsynced \cap Ancestors) \cup Nested \cup {Rename}
    /\ creator' = creator \cup {w}
    /\ pending' = [pending EXCEPT ![w] = {}]
    /\ UNCHANGED <<acks, losses>>

\* Fault: the parent directory is not synced.
SkipParentSync(w) ==
    /\ WriterMoves(w, "syncingParent", "verifying")
    /\ UNCHANGED <<pending, fsVars, acks, losses>>

SyncParent(w) ==
    /\ WriterMoves(w, "syncingParent", "verifying")
    /\ unsynced' = unsynced \ {Rename}
    /\ UNCHANGED <<pending, target, creator, acks, losses>>

\* _verify: every name and checksum, then the identity is returned.
VerifyTarget(w) ==
    /\ target = Whole
    /\ WriterMoves(w, "verifying", "acked")
    /\ acks' = TRUE
    /\ UNCHANGED <<pending, fsVars, losses>>

VerifyFails(w) ==
    /\ target # Whole
    /\ WriterMoves(w, "verifying", "failed")
    /\ UNCHANGED <<pending, fsVars, acks, losses>>

\* Fault: the clean-up removes the final directory as well.
AbortRemovingTarget(w) ==
    /\ writerAt[w] \in TryStates \cup {"checking", "verifying"}
    /\ writerAt' = [writerAt EXCEPT ![w] = "failed"]
    /\ pending' = [pending EXCEPT ![w] = {}]
    /\ target' = NoTarget
    /\ UNCHANGED <<unsynced, creator, acks, losses>>

\* An I/O error or a signal at any step; rmtree of the staging directory, which
\* after the rename is no longer there and whose own errors are ignored.  A rename
\* onto a target is such an error.
AbortWriter(w) ==
    /\ writerAt[w] \in TryStates \cup {"checking", "verifying"}
    /\ writerAt' = [writerAt EXCEPT ![w] = "failed"]
    /\ \E left \in {{}, pending[w]} : pending' = [pending EXCEPT ![w] = left]
    /\ UNCHANGED <<fsVars, acks, losses>>

\* SIGKILL: the staging directory stays, under a name nobody uses again.
KillWriter(w) ==
    /\ writerAt[w] \in TryStates \cup {"checking", "verifying"}
    /\ writerAt' = [writerAt EXCEPT ![w] = "dead"]
    /\ UNCHANGED <<pending, fsVars, acks, losses>>

\* Every process ends; entries that are not on disk are lost or kept, and what is
\* found afterwards is on disk.
LosePower ==
    /\ losses < MaxPowerLosses
    /\ losses' = losses + 1
    /\ writerAt' = [w \in Writers |->
                     IF writerAt[w] \in {"idle", "acked", "failed"} THEN writerAt[w] ELSE "dead"]
    /\ \E lost \in SUBSET unsynced :
         /\ target' = IF lost \cap Links # {} THEN NoTarget ELSE target \ lost
         /\ unsynced' = lost \cap Ancestors
    /\ UNCHANGED <<pending, creator, acks>>

WritersDone ==
    /\ \A w \in Writers : writerAt[w] \in {"acked", "failed", "dead"}
    /\ UNCHANGED localVars

WriterStep(w) ==
    \/ Inventory(w) \/ CheckTarget(w) \/ CopyFile(w) \/ CopyDone(w) \/ WriteIndex(w)
    \/ SyncStaging(w) \/ RenameStaging(w) \/ SyncParent(w) \/ VerifyTarget(w) \/ VerifyFails(w)

LocalNext ==
    \/ \E w \in Writers : WriterStep(w) \/ AbortWriter(w) \/ KillWriter(w)
    \/ LosePower
    \/ WritersDone

LocalSpec == LocalInit /\ [][LocalNext]_localVars

-----------------------------------------------------------------------------
(* Safety. *)

\* Of concurrent writers of one bundle at most one makes the target, and none
\* replaces it.
OneCreator == Cardinality(creator) <= 1

\* While the power stays on, whoever finds the final directory finds the whole
\* bundle in it, although it is filled file by file and by several writers, of
\* which only one has put it there.
TargetIsWhole ==
    losses = 0 =>
        /\ target # NoTarget => target = Whole
        /\ OneCreator

\* Once a writer that made the target itself, in a directory that was there before,
\* has returned, no power failure takes the target away, nor any file at its top.
CreatorSurvives ==
    Ancestors = {} /\ (\E w \in creator : writerAt[w] = "acked") =>
        Whole \ Nested \subseteq target

\* As long as the power stays on, the local store keeps the promise of EvidenceArchive.
LocalPromise == INSTANCE EvidenceArchive WITH stored <- target = Whole, acknowledged <- acks

LocalImplementsArchive ==
    /\ LocalPromise!Init
    /\ [][losses' = 0 => LocalPromise!Next \/ UNCHANGED <<target = Whole, acks>>]_localVars
=============================================================================
