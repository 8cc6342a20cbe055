---------------------------- MODULE EvidenceProofs ----------------------------
(***************************************************************************)
(* Proofs about the ways of evidence: its two stores (LocalArchive,        *)
(* S3Archive) and its package (EvidencePackage).                           *)
(***************************************************************************)
EXTENDS LocalArchive, S3Archive, EvidencePackage, FiniteSetTheorems, SequenceTheorems, TLAPS

-----------------------------------------------------------------------------
(***************************************************************************)
(* Proofs about LocalArchive, for any number of writers, any files and any *)
(* number of power failures.                                               *)
(*                                                                         *)
(* That the target is whole needs to know what a writer has put into its   *)
(* own directory when it comes to the rename (StagingInv), and who has     *)
(* made the target while the power was on (PoweredInv).  What survives a   *)
(* power failure needs to know that a creator which goes on has been on    *)
(* the same power since its rename (CreatorInv).                           *)
(***************************************************************************)

USE DEF fsVars, localVars, WriterMoves, NoTarget, Whole, Links, Rename

\* What lies in the staging directory of a writer before it is renamed.
StagingInv ==
    \A w \in Writers :
        /\ writerAt[w] = "copying" => pending[w] \subseteq Files
        /\ writerAt[w] = "indexing" => pending[w] = Files
        /\ writerAt[w] \in {"syncing", "renaming"} => pending[w] = Whole
        /\ writerAt[w] \in {"idle", "checking"} => pending[w] = {}

\* As long as the power stays on, the target is whole once one writer has made it.
PoweredInv ==
    losses = 0 =>
        /\ target = IF creator = {} THEN NoTarget ELSE Whole
        /\ \A v, w \in creator : v = w
        /\ acks => target = Whole

AfterRename == {"syncingParent", "verifying", "acked", "failed", "dead"}

CreatorInv ==
    \A w \in creator :
        /\ writerAt[w] \in AfterRename
        /\ writerAt[w] \in {"syncingParent", "verifying", "acked"} /\ Ancestors = {} =>
             Whole \ Nested \subseteq target
        /\ writerAt[w] \in {"verifying", "acked"} /\ Ancestors = {} => Rename \notin unsynced

ArchiveInv == LocalTypeOK /\ StagingInv /\ PoweredInv /\ CreatorInv

-----------------------------------------------------------------------------
LEMMA ArchiveInit == LocalInit => ArchiveInv
<1> SUFFICES ASSUME LocalInit PROVE ArchiveInv
  OBVIOUS
<1>1. LocalTypeOK
  <2>1. losses \in 0 .. MaxPowerLosses
    BY PowerAssumption DEF LocalInit
  <2>2. writerAt \in [Writers -> States] /\ pending \in [Writers -> SUBSET Whole]
    BY DEF LocalInit, States, TryStates
  <2> QED
    BY <2>1, <2>2 DEF LocalInit, LocalTypeOK
<1> QED
  BY <1>1 DEF LocalInit, ArchiveInv, StagingInv, PoweredInv, CreatorInv

\* Steps that leave the final directory and the acknowledgements alone.
LEMMA PrivateStep ==
    ASSUME ArchiveInv, NEW w \in Writers, UNCHANGED <<fsVars, acks, losses>>,
           \/ Inventory(w) \/ CheckTarget(w) \/ CopyFile(w) \/ CopyDone(w) \/ WriteIndex(w)
           \/ SyncStaging(w) \/ VerifyFails(w) \/ AbortWriter(w) \/ KillWriter(w)
    PROVE  ArchiveInv'
<1> USE DEF ArchiveInv, LocalTypeOK, States, TryStates
<1>1. LocalTypeOK' /\ StagingInv'
  <2> USE DEF StagingInv
  <2>1. CASE Inventory(w)
    BY <2>1 DEF Inventory
  <2>2. CASE CheckTarget(w)
    BY <2>2 DEF CheckTarget
  <2>3. CASE CopyFile(w)
    BY <2>3 DEF CopyFile
  <2>4. CASE CopyDone(w)
    BY <2>4 DEF CopyDone
  <2>5. CASE WriteIndex(w)
    BY <2>5 DEF WriteIndex
  <2>6. CASE SyncStaging(w)
    BY <2>6 DEF SyncStaging
  <2>7. CASE VerifyFails(w)
    BY <2>7 DEF VerifyFails
  <2>8. CASE AbortWriter(w)
    BY <2>8 DEF AbortWriter
  <2>9. CASE KillWriter(w)
    BY <2>9 DEF KillWriter
  <2> QED
    BY <2>1, <2>2, <2>3, <2>4, <2>5, <2>6, <2>7, <2>8, <2>9
<1>2. PoweredInv'
  BY DEF PoweredInv
<1>3. CreatorInv'
  <2>1. \A v \in Writers \ {w} : writerAt'[v] = writerAt[v]
    BY DEF Inventory, CheckTarget, CopyFile, CopyDone, WriteIndex, SyncStaging, VerifyFails,
           AbortWriter, KillWriter
  <2>2. w \in creator => writerAt'[w] \in {"failed", "dead"} \cap AfterRename
    BY DEF Inventory, CheckTarget, CopyFile, CopyDone, WriteIndex, SyncStaging, VerifyFails,
           AbortWriter, KillWriter, CreatorInv, AfterRename
  <2>3. creator \subseteq Writers
    OBVIOUS
  <2> HIDE DEF LocalTypeOK
  <2> QED
    BY <2>1, <2>2, <2>3 DEF CreatorInv
<1> QED
  BY <1>1, <1>2, <1>3

LEMMA RenameStep ==
    ASSUME ArchiveInv, NEW w \in Writers, RenameStaging(w)
    PROVE  ArchiveInv'
<1> USE DEF ArchiveInv, LocalTypeOK, States, TryStates, RenameStaging
<1>1. LocalTypeOK'
  BY DEF StagingInv
<1>2. StagingInv'
  BY DEF StagingInv
<1>3. target' = Whole /\ creator' = creator \cup {w} /\ losses' = losses /\ acks' = acks
  BY DEF StagingInv
<1>4. Whole # NoTarget
  OBVIOUS
<1>5. PoweredInv'
  <2>1. losses = 0 => creator = {}
    BY <1>4 DEF PoweredInv
  <2> QED
    BY <1>3, <2>1 DEF PoweredInv
<1>6. CreatorInv'
  <2> SUFFICES ASSUME NEW v \in creator'
               PROVE  /\ writerAt'[v] \in AfterRename
                      /\ writerAt'[v] \in {"verifying", "acked"} /\ Ancestors = {} =>
                           Rename \notin unsynced'
    BY <1>3 DEF CreatorInv
  <2>1. CASE v = w
    BY <2>1 DEF AfterRename
  <2>2. CASE v # w
    <3>1. v \in creator /\ v \in Writers /\ writerAt'[v] = writerAt[v]
      BY <1>3, <2>2
    <3>2. writerAt[v] \in AfterRename
      BY <3>1 DEF CreatorInv
    <3>3. ~ (writerAt[v] \in {"verifying", "acked"} /\ Ancestors = {})
      <4>1. SUFFICES ASSUME writerAt[v] \in {"verifying", "acked"}, Ancestors = {}
                     PROVE  FALSE
        OBVIOUS
      <4>2. Whole \ Nested \subseteq target
        BY <3>1, <4>1 DEF CreatorInv
      <4>3. Index \in Whole \ Nested
        BY FilesAssumption
      <4> QED
        BY <4>2, <4>3
    <3> QED
      BY <3>1, <3>2, <3>3
  <2> QED
    BY <2>1, <2>2
<1> QED
  BY <1>1, <1>2, <1>5, <1>6

LEMMA SyncStep ==
    ASSUME ArchiveInv, NEW w \in Writers, SyncParent(w) \/ VerifyTarget(w)
    PROVE  ArchiveInv'
<1> USE DEF ArchiveInv, LocalTypeOK, States, TryStates, SyncParent, VerifyTarget
<1>1. LocalTypeOK' /\ StagingInv'
  BY DEF StagingInv
<1>2. PoweredInv'
  BY DEF PoweredInv
<1>3. CreatorInv'
  BY DEF CreatorInv, AfterRename
<1> QED
  BY <1>1, <1>2, <1>3

\* A power failure ends every writer; a creator that has returned had its target's
\* entry on disk.
LEMMA PowerStep ==
    ASSUME ArchiveInv, LosePower
    PROVE  ArchiveInv'
<1> USE DEF ArchiveInv, LocalTypeOK, States, TryStates, LosePower
<1>1. LocalTypeOK'
  <2>1. losses' \in 0 .. MaxPowerLosses /\ losses' # 0
    BY PowerAssumption
  <2>2. writerAt' \in [Writers -> States]
    OBVIOUS
  <2>3. target' \subseteq Whole /\ unsynced' \subseteq Nested \cup Links
    OBVIOUS
  <2> QED
    BY <2>1, <2>2, <2>3
<1>2. StagingInv'
  BY DEF StagingInv
<1>3. PoweredInv'
  BY PowerAssumption DEF PoweredInv
<1>4. CreatorInv'
  <2> SUFFICES ASSUME NEW w \in creator
               PROVE  /\ writerAt'[w] \in AfterRename
                      /\ writerAt'[w] \in {"syncingParent", "verifying", "acked"}
                         /\ Ancestors = {} =>
                           Whole \ Nested \subseteq target' /\ Rename \notin unsynced'
    BY DEF CreatorInv
  <2>1. w \in Writers /\ writerAt'[w] \in AfterRename
    BY DEF CreatorInv, AfterRename
  <2>2. ASSUME writerAt'[w] \in {"syncingParent", "verifying", "acked"}, Ancestors = {}
        PROVE  Whole \ Nested \subseteq target' /\ Rename \notin unsynced'
    <3>1. writerAt[w] = "acked"
      BY <2>1, <2>2
    <3>2. Whole \ Nested \subseteq target /\ Rename \notin unsynced
      BY <2>2, <3>1 DEF CreatorInv
    <3>3. PICK lost \in SUBSET unsynced :
            /\ target' = IF lost \cap Links # {} THEN NoTarget ELSE target \ lost
            /\ unsynced' = lost \cap Ancestors
      OBVIOUS
    <3>4. lost \cap Links = {} /\ lost \subseteq Nested
      BY <2>2, <3>2, <3>3
    <3> QED
      BY <2>2, <3>2, <3>3, <3>4
  <2> QED
    BY <2>1, <2>2
<1> QED
  BY <1>1, <1>2, <1>3, <1>4

LEMMA ArchiveStutter == ArchiveInv /\ UNCHANGED localVars => ArchiveInv'
BY DEF ArchiveInv, LocalTypeOK, StagingInv, PoweredInv, CreatorInv

LEMMA ArchiveStep == ArchiveInv /\ [LocalNext]_localVars => ArchiveInv'
<1> SUFFICES ASSUME ArchiveInv, [LocalNext]_localVars PROVE ArchiveInv'
  OBVIOUS
<1>1. ASSUME NEW w \in Writers, WriterStep(w) \/ AbortWriter(w) \/ KillWriter(w)
      PROVE  ArchiveInv'
  <2>1. CASE RenameStaging(w)
    BY <2>1, RenameStep
  <2>2. CASE SyncParent(w) \/ VerifyTarget(w)
    BY <2>2, SyncStep
  <2>3. CASE \/ Inventory(w) \/ CheckTarget(w) \/ CopyFile(w) \/ CopyDone(w) \/ WriteIndex(w)
             \/ SyncStaging(w) \/ VerifyFails(w) \/ AbortWriter(w) \/ KillWriter(w)
    <3>1. UNCHANGED <<fsVars, acks, losses>>
      BY <2>3 DEF Inventory, CheckTarget, CopyFile, CopyDone, WriteIndex, SyncStaging,
                  VerifyFails, AbortWriter, KillWriter
    <3> QED
      BY <2>3, <3>1, PrivateStep
  <2> QED
    BY <1>1, <2>1, <2>2, <2>3 DEF WriterStep
<1>2. CASE LosePower
  BY <1>2, PowerStep
<1>3. CASE WritersDone \/ UNCHANGED localVars
  BY <1>3, ArchiveStutter DEF WritersDone
<1> QED
  BY <1>1, <1>2, <1>3 DEF LocalNext

-----------------------------------------------------------------------------
\* The inductive invariant of LocalEvidenceStore.persist.
THEOREM ArchiveInvariant == LocalSpec => []ArchiveInv
BY ArchiveInit, ArchiveStep, PTL DEF LocalSpec

\* While the power stays on nobody ever finds half a bundle, and one writer has made it.
THEOREM TargetAlwaysWhole == LocalSpec => []TargetIsWhole
<1>1. ArchiveInv => TargetIsWhole
  <2> SUFFICES ASSUME ArchiveInv, losses = 0
               PROVE  (target # NoTarget => target = Whole) /\ OneCreator
    BY DEF TargetIsWhole
  <2>1. creator = {} \/ \E w \in creator : creator = {w}
    BY DEF ArchiveInv, PoweredInv
  <2>2. Cardinality(creator) = 0 \/ Cardinality(creator) = 1
    BY <2>1, FS_EmptySet, FS_Singleton
  <2> QED
    BY <2>2 DEF ArchiveInv, PoweredInv, OneCreator
<1> QED
  BY <1>1, ArchiveInvariant, PTL

\* What a creator has acknowledged outlives any number of power failures, but for the
\* files in subdirectories and for a store whose own directories were new.
THEOREM AcknowledgedSurvives == LocalSpec => []CreatorSurvives
<1>1. ArchiveInv => CreatorSurvives
  BY DEF ArchiveInv, CreatorInv, CreatorSurvives
<1> QED
  BY <1>1, ArchiveInvariant, PTL

-----------------------------------------------------------------------------
(* The refinement of EvidenceArchive. *)

LEMMA PromiseStep ==
    ASSUME ArchiveInv, LocalNext, losses' = 0
    PROVE  LocalPromise!Next \/ UNCHANGED <<target = Whole, acks>>
<1> USE DEF ArchiveInv, LocalTypeOK
<1>1. ASSUME NEW w \in Writers, RenameStaging(w)
      PROVE  LocalPromise!Store
  BY <1>1 DEF RenameStaging, StagingInv, LocalPromise!Store
<1>2. ASSUME NEW w \in Writers, VerifyTarget(w)
      PROVE  LocalPromise!Acknowledge
  BY <1>2 DEF VerifyTarget, LocalPromise!Acknowledge
<1>3. ASSUME NEW w \in Writers,
             \/ Inventory(w) \/ CheckTarget(w) \/ CopyFile(w) \/ CopyDone(w) \/ WriteIndex(w)
             \/ SyncStaging(w) \/ SyncParent(w) \/ VerifyFails(w)
             \/ AbortWriter(w) \/ KillWriter(w)
      PROVE  target' = target /\ acks' = acks
  BY <1>3 DEF Inventory, CheckTarget, CopyFile, CopyDone, WriteIndex, SyncStaging, SyncParent,
              VerifyFails, AbortWriter, KillWriter
<1>4. CASE LosePower
  BY <1>4, PowerAssumption DEF LosePower
<1>5. CASE WritersDone
  BY <1>5 DEF WritersDone
<1> QED
  BY <1>1, <1>2, <1>3, <1>4, <1>5 DEF LocalNext, WriterStep, LocalPromise!Next

\* While the power stays on, the local store implements the archive: whole or nothing,
\* and acknowledged only once it is there.
THEOREM WritersImplementArchive == LocalSpec => LocalImplementsArchive
<1>1. LocalInit => LocalPromise!Init
  BY DEF LocalInit, LocalPromise!Init
<1>2. ArchiveInv /\ [LocalNext]_localVars
        => [losses' = 0 => LocalPromise!Next \/ UNCHANGED <<target = Whole, acks>>]_localVars
  BY PromiseStep
<1> QED
  BY <1>1, <1>2, ArchiveInvariant, PTL DEF LocalSpec, LocalImplementsArchive

HIDE DEF fsVars, localVars, WriterMoves, NoTarget, Whole, Links, Rename

-----------------------------------------------------------------------------
(***************************************************************************)
(* Proofs about S3Archive, for any number of uploaders, files and retries. *)
(*                                                                         *)
(* That uploads agree is not inductive by itself: that the index names     *)
(* every file needs to know that an uploader which has come to the index   *)
(* has read back every file before it (Progress), and that the versions    *)
(* it has read are still the current ones (SeenIsCurrent).                 *)
(***************************************************************************)

USE DEF s3Vars, uploaderVars, bucketVars, UploaderMoves, Absent, Items, IndexItem, Objects, Bodies

\* What an uploader has come past it has read back, and what it reads is there.
Progress ==
    \A w \in Uploaders :
        /\ \A o \in Objects : o < item[w] => readBack[w][o] # Absent
        /\ uploaderAt[w] = "reading" => bucket[item[w]] # Absent
        /\ uploaderAt[w] = "acked" => bucket[IndexItem] # Absent

UploadInv == S3TypeOK /\ Progress /\ UploadsAgree

-----------------------------------------------------------------------------
LEMMA UploadInit == S3Init => UploadInv
<1> SUFFICES ASSUME S3Init PROVE UploadInv
  OBVIOUS
<1> USE ItemAssumption, RestartAssumption DEF S3Init, NoVersions
<1>1. S3TypeOK
  BY DEF S3TypeOK
<1>2. Progress
  BY DEF Progress
<1>3. UploadsAgree
  BY DEF UploadsAgree, SeenIsCurrent, IndexNamesEveryFile, RetryAgrees
<1> QED
  BY <1>1, <1>2, <1>3 DEF UploadInv

\* What a request that stores a new object does to the bucket: nothing that was there
\* changes, and an index that is new names versions that are current.
LEMMA PutEffect ==
    ASSUME UploadInv, NEW w \in Uploaders, bucket[item[w]] = Absent, PutStores(w)
    PROVE  /\ bucket' \in [Objects -> Nat]
           /\ body' \in Bodies
           /\ nextId' \in Nat \ {0}
           /\ bucket'[item[w]] # Absent
           /\ \A o \in Objects : bucket[o] # Absent => bucket'[o] = bucket[o]
           /\ IndexNamesEveryFile'
           /\ bucket[IndexItem] # Absent => body' = body
           /\ item[w] = IndexItem => body' = IndexBody(w)
           /\ item[w] # IndexItem => bucket'[IndexItem] = bucket[IndexItem] /\ body' = body
<1> USE ItemAssumption DEF UploadInv, S3TypeOK, PutStores, IndexBody
<1>1. bucket \in [Objects -> Nat] /\ item[w] \in Objects /\ nextId \in Nat \ {0}
  OBVIOUS
<1>2. /\ bucket' \in [Objects -> Nat]
      /\ nextId' \in Nat \ {0}
      /\ bucket'[item[w]] # Absent
      /\ \A o \in Objects : bucket[o] # Absent => bucket'[o] = bucket[o]
      /\ item[w] # IndexItem => bucket'[IndexItem] = bucket[IndexItem]
  <2>1. bucket' = [bucket EXCEPT ![item[w]] = nextId] /\ nextId' = nextId + 1
    OBVIOUS
  <2>2. bucket' \in [Objects -> Nat]
    BY <1>1, <2>1
  <2>3. bucket'[item[w]] # Absent
    BY <1>1, <2>1
  <2>4. \A o \in Objects : bucket[o] # Absent => bucket'[o] = bucket[o]
    BY <1>1, <2>1
  <2>5. item[w] # IndexItem => bucket'[IndexItem] = bucket[IndexItem]
    BY <1>1, <2>1
  <2>6. nextId' \in Nat \ {0}
    BY <1>1, <2>1
  <2> QED
    BY <2>2, <2>3, <2>4, <2>5, <2>6
<1>3. /\ item[w] # IndexItem => body' = body
      /\ item[w] = IndexItem => body' = IndexBody(w)
      /\ bucket[IndexItem] # Absent => body' = body
  OBVIOUS
<1>4. body' \in Bodies
  OBVIOUS
<1>5. IndexNamesEveryFile'
  <2>1. CASE item[w] = IndexItem
    <3>1. \A f \in Items : f \in Objects /\ f < IndexItem
      OBVIOUS
    <3>2. \A f \in Items : readBack[w][f] # Absent /\ readBack[w][f] = bucket[f]
      <4>1. \A o \in Objects : o < item[w] => readBack[w][o] # Absent
        BY DEF Progress
      <4>2. \A o \in Objects : readBack[w][o] # Absent => readBack[w][o] = bucket[o]
        BY DEF UploadsAgree, SeenIsCurrent
      <4> HIDE DEF Objects, Items, IndexItem, Absent, UploadInv, S3TypeOK, PutStores
      <4> QED
        BY <2>1, <3>1, <4>1, <4>2
    <3>3. \A f \in Items : body'[f] = readBack[w][f] /\ bucket'[f] = bucket[f]
      BY <1>2, <1>3, <2>1, <3>1, <3>2
    <3> QED
      BY <3>2, <3>3 DEF IndexNamesEveryFile
  <2>2. CASE item[w] # IndexItem
    <3>1. \A f \in Items : f \in Objects
      OBVIOUS
    <3> QED
      BY <1>2, <1>3, <2>2, <3>1 DEF UploadsAgree, IndexNamesEveryFile
  <2> QED
    BY <2>1, <2>2
<1> QED
  BY <1>2, <1>3, <1>4, <1>5

-----------------------------------------------------------------------------
\* A put that stores the object: what others have read back stays current, and an
\* uploader that has the answer finds the object there.
LEMMA StoringPut ==
    ASSUME UploadInv, NEW w \in Uploaders,
           bucket[item[w]] = Absent, PutStores(w), UNCHANGED uploaderVars,
           NEW to \in {"reading", "failed"}, UploaderMoves(w, "putting", to)
    PROVE  UploadInv'
<1>1. S3TypeOK'
  BY PutEffect DEF UploadInv, S3TypeOK
<1>2. Progress'
  BY PutEffect, ItemAssumption DEF UploadInv, S3TypeOK, Progress
<1>3. SeenIsCurrent'
  BY PutEffect DEF UploadInv, S3TypeOK, UploadsAgree, SeenIsCurrent
<1>4. RetryAgrees'
  <2> SUFFICES ASSUME NEW v \in Uploaders, uploaderAt'[v] = "reading", item[v] = IndexItem
               PROVE  body' = IndexBody(v)
    BY DEF RetryAgrees, ReadsBack, IndexBody
  <2>1. CASE v = w
    BY <2>1, PutEffect
  <2>2. CASE v # w
    <3>1. uploaderAt[v] = "reading"
      BY <2>2 DEF UploadInv, S3TypeOK
    <3>2. bucket[IndexItem] # Absent /\ body = IndexBody(v)
      BY <3>1 DEF UploadInv, Progress, UploadsAgree, RetryAgrees, ReadsBack
    <3> QED
      BY <3>2, PutEffect
  <2> QED
    BY <2>1, <2>2
<1> QED
  BY <1>1, <1>2, <1>3, <1>4, PutEffect DEF UploadInv, UploadsAgree

\* A put that finds the object there: its index names the versions of everybody.
LEMMA PutFound ==
    ASSUME UploadInv, NEW w \in Uploaders, bucket[item[w]] # Absent,
           UploaderMoves(w, "putting", "reading"), UNCHANGED <<bucketVars, uploaderVars>>
    PROVE  UploadInv'
<1>1. S3TypeOK' /\ Progress' /\ SeenIsCurrent' /\ IndexNamesEveryFile'
  BY DEF UploadInv, S3TypeOK, Progress, UploadsAgree, SeenIsCurrent, IndexNamesEveryFile
<1>2. RetryAgrees'
  <2> SUFFICES ASSUME NEW v \in Uploaders, uploaderAt'[v] = "reading", item[v] = IndexItem
               PROVE  body = IndexBody(v)
    BY DEF RetryAgrees, ReadsBack, IndexBody
  <2>1. CASE v = w
    <3>1. \A f \in Items : f \in Objects /\ f < IndexItem
      BY ItemAssumption
    <3>2. \A f \in Items : readBack[w][f] = bucket[f]
      BY <2>1, <3>1 DEF UploadInv, Progress, UploadsAgree, SeenIsCurrent
    <3>3. \A f \in Items : body[f] = bucket[f]
      BY <2>1 DEF UploadInv, UploadsAgree, IndexNamesEveryFile
    <3>4. body \in [Items -> Nat]
      BY DEF UploadInv, S3TypeOK
    <3> QED
      BY <2>1, <3>2, <3>3, <3>4 DEF IndexBody
  <2>2. CASE v # w
    BY <2>2 DEF UploadInv, S3TypeOK, UploadsAgree, RetryAgrees, ReadsBack
  <2> QED
    BY <2>1, <2>2
<1> QED
  BY <1>1, <1>2 DEF UploadInv, UploadsAgree

LEMMA NextObject ==
    ASSUME NEW o \in Objects
    PROVE  LET coming == IF o = IndexItem THEN IndexItem ELSE o + 1
           IN  /\ coming \in Objects
               /\ \A p \in Objects : p < coming => p < o \/ p = o
BY ItemAssumption

\* Reading back moves on to the next object with its version noted.
LEMMA ReadBackStep ==
    ASSUME UploadInv, NEW w \in Uploaders, ReadItem(w)
    PROVE  UploadInv'
<1> USE ItemAssumption DEF ReadItem, UploadInv, S3TypeOK
<1>1. item[w] \in Objects /\ bucket[item[w]] \in Nat /\ bucket[item[w]] # Absent
  BY DEF Progress
<1> DEFINE seen == [readBack[w] EXCEPT ![item[w]] = bucket[item[w]]]
           coming == IF item[w] = IndexItem THEN IndexItem ELSE item[w] + 1
<1>2. readBack' = [readBack EXCEPT ![w] = seen] /\ item' = [item EXCEPT ![w] = coming]
  OBVIOUS
<1>3. /\ seen \in [Objects -> Nat] /\ coming \in Objects
      /\ seen[item[w]] = bucket[item[w]]
      /\ \A o \in Objects : o # item[w] => seen[o] = readBack[w][o]
      /\ \A o \in Objects : o < coming => o < item[w] \/ o = item[w]
  <2>1. seen \in [Objects -> Nat]
    BY <1>1
  <2>2. coming \in Objects
    BY <1>1, NextObject
  <2>3. seen[item[w]] = bucket[item[w]]
    BY <1>1
  <2>4. \A o \in Objects : o # item[w] => seen[o] = readBack[w][o]
    BY <1>1
  <2>5. \A o \in Objects : o < coming => o < item[w] \/ o = item[w]
    BY <1>1, NextObject
  <2> QED
    BY <2>1, <2>2, <2>3, <2>4, <2>5
<1> HIDE DEF seen
<1>4. S3TypeOK'
  <2>1. readBack' \in [Uploaders -> [Objects -> Nat]]
    BY <1>2, <1>3
  <2>2. item' \in [Uploaders -> Objects]
    BY <1>2, <1>3
  <2> QED
    BY <2>1, <2>2
<1>5. /\ readBack'[w] = seen /\ item'[w] = coming
      /\ \A v \in Uploaders \ {w} : readBack'[v] = readBack[v] /\ item'[v] = item[v]
  BY <1>2
<1>6. SeenIsCurrent'
  <2>1. \A o \in Objects : seen[o] # Absent => seen[o] = bucket[o]
    BY <1>3 DEF UploadsAgree, SeenIsCurrent
  <2> QED
    BY <1>5, <2>1 DEF UploadsAgree, SeenIsCurrent
<1>7. Progress'
  <2> SUFFICES ASSUME NEW v \in Uploaders
               PROVE  /\ \A o \in Objects : o < item'[v] => readBack'[v][o] # Absent
                      /\ uploaderAt'[v] = "reading" => bucket[item'[v]] # Absent
                      /\ uploaderAt'[v] = "acked" => bucket[IndexItem] # Absent
    BY DEF Progress
  <2>1. CASE v = w
    <3>1. uploaderAt'[w] = IF item[w] = IndexItem THEN "acked" ELSE "putting"
      OBVIOUS
    <3>2. \A o \in Objects : o < coming => seen[o] # Absent
      BY <1>1, <1>3 DEF Progress
    <3> QED
      BY <1>1, <1>5, <2>1, <3>1, <3>2
  <2>2. CASE v # w
    BY <1>5, <2>2 DEF Progress
  <2> QED
    BY <2>1, <2>2
<1>8. IndexNamesEveryFile'
  BY DEF UploadsAgree, IndexNamesEveryFile
<1>9. RetryAgrees'
  BY <1>5 DEF UploadsAgree, RetryAgrees, ReadsBack, IndexBody
<1> QED
  BY <1>4, <1>6, <1>7, <1>8, <1>9 DEF UploadsAgree

LEMMA UploadStep ==
    ASSUME UploadInv, NEW w \in Uploaders, UploaderStep(w)
    PROVE  UploadInv'
<1>1. CASE PutItem(w)
  BY <1>1, StoringPut, PutFound DEF PutItem
<1>2. CASE PutFails(w)
  <2>1. CASE UNCHANGED bucketVars
    BY <1>2, <2>1
       DEF PutFails, UploadInv, S3TypeOK, Progress, UploadsAgree, SeenIsCurrent,
           IndexNamesEveryFile, RetryAgrees, ReadsBack, IndexBody
  <2>2. CASE bucket[item[w]] = Absent /\ PutStores(w)
    BY <1>2, <2>2, StoringPut DEF PutFails
  <2> QED
    BY <1>2, <2>1, <2>2 DEF PutFails
<1>3. CASE ReadItem(w)
  BY <1>3, ReadBackStep
<1>4. CASE ReadFails(w) \/ StopUpload(w)
  <2>1. \E from \in {"putting", "reading"} : UploaderMoves(w, from, "failed")
    BY <1>4 DEF ReadFails, StopUpload
  <2>2. UNCHANGED <<bucketVars, uploaderVars>>
    BY <1>4 DEF ReadFails, StopUpload
  <2> QED
    BY <2>1, <2>2
       DEF UploadInv, S3TypeOK, Progress, UploadsAgree, SeenIsCurrent, IndexNamesEveryFile,
           RetryAgrees, ReadsBack, IndexBody
<1>5. CASE RetryUpload(w)
  <2>1. S3TypeOK'
    <3>1. restarts' \in [Uploaders -> 0 .. MaxRestarts]
      BY <1>5, RestartAssumption DEF RetryUpload, UploadInv, S3TypeOK
    <3>2. item' \in [Uploaders -> Objects]
      BY <1>5, ItemAssumption DEF RetryUpload, UploadInv, S3TypeOK
    <3>3. readBack' \in [Uploaders -> [Objects -> Nat]]
      BY <1>5 DEF RetryUpload, UploadInv, S3TypeOK, NoVersions
    <3> QED
      BY <1>5, <3>1, <3>2, <3>3 DEF RetryUpload, UploadInv, S3TypeOK
  <2>2. Progress' /\ SeenIsCurrent'
    BY <1>5, ItemAssumption
       DEF RetryUpload, UploadInv, S3TypeOK, NoVersions, Progress, UploadsAgree, SeenIsCurrent
  <2>3. IndexNamesEveryFile' /\ RetryAgrees'
    BY <1>5
       DEF RetryUpload, UploadInv, S3TypeOK, UploadsAgree, IndexNamesEveryFile, RetryAgrees,
           ReadsBack, IndexBody
  <2> QED
    BY <2>1, <2>2, <2>3 DEF UploadInv, UploadsAgree
<1> QED
  BY <1>1, <1>2, <1>3, <1>4, <1>5 DEF UploaderStep

LEMMA UploadStutter == UploadInv /\ UNCHANGED s3Vars => UploadInv'
BY DEF UploadInv, S3TypeOK, Progress, UploadsAgree, SeenIsCurrent, IndexNamesEveryFile,
       RetryAgrees, ReadsBack, IndexBody

-----------------------------------------------------------------------------
\* The inductive invariant of S3EvidenceStore.persist.
THEOREM UploadInvariant == S3Spec => []UploadInv
<1>1. UploadInv /\ [S3Next]_s3Vars => UploadInv'
  BY UploadStep, UploadStutter DEF S3Next, UploadsDone
<1> QED
  BY <1>1, UploadInit, PTL DEF S3Spec

\* However many processes archive a bundle, and however often they are retried, they
\* end with one index that names the current version of every file.
THEOREM UploadsAlwaysAgree == S3Spec => []UploadsAgree
<1>1. UploadInv => UploadsAgree
  BY DEF UploadInv
<1> QED
  BY <1>1, UploadInvariant, PTL

-----------------------------------------------------------------------------
(* The refinement of EvidenceArchive. *)

\* The bundle is stored as soon as its index is.
LEMMA IndexMeansStored ==
    ASSUME UploadInv
    PROVE  (\A o \in Objects : bucket[o] # Absent) <=> bucket[IndexItem] # Absent
<1>1. IndexItem \in Objects /\ Objects = Items \cup {IndexItem}
  BY ItemAssumption
<1> QED
  BY <1>1 DEF UploadInv, UploadsAgree, IndexNamesEveryFile

LEMMA BucketStep ==
    ASSUME UploadInv, UploadInv', NEW w \in Uploaders, UploaderStep(w)
    PROVE  [BucketPromise!Next]_<<\A o \in Objects : bucket[o] # Absent,
                                  \E v \in Uploaders : uploaderAt[v] = "acked">>
<1> DEFINE stored == \A o \in Objects : bucket[o] # Absent
           acked  == \E v \in Uploaders : uploaderAt[v] = "acked"
<1>1. stored => stored'
  BY DEF UploaderStep, PutItem, PutFails, ReadItem, ReadFails, StopUpload, RetryUpload,
         PutStores, UploadInv, S3TypeOK
<1>2. acked => acked'
  BY DEF UploaderStep, PutItem, PutFails, ReadItem, ReadFails, StopUpload, RetryUpload,
         UploadInv, S3TypeOK
<1>3. acked' => stored'
  <2>1. Objects = Items \cup {IndexItem}
    BY ItemAssumption
  <2> QED
    BY <2>1 DEF UploadInv, Progress, UploadsAgree, IndexNamesEveryFile
<1>4. bucket' = bucket \/ (acked' => acked)
  <2>1. CASE PutItem(w)
    BY <2>1 DEF PutItem, UploadInv, S3TypeOK
  <2>2. CASE PutFails(w)
    BY <2>2 DEF PutFails, UploadInv, S3TypeOK
  <2>3. CASE ReadItem(w) \/ ReadFails(w) \/ StopUpload(w) \/ RetryUpload(w)
    BY <2>3 DEF ReadItem, ReadFails, StopUpload, RetryUpload
  <2> QED
    BY <2>1, <2>2, <2>3 DEF UploaderStep
<1>5. stored \in BOOLEAN /\ acked \in BOOLEAN /\ stored' \in BOOLEAN /\ acked' \in BOOLEAN
  OBVIOUS
<1>6. bucket' = bucket => stored' = stored
  OBVIOUS
<1> HIDE DEF stored, acked
<1>7. \/ stored' = stored /\ acked' = acked
      \/ stored' = TRUE /\ acked' = acked
      \/ stored = TRUE /\ acked' = TRUE /\ stored' = stored
  BY <1>1, <1>2, <1>3, <1>4, <1>5, <1>6
<1> QED
  BY <1>7 DEF stored, acked, BucketPromise!Next, BucketPromise!Store, BucketPromise!Acknowledge

LEMMA PromiseInit == S3Init => BucketPromise!Init
<1>1. IndexItem \in Objects
  BY ItemAssumption
<1> QED
  BY <1>1 DEF S3Init, NoVersions, BucketPromise!Init

\* The uploads of a bundle implement the archive: nothing is acknowledged that is not
\* stored whole, whatever requests fail and whichever process stops.
THEOREM UploadsImplementArchive == S3Spec => BucketImplementsArchive
<1>1. UploadInv /\ UploadInv' /\ [S3Next]_s3Vars => [BucketPromise!Next]_(BucketPromise!archiveVars)
  BY BucketStep DEF S3Next, UploadsDone, BucketPromise!archiveVars
<1> QED
  BY <1>1, PromiseInit, UploadInvariant, PTL DEF S3Spec, BucketImplementsArchive, BucketPromise!Spec

HIDE DEF s3Vars, uploaderVars, bucketVars, UploaderMoves, Absent, Items, IndexItem, Objects, Bodies

-----------------------------------------------------------------------------
(***************************************************************************)
(* Proofs about EvidencePackage, for any number of package commands,       *)
(* sources and changes of the directories.                                 *)
(*                                                                         *)
(* What a replay loads is what was summarised because three things hold    *)
(* on the way: a closed archive is as long as its summary and neither      *)
(* changes any more (ClosedInv), the destination stems from a closed       *)
(* archive (OriginInv), and it has been compared with its summary since    *)
(* it could last be changed (ReplayInv).                                   *)
(***************************************************************************)

USE DEF packVars, consumeVars, packageVars, PackagerMoves, ConsumerMoves, Required

\* How far a packager's summary is at each step.
SummaryInv ==
    \A p \in Packagers :
        /\ packagerAt[p] \in {"starting", "summing"} => Len(summary[p]) < RequiredCount
        /\ packagerAt[p] = "validating" => Len(summary[p]) \in Required
        /\ packagerAt[p] \in {"opening", "writing", "verifying"} =>
             Len(summary[p]) = RequiredCount

ClosedInv ==
    \A p \in closed :
        /\ packagerAt[p] \in {"verifying", "returned", "failed", "killed"}
        /\ Len(summary[p]) = RequiredCount
        /\ Len(archive[p]) = RequiredCount

OriginInv ==
    /\ consumerAt # "idle" => origin \in closed
    /\ consumerAt = "idle" => extracted = <<>>
    /\ consumerAt \in {"idle", "extracting"} => loaded = <<>>

ReplayInv ==
    /\ consumerAt \in {"replaying", "done"} \/ loaded # <<>> => extracted = summary[origin]
    /\ Len(loaded) <= Len(extracted)
    /\ \A s \in 1 .. Len(loaded) : loaded[s] = extracted[s] /\ loaded[s] \in Readable
    /\ consumerAt = "done" => Len(loaded) = Len(extracted)

HandOverInv == PackageTypeOK /\ SummaryInv /\ ClosedInv /\ OriginInv /\ ReplayInv

-----------------------------------------------------------------------------
LEMMA HandOverInit == PackageInit => HandOverInv
<1> SUFFICES ASSUME PackageInit PROVE HandOverInv
  OBVIOUS
<1> USE DEF PackageInit
<1>1. <<>> \in Seq(Evidence) /\ Len(<<>>) = 0
  OBVIOUS
<1>2. PackageTypeOK
  <2>1. edits \in 0 .. MaxEdits
    BY EditsAssumption
  <2>2. directory \in [Required -> Evidence]
    BY EvidenceAssumption
  <2> QED
    BY <1>1, <2>1, <2>2 DEF PackageTypeOK
<1>3. SummaryInv
  <2>1. \A p \in Packagers : summary[p] = <<>> /\ packagerAt[p] = "starting"
    OBVIOUS
  <2>2. Len(<<>>) < RequiredCount
    BY <1>1, EditsAssumption
  <2> QED
    BY <2>1, <2>2 DEF SummaryInv
<1>4. ClosedInv /\ OriginInv
  BY DEF ClosedInv, OriginInv
<1>5. ReplayInv
  <2>1. Len(loaded) = 0 /\ Len(extracted) = 0 /\ loaded = <<>> /\ consumerAt = "idle"
    BY <1>1
  <2> QED
    BY <2>1 DEF ReplayInv
<1> QED
  BY <1>2, <1>3, <1>4, <1>5 DEF HandOverInv

-----------------------------------------------------------------------------
(* The package commands. *)

LEMMA PackagerTypes ==
    ASSUME HandOverInv, NEW p \in Packagers, PackagerStep(p)
    PROVE  PackageTypeOK'
<1> USE DEF HandOverInv, PackageTypeOK
<1>1. CASE Summarise(p)
  <2>1. Len(summary[p]) + 1 \in Required
    BY <1>1, EditsAssumption DEF Summarise, SummaryInv
  <2>2. Append(summary[p], directory[Len(summary[p]) + 1]) \in Seq(Evidence)
    BY <2>1
  <2> QED
    BY <1>1, <2>2 DEF Summarise
<1>2. CASE AddSource(p)
  <2>1. Len(archive[p]) + 1 \in Required
    BY <1>2, EditsAssumption DEF AddSource
  <2>2. Append(archive[p], directory[Len(archive[p]) + 1]) \in Seq(Evidence)
    BY <2>1
  <2> QED
    BY <1>2, <2>2 DEF AddSource
<1>3. CASE StartPackage(p) \/ Validate(p) \/ ValidateFails(p)
  BY <1>3 DEF StartPackage, Validate, ValidateFails
<1>4. CASE OpenOutput(p) \/ CloseArchive(p) \/ VerifyArchive(p)
  BY <1>4 DEF OpenOutput, CloseArchive, VerifyArchive
<1>5. CASE PackageFails(p) \/ KillPackager(p)
  BY <1>5 DEF PackageFails, KillPackager
<1> QED
  BY <1>1, <1>2, <1>3, <1>4, <1>5 DEF PackagerStep

\* What a step of one command may do: it extends its own summary or archive, each
\* only before its archive is closed.
LEMMA PackagerSummary ==
    ASSUME HandOverInv, NEW p \in Packagers, PackagerStep(p)
    PROVE  SummaryInv' /\ ClosedInv'
<1> USE DEF HandOverInv, PackageTypeOK, SummaryInv, ClosedInv
<1>1. CASE Summarise(p)
  <2>1. Len(summary[p]) + 1 \in Required
    BY <1>1, EditsAssumption DEF Summarise
  <2>2. Len(Append(summary[p], directory[Len(summary[p]) + 1])) = Len(summary[p]) + 1
    BY <2>1
  <2>3. summary' = [summary EXCEPT ![p] = Append(summary[p], directory[Len(summary[p]) + 1])]
    BY <1>1 DEF Summarise
  <2>4. Len(summary'[p]) \in Required /\ \A q \in Packagers \ {p} : summary'[q] = summary[q]
    BY <2>1, <2>2, <2>3
  <2>5. packagerAt[p] = "summing" /\ packagerAt' = [packagerAt EXCEPT ![p] = "validating"]
        /\ closed' = closed /\ archive' = archive
    BY <1>1 DEF Summarise
  <2>6. p \notin closed
    BY <2>5
  <2> QED
    BY <2>4, <2>5, <2>6
<1>2. CASE AddSource(p)
  <2>1. /\ packagerAt[p] = "writing" /\ packagerAt' = packagerAt
        /\ summary' = summary /\ closed' = closed
    BY <1>2 DEF AddSource
  <2>2. \A q \in Packagers \ {p} : archive'[q] = archive[q]
    BY <1>2 DEF AddSource
  <2>3. p \notin closed
    BY <2>1
  <2> QED
    BY <2>1, <2>2, <2>3
<1>3. CASE Validate(p)
  <2>1. /\ Len(summary[p]) \in Required
        /\ Len(summary[p]) = RequiredCount \/ Len(summary[p]) < RequiredCount
    BY <1>3, EditsAssumption DEF Validate
  <2> QED
    BY <1>3, <2>1 DEF Validate
<1>4. CASE StartPackage(p) \/ ValidateFails(p)
  BY <1>4 DEF StartPackage, ValidateFails
<1>5. CASE OpenOutput(p) \/ CloseArchive(p) \/ VerifyArchive(p)
  BY <1>5 DEF OpenOutput, CloseArchive, VerifyArchive
<1>6. CASE PackageFails(p) \/ KillPackager(p)
  BY <1>6 DEF PackageFails, KillPackager
<1> QED
  BY <1>1, <1>2, <1>3, <1>4, <1>5, <1>6 DEF PackagerStep

LEMMA PackagerReplay ==
    ASSUME HandOverInv, NEW p \in Packagers, PackagerStep(p)
    PROVE  OriginInv' /\ ReplayInv'
<1> USE DEF HandOverInv, PackageTypeOK
<1>1. UNCHANGED consumeVars
  BY DEF PackagerStep, StartPackage, Summarise, Validate, ValidateFails, OpenOutput, AddSource,
         CloseArchive, VerifyArchive, PackageFails, KillPackager
<1>2. closed \subseteq closed'
  BY DEF PackagerStep, StartPackage, Summarise, Validate, ValidateFails, OpenOutput, AddSource,
         CloseArchive, VerifyArchive, PackageFails, KillPackager
<1>3. \A q \in closed : summary'[q] = summary[q]
  <2>1. CASE Summarise(p)
    BY <2>1 DEF Summarise, ClosedInv
  <2> QED
    BY <2>1 DEF PackagerStep, StartPackage, Validate, ValidateFails, OpenOutput, AddSource,
                CloseArchive, VerifyArchive, PackageFails, KillPackager
<1>4. OriginInv'
  BY <1>1, <1>2 DEF OriginInv
<1>5. ReplayInv'
  <2>1. consumerAt \in {"replaying", "done"} \/ loaded # <<>> => origin \in closed
    BY DEF OriginInv
  <2> QED
    BY <1>1, <1>3, <2>1 DEF ReplayInv
<1> QED
  BY <1>4, <1>5

-----------------------------------------------------------------------------
(* The consumer, and changes behind everybody's back. *)

LEMMA ConsumerKeeps ==
    ASSUME HandOverInv, UNCHANGED packVars
    PROVE  SummaryInv' /\ ClosedInv'
BY DEF HandOverInv, SummaryInv, ClosedInv

LEMMA ExtractPart ==
    ASSUME HandOverInv, StartExtract \/ ExtractSource \/ EndExtract \/ ExtractFails \/ KillConsumer
    PROVE  HandOverInv'
<1> USE DEF HandOverInv, PackageTypeOK
<1>1. CASE ExtractSource
  <2>1. /\ origin \in closed /\ Len(archive[origin]) = RequiredCount
        /\ archive[origin] \in Seq(Evidence)
    BY <1>1 DEF ExtractSource, OriginInv, ClosedInv
  <2>2. Len(extracted) + 1 \in 1 .. Len(archive[origin])
    BY <1>1, <2>1, EditsAssumption DEF ExtractSource
  <2>3. extracted' \in Seq(Evidence) /\ Len(extracted') = Len(extracted) + 1
    BY <1>1, <2>1, <2>2 DEF ExtractSource
  <2>4. loaded = <<>> /\ loaded' = <<>> /\ consumerAt = "extracting" /\ consumerAt' = "extracting"
    BY <1>1 DEF ExtractSource, OriginInv
  <2>5. OriginInv'
    BY <1>1, <2>3, <2>4 DEF ExtractSource, OriginInv
  <2>6. ReplayInv'
    <3>1. Len(loaded') = 0 /\ Len(extracted') >= 0
      BY <2>3, <2>4
    <3> QED
      BY <2>4, <3>1 DEF ReplayInv
  <2> QED
    BY <1>1, <2>3, <2>5, <2>6, ConsumerKeeps DEF ExtractSource
<1>2. CASE StartExtract \/ EndExtract \/ ExtractFails \/ KillConsumer
  <2>1. UNCHANGED packVars
    BY <1>2 DEF StartExtract, EndExtract, ExtractFails, KillConsumer
  <2>2. PackageTypeOK'
    <3>1. CASE StartExtract
      <4>1. output \in Packagers
        BY <1>2, <3>1 DEF StartExtract
      <4> QED
        BY <3>1, <4>1 DEF StartExtract
    <3>2. CASE EndExtract \/ KillConsumer
      BY <3>2 DEF EndExtract, KillConsumer
    <3>3. CASE ExtractFails
      <4>1. <<>> \in Seq(Evidence)
        OBVIOUS
      <4> QED
        BY <3>3, <4>1 DEF ExtractFails
    <3> QED
      BY <1>2, <3>1, <3>2, <3>3
  <2>3. OriginInv' /\ ReplayInv'
    BY <1>2 DEF StartExtract, EndExtract, ExtractFails, KillConsumer, OriginInv, ReplayInv
  <2> QED
    BY <2>1, <2>2, <2>3, ConsumerKeeps
<1> QED
  BY <1>1, <1>2

LEMMA ReplayPart ==
    ASSUME HandOverInv, StartReplay \/ LoadSource \/ EndReplay \/ ReplayFails
    PROVE  HandOverInv'
<1> USE DEF HandOverInv, PackageTypeOK
<1>1. CASE LoadSource
  <2>1. Len(loaded) + 1 \in 1 .. Len(extracted)
    BY <1>1 DEF LoadSource
  <2>2. extracted[Len(loaded) + 1] \in Evidence
    BY <2>1
  <2>3. loaded' = Append(loaded, extracted[Len(loaded) + 1])
    BY <1>1 DEF LoadSource
  <2>4. loaded' \in Seq(Evidence) /\ Len(loaded') = Len(loaded) + 1
    BY <2>2, <2>3
  <2>5. \A s \in 1 .. Len(loaded') : loaded'[s] = extracted[s] /\ loaded'[s] \in Readable
    BY <1>1, <2>2, <2>3, <2>4 DEF LoadSource, ReplayInv
  <2>6. OriginInv' /\ ReplayInv'
    BY <1>1, <2>1, <2>4, <2>5 DEF LoadSource, OriginInv, ReplayInv
  <2> QED
    BY <1>1, <2>4, <2>6, ConsumerKeeps DEF LoadSource
<1>2. CASE StartReplay \/ EndReplay \/ ReplayFails
  <2>1. UNCHANGED packVars
    BY <1>2 DEF StartReplay, EndReplay, ReplayFails
  <2>2. PackageTypeOK'
    BY <1>2 DEF StartReplay, EndReplay, ReplayFails
  <2>3. OriginInv' /\ ReplayInv'
    BY <1>2 DEF StartReplay, EndReplay, ReplayFails, OriginInv, ReplayInv, Matches
  <2> QED
    BY <2>1, <2>2, <2>3, ConsumerKeeps
<1> QED
  BY <1>1, <1>2

LEMMA EditPart ==
    ASSUME HandOverInv, Edit
    PROVE  HandOverInv'
<1> USE DEF HandOverInv, PackageTypeOK
<1>1. edits' \in 0 .. MaxEdits
  BY EditsAssumption DEF Edit
<1>2. PICK s \in Required, e \in Evidence :
        \/ /\ directory' = [directory EXCEPT ![s] = e]
           /\ UNCHANGED extracted
        \/ /\ consumerAt \in {"ready", "killed"} /\ s <= Len(extracted) /\ loaded = <<>>
           /\ extracted' = [extracted EXCEPT ![s] = e]
           /\ UNCHANGED directory
  BY DEF Edit
<1>3. UNCHANGED <<packVars, consumerAt, origin, loaded>>
  BY DEF Edit
<1>4. CASE extracted' = extracted /\ directory' = [directory EXCEPT ![s] = e]
  <2>1. PackageTypeOK'
    BY <1>1, <1>3, <1>4
  <2>2. OriginInv' /\ ReplayInv'
    BY <1>3, <1>4 DEF OriginInv, ReplayInv
  <2> QED
    BY <1>3, <2>1, <2>2, ConsumerKeeps
<1>5. CASE /\ consumerAt \in {"ready", "killed"} /\ s <= Len(extracted) /\ loaded = <<>>
           /\ extracted' = [extracted EXCEPT ![s] = e]
           /\ UNCHANGED directory
  <2>1. s \in 1 .. Len(extracted)
    BY <1>5
  <2>2. extracted' \in Seq(Evidence) /\ Len(extracted') = Len(extracted)
    BY <1>5, <2>1, ExceptSeq
  <2>3. OriginInv' /\ ReplayInv'
    BY <1>3, <1>5, <2>2 DEF OriginInv, ReplayInv
  <2> QED
    BY <1>1, <1>3, <1>5, <2>2, <2>3, ConsumerKeeps
<1> QED
  BY <1>2, <1>4, <1>5

LEMMA HandOverStutter == HandOverInv /\ UNCHANGED packageVars => HandOverInv'
BY DEF HandOverInv, PackageTypeOK, SummaryInv, ClosedInv, OriginInv, ReplayInv

LEMMA HandOverStep == HandOverInv /\ [PackageNext]_packageVars => HandOverInv'
<1> SUFFICES ASSUME HandOverInv, [PackageNext]_packageVars PROVE HandOverInv'
  OBVIOUS
<1>1. ASSUME NEW p \in Packagers, PackagerStep(p) PROVE HandOverInv'
  BY <1>1, PackagerTypes, PackagerSummary, PackagerReplay DEF HandOverInv
<1>2. CASE ConsumerStep
  BY <1>2, ExtractPart, ReplayPart DEF ConsumerStep
<1>3. CASE Edit
  BY <1>3, EditPart
<1>4. CASE UNCHANGED packageVars
  BY <1>4, HandOverStutter
<1> QED
  BY <1>1, <1>2, <1>3, <1>4 DEF PackageNext

-----------------------------------------------------------------------------
\* The inductive invariant of the hand-over from package to replay.
THEOREM HandOverInvariant == PackageSpec => []HandOverInv
BY HandOverInit, HandOverStep, PTL DEF PackageSpec

\* The static build never loads anything but what one package command has summarised,
\* and never ends with less than all of it.
THEOREM ReplayAlwaysPackaged == PackageSpec => []ReplayIsPackaged
<1>1. HandOverInv => ReplayIsPackaged
  <2> SUFFICES ASSUME HandOverInv PROVE ReplayIsPackaged
    OBVIOUS
  <2> USE DEF HandOverInv, PackageTypeOK
  <2>1. ASSUME NEW s \in 1 .. Len(loaded)
        PROVE  loaded[s] = summary[origin][s] /\ loaded[s] \in Readable
    <3>1. loaded # <<>>
      BY <2>1
    <3> QED
      BY <3>1, <2>1 DEF ReplayInv
  <2>2. consumerAt = "done" => Len(loaded) = RequiredCount
    BY DEF ReplayInv, OriginInv, ClosedInv
  <2> QED
    BY <2>1, <2>2 DEF ReplayIsPackaged
<1> QED
  BY <1>1, HandOverInvariant, PTL
=============================================================================
