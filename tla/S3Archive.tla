------------------------------ MODULE S3Archive -------------------------------
(***************************************************************************)
(* S3EvidenceStore.persist (evidence.py) for one bundle in a versioned     *)
(* bucket: every file, then an index that names the version of each file,  *)
(* each with a conditional put and a read-back.  Several processes may     *)
(* archive the bundle, a put may take effect although its answer is lost,  *)
(* and each process may stop after any request and be started again.       *)
(***************************************************************************)
EXTENDS Integers, FiniteSets

CONSTANTS
    Uploaders,  \* processes that persist the bundle
    ItemCount,  \* its files are 1 .. ItemCount, in the order of the inventory
    MaxRestarts \* bound on the retries of one writer

ASSUME ItemAssumption == ItemCount \in Nat \ {0}

ASSUME RestartAssumption == MaxRestarts \in Nat

Items     == 1 .. ItemCount
IndexItem == ItemCount + 1
Objects   == 1 .. IndexItem

\* No object, no version read yet.
Absent == 0

\* An index body: the version it names for each file.
Bodies == [Items -> Nat]

VARIABLES
    bucket,     \* the current version of each object, if there is one
    body,       \* what the current version of the index says
    nextId,     \* the version identity the bucket gives next
    uploaderAt, \* where persist of each writer is
    item,       \* the object a writer is at
    readBack,   \* the version it has read back for each object
    restarts    \* how often it has been started again

s3Vars == <<bucket, body, nextId, uploaderAt, item, readBack, restarts>>

uploaderVars == <<item, readBack, restarts>>
bucketVars   == <<bucket, body, nextId>>

NoVersions == [o \in Objects |-> Absent]

S3TypeOK ==
    /\ bucket \in [Objects -> Nat]
    /\ body \in Bodies
    /\ nextId \in Nat \ {0}
    /\ uploaderAt \in [Uploaders -> {"putting", "reading", "acked", "failed"}]
    /\ item \in [Uploaders -> Objects]
    /\ readBack \in [Uploaders -> [Objects -> Nat]]
    /\ restarts \in [Uploaders -> 0 .. MaxRestarts]

S3Init ==
    /\ bucket = NoVersions
    /\ body = [f \in Items |-> Absent]
    /\ nextId = 1
    /\ uploaderAt = [w \in Uploaders |-> "putting"]
    /\ item = [w \in Uploaders |-> 1]
    /\ readBack = [w \in Uploaders |-> NoVersions]
    /\ restarts = [w \in Uploaders |-> 0]

UploaderMoves(w, from, to) ==
    /\ uploaderAt[w] = from
    /\ uploaderAt' = [uploaderAt EXCEPT ![w] = to]

\* The index body a writer would put: the versions it has read back.
IndexBody(w) == [f \in Items |-> readBack[w][f]]

PutStores(w) ==
    /\ bucket' = [bucket EXCEPT ![item[w]] = nextId]
    /\ body' = IF item[w] = IndexItem THEN IndexBody(w) ELSE body
    /\ nextId' = nextId + 1

\* put_object with If-None-Match: a new version, or 412 for an object that exists.
PutItem(w) ==
    /\ UploaderMoves(w, "putting", "reading")
    /\ IF bucket[item[w]] = Absent THEN PutStores(w) ELSE UNCHANGED bucketVars
    /\ UNCHANGED uploaderVars

\* Another error than 412; the object may have been stored all the same.
PutFails(w) ==
    /\ UploaderMoves(w, "putting", "failed")
    /\ \/ UNCHANGED bucketVars
       \/ bucket[item[w]] = Absent /\ PutStores(w)
    /\ UNCHANGED uploaderVars

\* The body that comes back is the one that was to be put: for a file its content
\* address says so, for the index the versions in it.
ReadsBack(w) == item[w] = IndexItem => body = IndexBody(w)

\* Fault: the last file is followed by the end of persist, the index is forgotten.
ReadWithoutIndex(w) ==
    /\ UploaderMoves(w, "reading", IF item[w] >= ItemCount THEN "acked" ELSE "putting")
    /\ readBack' = [readBack EXCEPT ![w][item[w]] = bucket[item[w]]]
    /\ item' = [item EXCEPT ![w] = IF @ = IndexItem THEN @ ELSE @ + 1]
    /\ UNCHANGED <<bucketVars, restarts>>

\* get_object, checksum, version identity; then the next object, or the end.
ReadItem(w) ==
    /\ ReadsBack(w)
    /\ UploaderMoves(w, "reading", IF item[w] = IndexItem THEN "acked" ELSE "putting")
    /\ readBack' = [readBack EXCEPT ![w][item[w]] = bucket[item[w]]]
    /\ item' = [item EXCEPT ![w] = IF @ = IndexItem THEN @ ELSE @ + 1]
    /\ UNCHANGED <<bucketVars, restarts>>

\* The request fails, or what comes back is something else.
ReadFails(w) ==
    /\ UploaderMoves(w, "reading", "failed")
    /\ UNCHANGED <<bucketVars, uploaderVars>>

\* A signal or SIGKILL between two requests.
StopUpload(w) ==
    /\ UploaderMoves(w, "putting", "failed")
    /\ UNCHANGED <<bucketVars, uploaderVars>>

\* Fault: a retry goes on where the last attempt has failed.
RetryFromItem(w) ==
    /\ restarts[w] < MaxRestarts
    /\ UploaderMoves(w, "failed", "putting")
    /\ restarts' = [restarts EXCEPT ![w] = @ + 1]
    /\ readBack' = [readBack EXCEPT ![w] = NoVersions]
    /\ UNCHANGED <<bucketVars, item>>

\* The operator retries the evidence directory: persist from its beginning.
RetryUpload(w) ==
    /\ restarts[w] < MaxRestarts
    /\ UploaderMoves(w, "failed", "putting")
    /\ restarts' = [restarts EXCEPT ![w] = @ + 1]
    /\ item' = [item EXCEPT ![w] = 1]
    /\ readBack' = [readBack EXCEPT ![w] = NoVersions]
    /\ UNCHANGED bucketVars

UploadsDone ==
    /\ \A w \in Uploaders :
         \/ uploaderAt[w] = "acked"
         \/ uploaderAt[w] = "failed" /\ restarts[w] = MaxRestarts
    /\ UNCHANGED s3Vars

UploaderStep(w) ==
    PutItem(w) \/ PutFails(w) \/ ReadItem(w) \/ ReadFails(w) \/ StopUpload(w) \/ RetryUpload(w)

S3Next == (\E w \in Uploaders : UploaderStep(w)) \/ UploadsDone

S3Spec == S3Init /\ [][S3Next]_s3Vars

-----------------------------------------------------------------------------
(* Safety. *)

\* Every version a writer has read back is still the current one, although other
\* writers put the same objects.
SeenIsCurrent ==
    \A w \in Uploaders, o \in Objects : readBack[w][o] # Absent => readBack[w][o] = bucket[o]

\* The index is written last and names what is there: whoever finds an index can
\* restore every file of the bundle from the versions in it.
IndexNamesEveryFile ==
    bucket[IndexItem] # Absent => \A f \in Items : body[f] # Absent /\ body[f] = bucket[f]

\* A complete index never refuses a later writer: a read-back fails only when the
\* request itself does, so a retry ends with the identity of the first.
RetryAgrees == \A w \in Uploaders : uploaderAt[w] = "reading" => ReadsBack(w)

\* Uploads of the same bundle never get in each other's way: versions are written
\* once, an index names all of them, and no later writer is refused.
UploadsAgree == SeenIsCurrent /\ IndexNamesEveryFile /\ RetryAgrees

\* The bucket keeps the promise of EvidenceArchive: whole or not stored, acknowledged
\* only when stored.
BucketPromise == INSTANCE EvidenceArchive WITH
              stored       <- \A o \in Objects : bucket[o] # Absent,
              acknowledged <- \E w \in Uploaders : uploaderAt[w] = "acked"

BucketImplementsArchive == BucketPromise!Spec
=============================================================================
