-------------------------- MODULE NationalPublication --------------------------
(***************************************************************************)
(* Publication of the national products (db/phase15_ingestion.py:          *)
(* load_snapshot) and what readers are served (db/phase15.py: dataset).    *)
(*                                                                         *)
(* Jobs of several sources load validated bundles, in any order, under one *)
(* transaction lock.  Content is stored once for each source and content   *)
(* hash; every accepted check adds a retrieval, and the newest retrieval   *)
(* says which content is served.  A job may fail at any step, and may lose *)
(* the answer to its COMMIT; several jobs may load the same bundle.        *)
(***************************************************************************)
EXTENDS Integers, FiniteSets

CONSTANTS
    JobCount,   \* loads, each of one bundle
    Sources,    \* the source keys that share the lock
    Contents,   \* content hashes
    MaxTime,    \* bundles were completed at 1 .. MaxTime
    MaxDamages  \* bound on rows changed behind the program's back

ASSUME CountAssumption ==
    /\ JobCount \in Nat
    /\ MaxTime \in Nat
    /\ MaxDamages \in Nat

Jobs  == 1 .. JobCount
NoJob == 0

Bundles == [source : Sources, content : Contents, completed : 1 .. MaxTime]

\* Rows get the identity of the job that inserts them.
Snapshots  == [id : Jobs, source : Sources, content : Contents]
Retrievals == [id : Jobs, snapshot : Jobs, completed : 1 .. MaxTime]

VARIABLES
    bundle,     \* what read_bundle has returned to each job
    pc,         \* where load_snapshot of each job is
    lock,       \* the job that holds the transaction lock, or NoJob
    identity,   \* the snapshot a job publishes, NoJob while it is not known
    snapshots,  \* committed rows of national_source_snapshot, with their entities
    retrievals, \* committed rows of national_source_retrieval
    draft,      \* the retrieval a job's open transaction has inserted
    damaged,    \* snapshots whose entities are no longer those of their content
    miscounted  \* snapshots whose counts are no longer those of their content

vars == <<bundle, pc, lock, identity, snapshots, retrievals, draft, damaged, miscounted>>

storeVars  == <<snapshots, retrievals>>
damageVars == <<damaged, miscounted>>

\* The steps of the open transaction, after the lock is granted.
InTx == {"looking", "inserting", "recording", "counting"}

TypeOK ==
    /\ bundle \in [Jobs -> Bundles]
    /\ pc \in [Jobs -> InTx \cup {"waiting", "published", "failed"}]
    /\ lock \in Jobs \cup {NoJob}
    /\ identity \in [Jobs -> Jobs \cup {NoJob}]
    /\ snapshots \subseteq Snapshots
    /\ retrievals \subseteq Retrievals
    /\ draft \in [Jobs -> SUBSET Retrievals]
    /\ damaged \subseteq Jobs
    /\ miscounted \subseteq Jobs

Init ==
    /\ bundle \in [Jobs -> Bundles]
    /\ pc = [j \in Jobs |-> "waiting"]
    /\ lock = NoJob
    /\ identity = [j \in Jobs |-> NoJob]
    /\ snapshots = {}
    /\ retrievals = {}
    /\ draft = [j \in Jobs |-> {}]
    /\ damaged = {}
    /\ miscounted = {}

Moves(j, from, to) ==
    /\ pc[j] = from
    /\ pc' = [pc EXCEPT ![j] = to]

\* Committed snapshots of a job's source and content hash.
Stored(j) == {s \in snapshots : s.source = bundle[j].source /\ s.content = bundle[j].content}

\* Fault: loads do not wait for each other.
TakeLockShared(j) ==
    /\ Moves(j, "waiting", "looking")
    /\ lock' = j
    /\ UNCHANGED <<bundle, identity, storeVars, draft, damageVars>>

\* BEGIN; pg_advisory_xact_lock(1464296783, 15)
TakeLock(j) ==
    /\ lock = NoJob
    /\ Moves(j, "waiting", "looking")
    /\ lock' = j
    /\ UNCHANGED <<bundle, identity, storeVars, draft, damageVars>>

FindStored(j) ==
    /\ \E s \in Stored(j) :
         /\ Moves(j, "looking", "recording")
         /\ identity' = [identity EXCEPT ![j] = s.id]
    /\ UNCHANGED <<bundle, lock, storeVars, draft, damageVars>>

FindNone(j) ==
    /\ Stored(j) = {}
    /\ Moves(j, "looking", "inserting")
    /\ UNCHANGED <<bundle, lock, identity, storeVars, draft, damageVars>>

\* INSERT INTO national_source_snapshot and its entities; a row of the same key
\* would be refused.
InsertSnapshot(j) ==
    /\ Stored(j) = {}
    /\ Moves(j, "inserting", "recording")
    /\ identity' = [identity EXCEPT ![j] = j]
    /\ UNCHANGED <<bundle, lock, storeVars, draft, damageVars>>

Retrieval(j) == [id |-> j, snapshot |-> identity[j], completed |-> bundle[j].completed]

\* Fault: a check that finds its content stored leaves no retrieval.
RecordRetrievalOfNew(j) ==
    /\ Moves(j, "recording", "counting")
    /\ draft' = [draft EXCEPT ![j] = IF identity[j] = j THEN {Retrieval(j)} ELSE {}]
    /\ UNCHANGED <<bundle, lock, identity, storeVars, damageVars>>

RecordRetrieval(j) ==
    /\ Moves(j, "recording", "counting")
    /\ draft' = [draft EXCEPT ![j] = {Retrieval(j)}]
    /\ UNCHANGED <<bundle, lock, identity, storeVars, damageVars>>

\* What COMMIT makes visible: the job's own snapshot, if it has inserted one, and
\* its retrieval.
ServerCommits(j) ==
    /\ snapshots' = snapshots \cup
         {s \in {[id |-> j, source |-> bundle[j].source, content |-> bundle[j].content]} :
            identity[j] = j}
    /\ retrievals' = retrievals \cup draft[j]
    /\ draft' = [draft EXCEPT ![j] = {}]
    /\ lock' = NoJob

\* The stored counts are those of the product, and COMMIT is answered.
Commit(j) ==
    /\ Moves(j, "counting", "published")
    /\ identity[j] \notin miscounted
    /\ ServerCommits(j)
    /\ UNCHANGED <<bundle, identity, damageVars>>

\* COMMIT takes effect and its answer is lost: load_snapshot raises.
CommitUnanswered(j) ==
    /\ Moves(j, "counting", "failed")
    /\ identity[j] \notin miscounted
    /\ ServerCommits(j)
    /\ UNCHANGED <<bundle, identity, damageVars>>

\* An error, a signal or a kill: the server rolls back and frees the lock.
Fail(j) ==
    /\ pc[j] \in InTx \cup {"waiting"}
    /\ pc' = [pc EXCEPT ![j] = "failed"]
    /\ lock' = IF pc[j] = "waiting" THEN lock ELSE NoJob
    /\ draft' = [draft EXCEPT ![j] = {}]
    /\ UNCHANGED <<bundle, identity, storeVars, damageVars>>

\* The administrator changes entities, or counts, of a stored snapshot, between loads.
Damage ==
    /\ lock = NoJob
    /\ Cardinality(damaged) + Cardinality(miscounted) < MaxDamages
    /\ \E s \in snapshots :
         \/ damaged' = damaged \cup {s.id} /\ UNCHANGED miscounted
         \/ miscounted' = miscounted \cup {s.id} /\ UNCHANGED damaged
    /\ UNCHANGED <<bundle, pc, lock, identity, storeVars, draft>>

Done ==
    /\ \A j \in Jobs : pc[j] \in {"published", "failed"}
    /\ UNCHANGED vars

JobStep(j) ==
    \/ TakeLock(j) \/ FindStored(j) \/ FindNone(j) \/ InsertSnapshot(j) \/ RecordRetrieval(j)
    \/ Commit(j) \/ CommitUnanswered(j) \/ Fail(j)

Next == (\E j \in Jobs : JobStep(j)) \/ Damage \/ Done

Spec == Init /\ [][Next]_vars

-----------------------------------------------------------------------------
(* What a reader without a snapshot identity is served: Phase15Queries.dataset *)

\* JOIN national_source_snapshot s ON r.snapshot_id = s.id, for one source key
Checks(source) ==
    {c \in retrievals \X snapshots : c[1].snapshot = c[2].id /\ c[2].source = source}

\* Fault: the row inserted last is served.
InsertedLater(r, q) == r.id > q.id

\* ORDER BY r.retrieval_completed_at DESC, r.id DESC
Newer(r, q) ==
    \/ r.completed > q.completed
    \/ r.completed = q.completed /\ r.id > q.id

\* LIMIT 1
Served(source) ==
    {c \in Checks(source) : \A d \in Checks(source) : d = c \/ Newer(c[1], d[1])}

-----------------------------------------------------------------------------
(* Safety. *)

\* Once a job has reported its check as published, readers of its source are served
\* that check or a newer one, with the content that the newest check has seen, also
\* when the content was stored long before (phase15_ingestion.py, the retrieval row
\* inserted for existing content; ADR 0015).
PublishedIsServed ==
    \A j \in Jobs : pc[j] = "published" =>
        \E c \in Served(bundle[j].source), k \in Jobs :
            /\ c[1].completed >= bundle[j].completed
            /\ c[1].completed = bundle[k].completed
            /\ c[2].source = bundle[k].source /\ c[2].content = bundle[k].content

\* dataset joins snapshots and retrievals, so a snapshot without a retrieval could
\* never be read and a retrieval of nothing would hide its check.
NothingDangles ==
    /\ \A s \in snapshots : \E r \in retrievals : r.snapshot = s.id
    /\ \A r \in retrievals : \E s \in snapshots :
         /\ s.id = r.snapshot
         /\ s.source = bundle[r.id].source /\ s.content = bundle[r.id].content

\* What the look-up has said is still true when the snapshot is inserted: a job never
\* fails because another one has stored the same content since.
InsertFindsNoTwin == \A j \in Jobs : pc[j] = "inserting" => Stored(j) = {}

\* A publication that was reported is one that readers are served, or its successor;
\* and it is whole, with one snapshot of each content, however many jobs publish.
PublicationStands == PublishedIsServed /\ NothingDangles /\ InsertFindsNoTwin

\* "Existing snapshot retries verify stored content rather than trusting an identity
\* match" (docs/guides/source-operations.md, lines 112-113).
ExistingIsVerified ==
    [][\A j \in Jobs :
         pc[j] # "published" /\ pc'[j] = "published" /\ identity[j] # j =>
             identity[j] \notin damaged]_vars

-----------------------------------------------------------------------------
(* The inductive invariant, of which the safety properties follow.  DatabaseProofs     *)
(* proves both.                                                                        *)

\* One transaction is open, and it belongs to the owner of the lock.
LockInv == \A j \in Jobs : pc[j] \in InTx <=> lock = j

\* What a job knows of its snapshot, and what its transaction has written.
Knows(j) ==
    /\ pc[j] \in {"waiting", "looking", "inserting"} => identity[j] = NoJob
    /\ pc[j] = "inserting" => Stored(j) = {}
    /\ pc[j] \in {"recording", "counting"} =>
          IF identity[j] = j THEN Stored(j) = {} ELSE \E s \in Stored(j) : s.id = identity[j]
    /\ draft[j] = IF pc[j] = "counting" THEN {Retrieval(j)} ELSE {}

LoadInv == \A j \in Jobs : Knows(j)

\* A committed row is that of the bundle of the job that has inserted it.
RowInv ==
    /\ \A s \in snapshots :
         /\ pc[s.id] \in {"published", "failed"}
         /\ s.source = bundle[s.id].source /\ s.content = bundle[s.id].content
    /\ \A r \in retrievals :
         /\ pc[r.id] \in {"published", "failed"}
         /\ r.completed = bundle[r.id].completed
    /\ \A r, q \in retrievals : r.id = q.id => r = q
    /\ \A j \in Jobs : pc[j] = "published" => \E r \in retrievals : r.id = j

\* Every source with a check has a newest one.
ServedInv == \A source \in Sources : Checks(source) # {} => Served(source) # {}

PublicationInv == TypeOK /\ LockInv /\ LoadInv /\ RowInv /\ NothingDangles /\ ServedInv

-----------------------------------------------------------------------------
(* The jobs and the database implement LatestProduct. *)

Product == INSTANCE LatestProduct WITH
    served <- [s \in Sources |->
                 {[content |-> c[2].content, completed |-> c[1].completed] : c \in Served(s)}]

ServesLatest == Product!Spec
=============================================================================
