----------------------------- MODULE DatabaseProofs -----------------------------
(***************************************************************************)
(* Proofs about the loaders on one database (Database): the jobs of the    *)
(* national products (NationalPublication), the loaders of all other       *)
(* sources (SnapshotLoads), and both of them together.                     *)
(***************************************************************************)
EXTENDS Database, FiniteSetTheorems, TLAPS

-----------------------------------------------------------------------------
(***************************************************************************)
(* Proofs about NationalPublication, for any number of loads, any sources, *)
(* contents and times.                                                     *)
(*                                                                         *)
(* PublicationInv is inductive.  What readers are served is a maximum, and *)
(* its existence is carried from step to step: a commit adds one check,    *)
(* and the newer of it and the check served before is the newest of all.   *)
(***************************************************************************)

USE DEF storeVars, damageVars, Jobs, NoJob

LEMMA InitInv == Init => PublicationInv
<1> SUFFICES ASSUME Init PROVE PublicationInv
  OBVIOUS
<1> USE DEF Init
<1>1. TypeOK
  BY DEF TypeOK, InTx
<1>2. LockInv
  BY DEF LockInv, InTx
<1>3. LoadInv
  BY DEF LoadInv, Knows
<1>4. RowInv
  BY DEF RowInv
<1>5. NothingDangles
  BY DEF NothingDangles
<1>6. ServedInv
  BY DEF ServedInv, Checks
<1> QED
  BY <1>1, <1>2, <1>3, <1>4, <1>5, <1>6 DEF PublicationInv

\* The steps of a job that neither commit nor touch a committed row.
QuietStep(j) ==
    \/ TakeLock(j) \/ FindStored(j) \/ FindNone(j) \/ InsertSnapshot(j)
    \/ RecordRetrieval(j) \/ Fail(j)

LEMMA QuietStepInv ==
    ASSUME PublicationInv, NEW k \in Jobs, QuietStep(k)
    PROVE  PublicationInv'
<1> USE DEF PublicationInv
<1>0. UNCHANGED <<bundle, snapshots, retrievals, damaged, miscounted>>
  BY DEF QuietStep, TakeLock, FindStored, FindNone, InsertSnapshot, RecordRetrieval, Fail
<1>1. TypeOK'
  <2> USE <1>0 DEF TypeOK, InTx, Moves
  <2>1. CASE TakeLock(k)
    BY <2>1 DEF TakeLock
  <2>2. CASE FindStored(k)
    BY <2>2 DEF FindStored, Stored, Snapshots
  <2>3. CASE FindNone(k)
    BY <2>3 DEF FindNone
  <2>4. CASE InsertSnapshot(k)
    BY <2>4 DEF InsertSnapshot
  <2>5. CASE RecordRetrieval(k)
    <3>1. identity[k] \in Jobs
      BY <2>5 DEF RecordRetrieval, LoadInv, Knows, Stored, Snapshots
    <3>2. Retrieval(k) \in Retrievals
      BY <3>1 DEF Retrieval, Retrievals, Bundles
    <3> QED
      BY <2>5, <3>2 DEF RecordRetrieval
  <2>6. CASE Fail(k)
    BY <2>6 DEF Fail
  <2> QED
    BY <2>1, <2>2, <2>3, <2>4, <2>5, <2>6 DEF QuietStep
<1>2. LockInv'
  <2> USE DEF TypeOK, LockInv, InTx, Moves
  <2>1. CASE TakeLock(k)
    BY <2>1 DEF TakeLock
  <2>2. CASE FindStored(k)
    BY <2>2 DEF FindStored
  <2>3. CASE FindNone(k)
    BY <2>3 DEF FindNone
  <2>4. CASE InsertSnapshot(k)
    BY <2>4 DEF InsertSnapshot
  <2>5. CASE RecordRetrieval(k)
    BY <2>5 DEF RecordRetrieval
  <2>6. CASE Fail(k)
    BY <2>6 DEF Fail
  <2> QED
    BY <2>1, <2>2, <2>3, <2>4, <2>5, <2>6 DEF QuietStep
<1>3. LoadInv'
  <2> SUFFICES ASSUME NEW j \in Jobs
               PROVE  Knows(j)'
    BY DEF LoadInv
  <2>1. Stored(j)' = Stored(j)
    BY <1>0 DEF Stored
  <2>2. Knows(j)
    BY DEF LoadInv
  <2>3. CASE j # k
    <3>1. pc'[j] = pc[j] /\ identity'[j] = identity[j] /\ draft'[j] = draft[j]
      BY <2>3 DEF QuietStep, TakeLock, FindStored, FindNone, InsertSnapshot, RecordRetrieval,
                  Fail, TypeOK, Moves
    <3> QED
      BY <1>0, <2>1, <2>2, <3>1 DEF Knows, Retrieval
  <2>4. CASE j = k
    <3> USE <2>1, <2>2, <2>4 DEF TypeOK, Moves, Knows
    <3>1. CASE TakeLock(k)
      BY <3>1 DEF TakeLock
    <3>2. CASE FindStored(k)
      <4> PICK s \in Stored(k) : identity' = [identity EXCEPT ![k] = s.id]
        BY <3>2 DEF FindStored
      <4>1. s.id # k
        BY <3>2 DEF FindStored, RowInv, Stored
      <4> QED
        BY <3>2, <4>1 DEF FindStored
    <3>3. CASE FindNone(k)
      BY <3>3 DEF FindNone
    <3>4. CASE InsertSnapshot(k)
      BY <3>4 DEF InsertSnapshot
    <3>5. CASE RecordRetrieval(k)
      BY <3>5 DEF RecordRetrieval, Retrieval
    <3>6. CASE Fail(k)
      BY <3>6 DEF Fail, InTx
    <3> QED
      BY <3>1, <3>2, <3>3, <3>4, <3>5, <3>6 DEF QuietStep
  <2> QED
    BY <2>3, <2>4
<1>4. RowInv'
  <2>1. \A j \in Jobs : pc[j] \in {"published", "failed"} => pc'[j] = pc[j]
    BY DEF QuietStep, TakeLock, FindStored, FindNone, InsertSnapshot, RecordRetrieval, Fail,
           TypeOK, InTx, Moves
  <2>2. \A j \in Jobs : pc'[j] = "published" => pc[j] = "published"
    BY DEF QuietStep, TakeLock, FindStored, FindNone, InsertSnapshot, RecordRetrieval, Fail,
           TypeOK, Moves
  <2> QED
    BY <1>0, <2>1, <2>2 DEF TypeOK, RowInv, Snapshots, Retrievals
<1>5. NothingDangles'
  BY <1>0 DEF NothingDangles
<1>6. ServedInv'
  BY <1>0 DEF ServedInv, Served, Checks
<1> QED
  BY <1>1, <1>2, <1>3, <1>4, <1>5, <1>6

-----------------------------------------------------------------------------
\* The row that a commit adds to the snapshots, if any, and what it adds to what
\* readers can join.
NewSnapshot(j) == [id |-> j, source |-> bundle[j].source, content |-> bundle[j].content]

\* After a commit of k its check is the only new one, and it is one of its source.
LEMMA CommitAddsCheck ==
    ASSUME PublicationInv, NEW k \in Jobs, Commit(k) \/ CommitUnanswered(k)
    PROVE  /\ bundle' = bundle
           /\ retrievals' = retrievals \cup {Retrieval(k)}
           /\ Retrieval(k) \in Retrievals
           /\ \A r \in retrievals : r.id # k
           /\ \E t \in Snapshots :
                /\ t.id = identity[k]
                /\ t.source = bundle[k].source
                /\ t.content = bundle[k].content
                /\ snapshots' = snapshots \cup {t}
                /\ t.id # k => t \in snapshots
                /\ \A s \in snapshots : s.id = t.id => s = t
<1> USE DEF PublicationInv
<1>1. pc[k] = "counting" /\ ServerCommits(k) /\ bundle' = bundle
  BY DEF Commit, CommitUnanswered, Moves
<1>2. Knows(k) /\ draft[k] = {Retrieval(k)}
  BY <1>1 DEF LoadInv, Knows
<1>3. retrievals' = retrievals \cup {Retrieval(k)}
  BY <1>1, <1>2 DEF ServerCommits
<1>4. \A r \in retrievals : r.id # k
  BY <1>1 DEF RowInv
<1>5. \A s \in snapshots : s.id # k
  BY <1>1 DEF RowInv
<1>6. CASE identity[k] = k
  <2>1. snapshots' = snapshots \cup {NewSnapshot(k)}
    BY <1>1, <1>6 DEF ServerCommits, NewSnapshot
  <2>2. NewSnapshot(k) \in Snapshots
    BY DEF NewSnapshot, Snapshots, TypeOK, Bundles
  <2>3. Retrieval(k) \in Retrievals
    BY <1>6 DEF Retrieval, Retrievals, TypeOK, Bundles
  <2> QED
    BY <1>1, <1>3, <1>4, <1>5, <1>6, <2>1, <2>2, <2>3 DEF NewSnapshot
<1>7. CASE identity[k] # k
  <2> PICK t \in Stored(k) : t.id = identity[k]
    BY <1>1, <1>2, <1>7 DEF Knows
  <2>1. /\ t \in snapshots /\ t \in Snapshots
        /\ t.source = bundle[k].source /\ t.content = bundle[k].content
    BY DEF Stored, TypeOK
  <2>2. snapshots' = snapshots
    BY <1>1, <1>7 DEF ServerCommits
  <2>3. \A s \in snapshots : s.id = t.id => s = t
    BY <2>1 DEF RowInv, TypeOK, Snapshots
  <2>4. Retrieval(k) \in Retrievals
    BY <2>1 DEF Retrieval, Retrievals, Snapshots, TypeOK, Bundles
  <2> QED
    BY <1>1, <1>3, <1>4, <1>7, <2>1, <2>2, <2>3, <2>4
<1> QED
  BY <1>6, <1>7

\* The newest of two checks: the order is total on different retrievals.
LEMMA NewerIsTotal ==
    ASSUME NEW r \in Retrievals, NEW q \in Retrievals, r.id # q.id
    PROVE  Newer(r, q) \/ Newer(q, r)
BY DEF Newer, Retrievals

LEMMA NewerIsTransitive ==
    ASSUME NEW r \in Retrievals, NEW q \in Retrievals, NEW p \in Retrievals,
           Newer(r, q), Newer(q, p)
    PROVE  Newer(r, p)
BY DEF Newer, Retrievals

LEMMA NewerIsStrict ==
    ASSUME NEW r \in Retrievals, NEW q \in Retrievals, Newer(r, q)
    PROVE  ~Newer(q, r)
BY DEF Newer, Retrievals

\* What readers can join after a commit of k: the checks from before, and the new one
\* if it is of the source they ask for.
LEMMA CommitExtendsChecks ==
    ASSUME PublicationInv, NEW k \in Jobs, Commit(k) \/ CommitUnanswered(k), NEW source
    PROVE  \E t \in snapshots' :
             /\ t.source = bundle[k].source
             /\ t.content = bundle[k].content
             /\ Checks(source)' = Checks(source) \cup
                  (IF source = bundle[k].source THEN {<<Retrieval(k), t>>} ELSE {})
<1> USE DEF PublicationInv
<1> PICK t \in Snapshots :
        /\ t.id = identity[k]
        /\ t.source = bundle[k].source
        /\ t.content = bundle[k].content
        /\ snapshots' = snapshots \cup {t}
        /\ t.id # k => t \in snapshots
        /\ \A s \in snapshots : s.id = t.id => s = t
  BY CommitAddsCheck
<1>1. retrievals' = retrievals \cup {Retrieval(k)}
  BY CommitAddsCheck
<1>2. Retrieval(k).snapshot = t.id
  BY DEF Retrieval
<1>3. \A r \in retrievals : r.snapshot = t.id => t \in snapshots
  BY DEF NothingDangles
<1>4. ASSUME NEW r \in retrievals', NEW s \in snapshots',
             r.snapshot = s.id, s.source = source
      PROVE  <<r, s>> \in Checks(source) \/ (source = bundle[k].source /\ r = Retrieval(k) /\ s = t)
  <2>1. CASE r \in retrievals
    <3>1. s \in snapshots
      BY <1>3, <1>4, <2>1
    <3> QED
      BY <1>4, <2>1, <3>1 DEF Checks
  <2>2. CASE r = Retrieval(k)
    BY <1>2, <1>4, <2>2
  <2> QED
    BY <1>1, <2>1, <2>2
<1>5. Checks(source)' \subseteq Checks(source) \cup
        (IF source = bundle[k].source THEN {<<Retrieval(k), t>>} ELSE {})
  <2> SUFFICES ASSUME NEW c \in Checks(source)'
               PROVE  c \in Checks(source) \cup
                        (IF source = bundle[k].source THEN {<<Retrieval(k), t>>} ELSE {})
    OBVIOUS
  <2>1. /\ c[1] \in retrievals' /\ c[2] \in snapshots' /\ c = <<c[1], c[2]>>
        /\ c[1].snapshot = c[2].id /\ c[2].source = source
    BY DEF Checks
  <2> QED
    BY <1>4, <2>1
<1>6. Checks(source) \subseteq Checks(source)'
  BY <1>1 DEF Checks
<1>7. source = bundle[k].source => <<Retrieval(k), t>> \in Checks(source)'
  BY <1>1, <1>2 DEF Checks
<1> QED
  BY <1>5, <1>6, <1>7

\* The newest check survives a commit or gives way to the new one.
LEMMA CommitKeepsServed ==
    ASSUME PublicationInv, NEW k \in Jobs, Commit(k) \/ CommitUnanswered(k), NEW source,
           Checks(source) # {} => Served(source) # {}, Checks(source)' # {}
    PROVE  Served(source)' # {}
<1> PICK t \in snapshots' :
      Checks(source)' = Checks(source) \cup
        (IF source = bundle[k].source THEN {<<Retrieval(k), t>>} ELSE {})
  BY CommitExtendsChecks
<1> DEFINE new == <<Retrieval(k), t>>
<1>1. Served(source)' =
        {c \in Checks(source)' : \A d \in Checks(source)' : d = c \/ Newer(c[1], d[1])}
  BY DEF Served
<1>2. \A c \in Checks(source) : c[1] \in Retrievals /\ c[1].id # k
  BY CommitAddsCheck DEF Checks, PublicationInv, TypeOK
<1>3. Retrieval(k) \in Retrievals /\ Retrieval(k).id = k
  BY CommitAddsCheck DEF Retrieval
<1>4. CASE source # bundle[k].source
  BY <1>4, <1>1 DEF Served
<1>5. CASE source = bundle[k].source /\ Checks(source) = {}
  <2>1. new \in Served(source)'
    BY <1>1, <1>5
  <2> QED
    BY <2>1
<1>6. CASE source = bundle[k].source /\ Checks(source) # {}
  <2> PICK c \in Served(source) : TRUE
    BY <1>6
  <2>1. c \in Checks(source) /\ \A d \in Checks(source) : d = c \/ Newer(c[1], d[1])
    BY DEF Served
  <2>2. CASE Newer(c[1], Retrieval(k))
    <3>1. c \in Served(source)'
      BY <1>1, <1>6, <2>1, <2>2
    <3> QED
      BY <3>1
  <2>3. CASE Newer(Retrieval(k), c[1])
    <3>1. \A d \in Checks(source) : Newer(Retrieval(k), d[1])
      BY <1>2, <1>3, <2>1, <2>3, NewerIsTransitive
    <3>2. new \in Served(source)'
      BY <1>1, <1>6, <3>1
    <3> QED
      BY <3>2
  <2> QED
    BY <1>2, <1>3, <2>1, <2>2, <2>3, NewerIsTotal
<1> QED
  BY <1>4, <1>5, <1>6

LEMMA CommitStepInv ==
    ASSUME PublicationInv, NEW k \in Jobs, Commit(k) \/ CommitUnanswered(k)
    PROVE  PublicationInv'
<1> USE DEF PublicationInv
<1> PICK t \in Snapshots :
        /\ t.id = identity[k]
        /\ t.source = bundle[k].source
        /\ t.content = bundle[k].content
        /\ snapshots' = snapshots \cup {t}
        /\ t.id # k => t \in snapshots
        /\ \A s \in snapshots : s.id = t.id => s = t
  BY CommitAddsCheck
<1>1. /\ bundle' = bundle /\ identity' = identity
      /\ damaged' = damaged /\ miscounted' = miscounted
      /\ retrievals' = retrievals \cup {Retrieval(k)}
      /\ Retrieval(k) \in Retrievals
      /\ \A r \in retrievals : r.id # k
  BY CommitAddsCheck DEF Commit, CommitUnanswered
<1>2. /\ pc[k] = "counting" /\ pc'[k] \in {"published", "failed"}
      /\ pc' \in [Jobs -> InTx \cup {"waiting", "published", "failed"}]
      /\ \A j \in Jobs : j # k => pc'[j] = pc[j]
  BY DEF Commit, CommitUnanswered, Moves, TypeOK
<1>3. /\ lock' = NoJob /\ draft'[k] = {} /\ draft' \in [Jobs -> SUBSET Retrievals]
      /\ \A j \in Jobs : j # k => draft'[j] = draft[j]
  BY DEF Commit, CommitUnanswered, ServerCommits, TypeOK
<1>4. \A j \in Jobs : j # k => pc[j] \notin InTx
  BY <1>2 DEF LockInv, InTx
<1>5. TypeOK'
  BY <1>1, <1>2, <1>3 DEF TypeOK
<1>6. LockInv'
  BY <1>2, <1>3, <1>4 DEF LockInv, InTx
<1>7. LoadInv'
  <2> SUFFICES ASSUME NEW j \in Jobs PROVE Knows(j)'
    BY DEF LoadInv
  <2>1. CASE j = k
    BY <1>2, <1>3, <2>1 DEF Knows
  <2>2. CASE j # k
    <3>1. Knows(j) /\ pc'[j] \in {"waiting", "published", "failed"}
      BY <1>2, <1>4, <2>2 DEF LoadInv, TypeOK
    <3> QED
      BY <1>1, <1>2, <1>3, <2>2, <3>1 DEF Knows
  <2> QED
    BY <2>1, <2>2
<1>8. RowInv'
  <2>1. \A j \in Jobs : pc[j] \in {"published", "failed"} => pc'[j] = pc[j]
    BY <1>2
  <2>2. Retrieval(k).id = k /\ Retrieval(k).completed = bundle[k].completed
    BY DEF Retrieval
  <2>3. \A s \in snapshots' :
          /\ pc'[s.id] \in {"published", "failed"}
          /\ s.source = bundle[s.id].source /\ s.content = bundle[s.id].content
    <3> SUFFICES ASSUME NEW s \in snapshots'
                 PROVE  /\ pc'[s.id] \in {"published", "failed"}
                        /\ s.source = bundle[s.id].source /\ s.content = bundle[s.id].content
      OBVIOUS
    <3>1. CASE s \in snapshots
      BY <2>1, <3>1 DEF RowInv, TypeOK, Snapshots
    <3>2. CASE s \notin snapshots
      BY <1>2, <3>2
    <3> QED
      BY <3>1, <3>2
  <2>4. \A r \in retrievals' :
          /\ pc'[r.id] \in {"published", "failed"}
          /\ r.completed = bundle[r.id].completed
    BY <1>1, <1>2, <2>1, <2>2 DEF RowInv, TypeOK, Retrievals
  <2>5. \A r, q \in retrievals' : r.id = q.id => r = q
    BY <1>1, <2>2 DEF RowInv
  <2>6. \A j \in Jobs : pc'[j] = "published" => \E r \in retrievals' : r.id = j
    BY <1>1, <1>2, <2>2 DEF RowInv
  <2> QED
    BY <1>1, <2>3, <2>4, <2>5, <2>6 DEF RowInv
<1>9. NothingDangles'
  <2>1. Retrieval(k).id = k /\ Retrieval(k).snapshot = t.id
    BY DEF Retrieval
  <2>2. \A s \in snapshots' : \E r \in retrievals' : r.snapshot = s.id
    BY <1>1, <2>1 DEF NothingDangles
  <2>3. \A r \in retrievals' : \E s \in snapshots' :
          s.id = r.snapshot /\ s.source = bundle[r.id].source /\ s.content = bundle[r.id].content
    BY <1>1, <2>1 DEF NothingDangles
  <2> QED
    BY <1>1, <2>2, <2>3 DEF NothingDangles
<1>10. ServedInv'
  <2> SUFFICES ASSUME NEW source \in Sources, Checks(source)' # {}
               PROVE  Served(source)' # {}
    BY DEF ServedInv
  <2> QED
    BY CommitKeepsServed DEF ServedInv
<1> QED
  BY <1>5, <1>6, <1>7, <1>8, <1>9, <1>10

LEMMA StepInv == PublicationInv /\ [Next]_vars => PublicationInv'
<1> SUFFICES ASSUME PublicationInv, [Next]_vars PROVE PublicationInv'
  OBVIOUS
<1>1. CASE UNCHANGED vars
  <2>1. UNCHANGED <<bundle, pc, lock, identity, snapshots, retrievals, draft, damaged, miscounted>>
    BY <1>1 DEF vars
  <2>2. TypeOK'
    BY <2>1 DEF PublicationInv, TypeOK
  <2>3. LockInv'
    BY <2>1 DEF PublicationInv, LockInv, InTx
  <2>4. LoadInv'
    BY <2>1 DEF PublicationInv, LoadInv, Knows, Stored, Retrieval
  <2>5. RowInv' /\ NothingDangles'
    BY <2>1 DEF PublicationInv, RowInv, NothingDangles, Stored, Retrieval
  <2>6. ServedInv'
    BY <2>1 DEF PublicationInv, ServedInv, Served, Checks
  <2> QED
    BY <2>2, <2>3, <2>4, <2>5, <2>6 DEF PublicationInv
<1>2. CASE Damage
  <2>1. /\ UNCHANGED <<bundle, pc, lock, identity, snapshots, retrievals, draft>>
        /\ damaged' \subseteq Jobs /\ miscounted' \subseteq Jobs
    BY <1>2 DEF Damage, PublicationInv, TypeOK, Snapshots
  <2> QED
    BY <2>1 DEF PublicationInv, TypeOK, LockInv, LoadInv, Knows, Stored, Retrieval,
                RowInv, NothingDangles, ServedInv, Served, Checks
<1>3. ASSUME NEW k \in Jobs, JobStep(k) PROVE PublicationInv'
  BY <1>3, QuietStepInv, CommitStepInv DEF JobStep, QuietStep
<1> QED
  BY <1>1, <1>2, <1>3 DEF Next, Done

-----------------------------------------------------------------------------
\* The inductive invariant of the loads, the rows and the lock holds in every state, for
\* any number of jobs, sources, contents and times (phase15_ingestion.py, load_snapshot).
THEOREM PublicationInvariant == Spec => []PublicationInv
<1> QED
  BY InitInv, StepInv, PTL DEF Spec

\* No snapshot is ever without a retrieval and no retrieval without the snapshot of its
\* bundle, whatever fails and whatever is published concurrently.
THEOREM NothingDanglesHolds == Spec => []NothingDangles
<1>1. PublicationInv => NothingDangles
  BY DEF PublicationInv
<1> QED
  BY PublicationInvariant, <1>1, PTL

\* The look-up of load_snapshot is still true when it inserts.
THEOREM NoTwinHolds == Spec => []InsertFindsNoTwin
<1>1. PublicationInv => InsertFindsNoTwin
  BY DEF PublicationInv, LoadInv, Knows, InsertFindsNoTwin
<1> QED
  BY PublicationInvariant, <1>1, PTL

LEMMA InvServes == PublicationInv => PublishedIsServed
<1> SUFFICES ASSUME PublicationInv, NEW j \in Jobs, pc[j] = "published"
             PROVE  \E c \in Served(bundle[j].source), k \in Jobs :
                      /\ c[1].completed >= bundle[j].completed
                      /\ c[1].completed = bundle[k].completed
                      /\ c[2].source = bundle[k].source /\ c[2].content = bundle[k].content
  BY DEF PublishedIsServed
<1> USE DEF PublicationInv
<1> PICK r \in retrievals : r.id = j
  BY DEF RowInv
<1> PICK s \in snapshots :
        s.id = r.snapshot /\ s.source = bundle[j].source /\ s.content = bundle[j].content
  BY DEF NothingDangles
<1>1. <<r, s>> \in Checks(bundle[j].source) /\ bundle[j].source \in Sources
  BY DEF Checks, TypeOK, Bundles
<1> PICK c \in Served(bundle[j].source) : TRUE
  BY <1>1 DEF ServedInv
<1>2. /\ c \in Checks(bundle[j].source)
      /\ c = <<r, s>> \/ Newer(c[1], r)
  BY <1>1 DEF Served
<1>3. /\ c[1] \in retrievals /\ c[2] \in snapshots /\ c[1].snapshot = c[2].id
  BY <1>2 DEF Checks
<1>4. c[1] \in Retrievals /\ r \in Retrievals
  BY <1>3 DEF TypeOK
<1>5. c[1].completed >= r.completed
  BY <1>2, <1>4 DEF Newer, Retrievals
<1>6. r.completed = bundle[j].completed /\ c[1].completed = bundle[c[1].id].completed
  BY <1>3 DEF RowInv
<1> PICK q \in snapshots :
        /\ q.id = c[1].snapshot
        /\ q.source = bundle[c[1].id].source /\ q.content = bundle[c[1].id].content
  BY <1>3 DEF NothingDangles
<1>7. q = c[2]
  BY <1>3 DEF RowInv, TypeOK, Snapshots
<1>8. c[1].id \in Jobs
  BY <1>4 DEF Retrievals
<1> QED
  BY <1>5, <1>6, <1>7, <1>8

\* A job that has reported its check as published is served by dataset, or a newer
\* check is, for every number of jobs and every order of publication.
THEOREM PublishedIsServedHolds == Spec => []PublishedIsServed
<1> QED
  BY PublicationInvariant, InvServes, PTL

\* What a job has published stands: it is served or succeeded, whole, and stored once
\* (phase15_ingestion.py, load_snapshot; phase15.py, dataset).
THEOREM PublicationAlwaysStands == Spec => []PublicationStands
<1>1. PublishedIsServed /\ NothingDangles /\ InsertFindsNoTwin => PublicationStands
  BY DEF PublicationStands
<1> QED
  BY <1>1, PublishedIsServedHolds, NothingDanglesHolds, NoTwinHolds, PTL

-----------------------------------------------------------------------------
(* The refinement of LatestProduct. *)

\* LIMIT 1 leaves nothing to choose.
LEMMA ServedIsOne ==
    ASSUME PublicationInv, NEW source, NEW c \in Served(source), NEW d \in Served(source)
    PROVE  c = d
<1>1. c[1] \in Retrievals /\ d[1] \in Retrievals
  BY DEF Served, Checks, PublicationInv, TypeOK
<1> QED
  BY <1>1, NewerIsStrict DEF Served

\* After a commit the same check is served as before, or the one committed, and then
\* no later one was served before.
LEMMA CommitServes ==
    ASSUME PublicationInv, NEW k \in Jobs, Commit(k) \/ CommitUnanswered(k),
           NEW source \in Sources, source = bundle[k].source
    PROVE  \/ Served(source)' = Served(source)
           \/ /\ \E t : /\ Served(source)' = {<<Retrieval(k), t>>}
                         /\ t.content = bundle[k].content
              /\ \A c \in Served(source) : c[1].completed <= bundle[k].completed
<1> PICK t \in snapshots' :
      /\ t.content = bundle[k].content
      /\ Checks(source)' = Checks(source) \cup {<<Retrieval(k), t>>}
  BY CommitExtendsChecks
<1> DEFINE new == <<Retrieval(k), t>>
<1>1. Served(source)' =
        {c \in Checks(source)' : \A d \in Checks(source)' : d = c \/ Newer(c[1], d[1])}
  BY DEF Served
<1>2. \A c \in Checks(source) : c[1] \in Retrievals /\ c[1].id # k
  BY CommitAddsCheck DEF Checks, PublicationInv, TypeOK
<1>3. /\ Retrieval(k) \in Retrievals
      /\ Retrieval(k).id = k /\ Retrieval(k).completed = bundle[k].completed
  BY CommitAddsCheck DEF Retrieval
<1>4. new \notin Checks(source)
  BY <1>2, <1>3
<1>5. CASE Checks(source) = {}
  <2>1. Served(source)' = {new} /\ Served(source) = {}
    BY <1>1, <1>5 DEF Served
  <2> QED
    BY <2>1
<1>6. CASE Checks(source) # {}
  <2>1. PICK c \in Served(source) : TRUE
    BY <1>6 DEF PublicationInv, ServedInv
  <2>2. c \in Checks(source) /\ \A d \in Checks(source) : d = c \/ Newer(c[1], d[1])
    BY <2>1 DEF Served
  <2>3. Served(source) = {c}
    BY <2>1, ServedIsOne
  <2>4. CASE Newer(c[1], Retrieval(k))
    <3>1. c \in Served(source)'
      BY <1>1, <2>2, <2>4
    <3>2. ASSUME NEW d \in Served(source)' PROVE d = c
      <4>1. d = c \/ (Newer(d[1], c[1]) /\ Newer(c[1], d[1]))
        BY <1>1, <2>2, <2>4, <3>2
      <4>2. d[1] \in Retrievals /\ c[1] \in Retrievals
        BY <1>1, <1>2, <1>3, <2>2, <3>2
      <4> QED
        BY <4>1, <4>2, NewerIsStrict
    <3>3. Served(source)' = Served(source)
      BY <2>3, <3>1, <3>2
    <3> QED
      BY <3>3
  <2>5. CASE Newer(Retrieval(k), c[1])
    <3>1. \A d \in Checks(source) : Newer(Retrieval(k), d[1])
      BY <1>2, <1>3, <2>2, <2>5, NewerIsTransitive
    <3>2. new \in Served(source)'
      BY <1>1, <3>1
    <3>3. ASSUME NEW d \in Served(source)' PROVE d = new
      <4>1. d = new \/ Newer(Retrieval(k), d[1])
        BY <1>1, <3>1, <3>3
      <4>2. d = new \/ Newer(d[1], Retrieval(k))
        <5>1. new \in Checks(source)' /\ new[1] = Retrieval(k)
          OBVIOUS
        <5> QED
          BY <1>1, <3>3, <5>1
      <4>3. d[1] \in Retrievals
        BY <1>1, <1>2, <1>3, <3>3
      <4> QED
        BY <1>3, <4>1, <4>2, <4>3, NewerIsStrict
    <3>4. Served(source)' = {new}
      BY <3>2, <3>3
    <3>5. c[1].completed <= bundle[k].completed
      BY <1>2, <1>3, <2>2, <2>5 DEF Newer, Retrievals
    <3> QED
      BY <2>3, <3>4, <3>5
  <2> QED
    BY <1>2, <1>3, <2>2, <2>4, <2>5, NewerIsTotal
<1> QED
  BY <1>5, <1>6

Shown(s) == {[content |-> c[2].content, completed |-> c[1].completed] : c \in Served(s)}

LEMMA StepServes == PublicationInv /\ [Next]_vars => [Product!Next]_[s \in Sources |-> Shown(s)]
<1> SUFFICES ASSUME PublicationInv, [Next]_vars
             PROVE  \/ \E s \in Sources, check \in Product!Checks :
                         /\ \A old \in Shown(s) : old.completed <= check.completed
                         /\ [r \in Sources |-> Shown(r)]' =
                              [[r \in Sources |-> Shown(r)] EXCEPT ![s] = {check}]
                    \/ [r \in Sources |-> Shown(r)]' = [r \in Sources |-> Shown(r)]
  BY DEF Product!Next, Product!Accept, Shown
<1>1. CASE UNCHANGED storeVars
  BY <1>1 DEF Shown, Served, Checks
<1>2. ASSUME NEW k \in Jobs, Commit(k) \/ CommitUnanswered(k)
      PROVE  \/ \E s \in Sources, check \in Product!Checks :
                  /\ \A old \in Shown(s) : old.completed <= check.completed
                  /\ [r \in Sources |-> Shown(r)]' =
                       [[r \in Sources |-> Shown(r)] EXCEPT ![s] = {check}]
             \/ [r \in Sources |-> Shown(r)]' = [r \in Sources |-> Shown(r)]
  <2> PICK source \in Sources : source = bundle[k].source
    BY DEF PublicationInv, TypeOK, Bundles
  <2> DEFINE check == [content |-> bundle[k].content, completed |-> bundle[k].completed]
  <2>1. check \in Product!Checks
    BY DEF PublicationInv, TypeOK, Bundles, Product!Checks
  <2>2. \A s \in Sources : s # source => Shown(s)' = Shown(s)
    <3> SUFFICES ASSUME NEW s \in Sources, s # source PROVE Shown(s)' = Shown(s)
      OBVIOUS
    <3>1. Checks(s)' = Checks(s)
      BY <1>2, CommitExtendsChecks
    <3> QED
      BY <3>1 DEF Shown, Served
  <2>3. CASE Served(source)' = Served(source)
    <3>1. Shown(source)' = Shown(source)
      BY <1>2, <2>3, CommitAddsCheck DEF Shown
    <3> QED
      BY <2>2, <3>1
  <2>4. CASE /\ \E t : /\ Served(source)' = {<<Retrieval(k), t>>}
                       /\ t.content = bundle[k].content
             /\ \A c \in Served(source) : c[1].completed <= bundle[k].completed
    <3> PICK t : Served(source)' = {<<Retrieval(k), t>>} /\ t.content = bundle[k].content
      BY <2>4
    <3>1. Shown(source)' = {check}
      BY <1>2, CommitAddsCheck DEF Shown, Retrieval
    <3>2. \A old \in Shown(source) : old.completed <= check.completed
      BY <2>4 DEF Shown
    <3>3. [r \in Sources |-> Shown(r)]' =
            [[r \in Sources |-> Shown(r)] EXCEPT ![source] = {check}]
      BY <2>2, <3>1
    <3> QED
      BY <2>1, <3>2, <3>3
  <2> QED
    BY <1>2, <2>3, <2>4, CommitServes
<1>3. ASSUME NEW k \in Jobs, QuietStep(k) PROVE UNCHANGED storeVars
  BY <1>3 DEF QuietStep, TakeLock, FindStored, FindNone, InsertSnapshot, RecordRetrieval, Fail
<1>4. CASE Damage \/ Done \/ UNCHANGED vars
  BY <1>1, <1>4 DEF Damage, Done, vars
<1> QED
  BY <1>1, <1>2, <1>3, <1>4 DEF Next, JobStep, QuietStep

\* Readers of a source see the newest accepted check, whichever jobs publish in
\* whichever order: load_snapshot and dataset implement LatestProduct.
THEOREM JobsServeLatest == Spec => ServesLatest
<1>1. Init => Product!Init
  BY DEF Init, Product!Init, Product!NoCheck, Served, Checks
<1>2. PublicationInv /\ [Next]_vars => [Product!Next]_[s \in Sources |-> Shown(s)]
  BY StepServes
<1> QED
  BY <1>1, <1>2, PublicationInvariant, PTL DEF Spec, ServesLatest, Product!Spec, Shown

HIDE DEF storeVars, damageVars, Jobs, NoJob

-----------------------------------------------------------------------------
(***************************************************************************)
(* Proofs about SnapshotLoads, for any number of loaders, any contents of  *)
(* the seven sources, any retrieval times and any bound on the loads.      *)
(*                                                                         *)
(* What is decided still holds at the insert because one load of a source  *)
(* is open at a time (SourceLockInv) while what it looked for in another   *)
(* source only ever grows (ParentInv).  That a source with snapshots has a *)
(* newest one is kept as an invariant (HasNewest): the snapshot inserted   *)
(* is the newest, or the one that was newest stays it.  That a comparison  *)
(* has covered all it should when it ends is CompareInv: what was altered  *)
(* at the look-up stays so, and none of it is behind the comparison.       *)
(***************************************************************************)

USE DEF loadVars, storedVars, reportVars, loadsVars, InLoad, LoaderMoves, Ends

LoaderTypes ==
    /\ loaderAt \in [Loaders -> InLoad \cup {"idle", "waiting", "existing"}]
    /\ loading \in [Loaders -> LoadBundles \cup {NoLoad}]
    /\ \A p \in Loaders : loading[p] = NoLoad <=> loaderAt[p] \in {"idle", "existing"}
    /\ stored \subseteq LoadBundles

SourceLockInv ==
    \A p, q \in Loaders :
        loaderAt[p] \in InLoad /\ loaderAt[q] \in InLoad /\ SourceOf(p) = SourceOf(q) => p = q

\* What an open load knows of its measure, its sampling point and its predecessor.
ParentInv ==
    \A p \in Loaders :
        /\ loaderAt[p] \in {"looking", "comparing", "deciding", "inserting"}
             /\ SourceOf(p) = "hydrology-history" =>
             Known(Parent[loading[p].content], "hydrology")
        /\ loaderAt[p] = "inserting" /\ SourceOf(p) = "observations" =>
             Known(Parent[loading[p].content], "water-quality")

CompleteInv ==
    \A p \in Loaders :
        loaderAt[p] = "inserting" /\ SourceOf(p) \in {"hydrology", "water-quality"} =>
            ~ Incomplete(p)

HasNewest(rows) ==
    \A source \in LoadSources : Of(rows, source) # {} => Newest(Of(rows, source)) # {}

KnownIn(rows, parent, source) == \E s \in Of(rows, source) : parent \in Members[s.content]

ParentsIn(rows) ==
    \A s \in rows :
        /\ Source[s.content] = "hydrology-history" => KnownIn(rows, Parent[s.content], "hydrology")
        /\ Source[s.content] = "observations" => KnownIn(rows, Parent[s.content], "water-quality")

Sound(rows) == rows \subseteq LoadBundles /\ HasNewest(rows) /\ ParentsIn(rows)

ReportInv == \A source \in DOMAIN report : report[source] = Newest(Of(view, source))

LoadsInv ==
    /\ LoaderTypes /\ SourceLockInv /\ ParentInv /\ CompleteInv
    /\ Sound(stored) /\ Sound(view) /\ ReportInv

-----------------------------------------------------------------------------
(* The order on snapshots. *)

\* Of two snapshots one is newer, or they have the same content.
LEMMA NewerTotal ==
    ASSUME NEW s \in LoadBundles, NEW t \in LoadBundles
    PROVE  NewerSnapshot(s, t) \/ NewerSnapshot(t, s) \/ s = t
<1>1. /\ s = [content |-> s.content, completed |-> s.completed]
      /\ t = [content |-> t.content, completed |-> t.completed]
      /\ s.content \in LoadContents /\ t.content \in LoadContents
      /\ s.completed \in Nat /\ t.completed \in Nat
  BY BundleAssumption
<1>2. /\ Uuid[s.content] \in Nat /\ Uuid[t.content] \in Nat
      /\ Uuid[s.content] = Uuid[t.content] => s.content = t.content
  BY <1>1, ContentAssumption
<1>3. s.completed = t.completed /\ s.content = t.content => s = t
  BY <1>1
<1> QED
  BY <1>1, <1>2, <1>3 DEF NewerSnapshot

LEMMA NewerTransitive ==
    ASSUME NEW r \in LoadBundles, NEW s \in LoadBundles, NEW t \in LoadBundles,
           NewerSnapshot(r, s), NewerSnapshot(s, t)
    PROVE  NewerSnapshot(r, t)
<1>1. /\ r.content \in LoadContents /\ s.content \in LoadContents /\ t.content \in LoadContents
      /\ r.completed \in Nat /\ s.completed \in Nat /\ t.completed \in Nat
  BY BundleAssumption
<1>2. Uuid[r.content] \in Nat /\ Uuid[s.content] \in Nat /\ Uuid[t.content] \in Nat
  BY <1>1, ContentAssumption
<1> QED
  BY <1>1, <1>2 DEF NewerSnapshot

LEMMA NewerIrreflexive ==
    ASSUME NEW s \in LoadBundles
    PROVE  ~ NewerSnapshot(s, s)
<1>1. s.completed \in Nat /\ Uuid[s.content] \in Nat
  BY BundleAssumption, ContentAssumption
<1> QED
  BY <1>1 DEF NewerSnapshot

\* LIMIT 1 finds at most one row.
LEMMA NewestUnique ==
    ASSUME NEW rows, rows \subseteq LoadBundles, NEW s \in Newest(rows), NEW t \in Newest(rows)
    PROVE  s = t
BY NewerTotal DEF Newest

LEMMA NewestIsOne ==
    ASSUME NEW rows, rows \subseteq LoadBundles
    PROVE  Cardinality(Newest(rows)) <= 1
<1>1. Newest(rows) = {} \/ \E s \in Newest(rows) : Newest(rows) = {s}
  BY NewestUnique
<1>2. Cardinality(Newest(rows)) = 0 \/ Cardinality(Newest(rows)) = 1
  BY <1>1, FS_EmptySet, FS_Singleton
<1> QED
  BY <1>2

\* A snapshot more: it is the newest of its source, or the one that was stays it.
LEMMA NewestGrows ==
    ASSUME NEW rows, Sound(rows), NEW b \in LoadBundles,
           Source[b.content] = "hydrology-history" => KnownIn(rows, Parent[b.content], "hydrology"),
           Source[b.content] = "observations" => KnownIn(rows, Parent[b.content], "water-quality")
    PROVE  Sound(rows \cup {b})
<1> DEFINE more == rows \cup {b}
<1>1. more \subseteq LoadBundles
  BY DEF Sound
<1>2. HasNewest(more)
  <2> SUFFICES ASSUME NEW source \in LoadSources, Of(more, source) # {}
               PROVE  \E t \in Of(more, source) : ~ \E u \in Of(more, source) : NewerSnapshot(u, t)
    BY DEF HasNewest, Newest
  <2>1. CASE Of(rows, source) = {}
    <3>1. Of(more, source) = {b}
      BY <2>1 DEF Of
    <3> QED
      BY <3>1, NewerIrreflexive
  <2>2. CASE Of(rows, source) # {}
    <3>1. PICK s \in Of(rows, source) : ~ \E u \in Of(rows, source) : NewerSnapshot(u, s)
      BY <2>2 DEF Sound, HasNewest, Newest
    <3>2. s \in LoadBundles /\ s \in Of(more, source)
      BY <3>1, <1>1 DEF Of
    <3>3. CASE Source[b.content] # source \/ ~ NewerSnapshot(b, s)
      <4>1. ~ \E u \in Of(more, source) : NewerSnapshot(u, s)
        BY <3>1, <3>3 DEF Of
      <4> QED
        BY <3>2, <4>1
    <3>4. CASE Source[b.content] = source /\ NewerSnapshot(b, s)
      <4>1. ASSUME NEW u \in Of(more, source), NewerSnapshot(u, b)
            PROVE  FALSE
        <5>1. u \in LoadBundles /\ NewerSnapshot(u, s)
          BY <1>1, <3>2, <3>4, <4>1, NewerTransitive DEF Of
        <5>2. u \in Of(rows, source)
          BY <4>1, NewerIrreflexive DEF Of
        <5> QED
          BY <3>1, <5>1, <5>2
      <4>2. b \in Of(more, source)
        BY <3>4 DEF Of
      <4> QED
        BY <4>1, <4>2
    <3> QED
      BY <3>3, <3>4
  <2> QED
    BY <2>1, <2>2
<1>3. ParentsIn(more)
  BY DEF Sound, ParentsIn, KnownIn, Of
<1> QED
  BY <1>1, <1>2, <1>3 DEF Sound

-----------------------------------------------------------------------------
(* The loaders. *)

LEMMA LoadsInitial == LoadsInit => LoadsInv
<1> SUFFICES ASSUME LoadsInit PROVE LoadsInv
  OBVIOUS
<1>1. Sound({})
  BY DEF Sound, HasNewest, ParentsIn, Of
<1> QED
  BY <1>1 DEF LoadsInit, LoadsInv, LoaderTypes, SourceLockInv, ParentInv, CompleteInv, ReportInv

\* A step of a loader that inserts nothing: it calls, goes on inside its transaction,
\* or ends it.
Quiet(p) ==
    /\ UNCHANGED <<storedVars, reportVars>>
    /\ \A q \in Loaders \ {p} : loaderAt'[q] = loaderAt[q] /\ loading'[q] = loading[q]
    /\ loaderAt' \in [Loaders -> InLoad \cup {"idle", "waiting", "existing"}]
    /\ loading' \in [Loaders -> LoadBundles \cup {NoLoad}]
    /\ \/ loaderAt'[p] \in {"idle", "existing"} /\ loading'[p] = NoLoad
       \/ loaderAt'[p] = "waiting" /\ loading'[p] \in LoadBundles
       \/ /\ loading'[p] = loading[p] /\ loading[p] # NoLoad
          /\ loaderAt'[p] \in InLoad
          /\ \/ loaderAt[p] \in InLoad
             \/ \A q \in Loaders : loaderAt[q] \in InLoad => SourceOf(q) # SourceOf(p)
          /\ loaderAt'[p] # "checking" /\ SourceOf(p) = "hydrology-history" =>
               Known(Parent[loading[p].content], "hydrology")
          /\ loaderAt'[p] = "inserting" =>
               /\ SourceOf(p) = "observations" => Known(Parent[loading[p].content], "water-quality")
               /\ SourceOf(p) \in {"hydrology", "water-quality"} => ~ Incomplete(p)

LEMMA QuietKeeps ==
    ASSUME LoadsInv, NEW p \in Loaders, Quiet(p)
    PROVE  LoadsInv'
<1> USE DEF LoadsInv, LoaderTypes, Quiet
<1>1. LoaderTypes'
  BY NoneAssumption
<1>2. \A q \in Loaders : q # p => SourceOf(q)' = SourceOf(q)
  BY DEF SourceOf
<1>3. \A parent, source : Known(parent, source)' <=> Known(parent, source)
  BY DEF Known, Of
<1>4. loading'[p] = loading[p] => SourceOf(p)' = SourceOf(p)
  BY DEF SourceOf
<1>5. SourceLockInv'
  BY <1>2, <1>4 DEF SourceLockInv
<1>6. ParentInv'
  <2>1. ASSUME NEW q \in Loaders, loaderAt'[q] \in {"looking", "comparing", "deciding", "inserting"},
               SourceOf(q)' = "hydrology-history"
        PROVE  Known(Parent[loading[q].content], "hydrology")'
    <3>1. loading'[q] = loading[q] /\ SourceOf(q) = "hydrology-history"
      BY <1>2, <1>4, <2>1
    <3>2. Known(Parent[loading[q].content], "hydrology")
      BY <2>1, <3>1 DEF ParentInv
    <3> QED
      BY <3>1, <3>2 DEF Known, Of
  <2>2. ASSUME NEW q \in Loaders, loaderAt'[q] = "inserting", SourceOf(q)' = "observations"
        PROVE  Known(Parent[loading[q].content], "water-quality")'
    <3>1. loading'[q] = loading[q] /\ SourceOf(q) = "observations"
      BY <1>2, <1>4, <2>2
    <3>2. Known(Parent[loading[q].content], "water-quality")
      BY <2>2, <3>1 DEF ParentInv
    <3> QED
      BY <3>1, <3>2 DEF Known, Of
  <2> QED
    BY <2>1, <2>2 DEF ParentInv
<1>7. CompleteInv'
  <2> SUFFICES ASSUME NEW q \in Loaders, loaderAt'[q] = "inserting",
                      SourceOf(q)' \in {"hydrology", "water-quality"}
               PROVE  ~ Incomplete(q)'
    BY DEF CompleteInv
  <2>1. loading'[q] = loading[q] /\ SourceOf(q)' = SourceOf(q)
    BY <1>2, <1>4
  <2>2. Incomplete(q)' <=> Incomplete(q)
    BY <2>1 DEF Incomplete, Newest, Of
  <2>3. CASE q # p
    BY <2>1, <2>2, <2>3 DEF CompleteInv
  <2>4. CASE q = p
    BY <2>1, <2>2, <2>4
  <2> QED
    BY <2>3, <2>4
<1>8. Sound(stored)' /\ Sound(view)'
  BY DEF Sound, HasNewest, ParentsIn, KnownIn, Newest, Of
<1>9. ReportInv'
  BY DEF ReportInv, Newest, Of
<1> QED
  BY <1>1, <1>5, <1>6, <1>7, <1>8, <1>9

LEMMA ReuseIsCompare ==
    ASSUME NEW p \in Loaders, Reuse(p)
    PROVE  Compare(p)
BY DEF Reuse, ReuseHydrology, ReuseHistory, ReuseCatchments, ReuseWaterQuality,
       ReuseObservations, ReuseStream, ReuseThames

LEMMA LoaderIsQuiet ==
    ASSUME LoadsInv, NEW p \in Loaders,
           \/ Call(p) \/ TakeSourceLock(p) \/ CheckMeasure(p) \/ NotStored(p) \/ FindTwin(p)
           \/ Reuse(p) \/ DecideInsert(p) \/ AbortLoad(p)
    PROVE  Quiet(p)
<1> USE DEF LoadsInv, LoaderTypes, Quiet
<1>1. CASE Call(p)
  BY <1>1 DEF Call
<1>2. CASE TakeSourceLock(p)
  <2>1. loaderAt[p] = "waiting" /\ loading[p] \in LoadBundles
    BY <1>2 DEF TakeSourceLock
  <2>2. FirstStep(p) = IF SourceOf(p) = "hydrology-history" THEN "checking" ELSE "looking"
    BY <2>1, NoneAssumption DEF FirstStep, Loads
  <2> QED
    BY <1>2, <2>1, <2>2, NoneAssumption DEF TakeSourceLock
<1>3. CASE CheckMeasure(p)
  BY <1>3 DEF CheckMeasure
<1>4. CASE NotStored(p)
  BY <1>4 DEF NotStored, ParentInv
<1>5. CASE Reuse(p)
  <2>1. Compare(p)
    BY <1>5, ReuseIsCompare
  <2> QED
    BY <2>1, NoneAssumption DEF Compare, ParentInv
<1>8. CASE FindTwin(p)
  BY <1>8, NoneAssumption DEF FindTwin, ParentInv
<1>6. CASE DecideInsert(p)
  <2>1. UNCHANGED <<storedVars, reportVars>>
    BY <1>6 DEF DecideInsert, DecideHydrology, DecideWaterQuality, DecideObservations,
                DecidePlain, Decide
  <2>2. \/ Ends(p, "deciding", "idle")
        \/ LoaderMoves(p, "deciding", "inserting")
    BY <1>6 DEF DecideInsert, DecideHydrology, DecideWaterQuality, DecideObservations,
                DecidePlain, Decide
  <2>3. CASE Ends(p, "deciding", "idle")
    BY <2>1, <2>3
  <2>4. CASE LoaderMoves(p, "deciding", "inserting")
    <3>1. loaderAt'[p] = "inserting"
      BY <2>4
    <3>2. ~ Ends(p, "deciding", "idle")
      BY <3>1
    <3>3. SourceOf(p) = "observations" => Known(Parent[loading[p].content], "water-quality")
      BY <1>6, <3>2 DEF DecideInsert, DecideHydrology, DecideWaterQuality, DecideObservations,
                        DecidePlain, Decide, Loads
    <3>4. SourceOf(p) \in {"hydrology", "water-quality"} => ~ Incomplete(p)
      BY <1>6, <3>2 DEF DecideInsert, DecideHydrology, DecideWaterQuality, DecideObservations,
                        DecidePlain, Decide, Loads
    <3> QED
      BY <2>1, <2>4, <3>3, <3>4, NoneAssumption DEF ParentInv
  <2> QED
    BY <2>2, <2>3, <2>4
<1>7. CASE AbortLoad(p)
  BY <1>7 DEF AbortLoad
<1> QED
  BY <1>1, <1>2, <1>3, <1>4, <1>5, <1>6, <1>7, <1>8

\* The insert: other loads of the same source are not open, and what loads of other
\* sources have seen is still there.
LEMMA InsertKeeps ==
    ASSUME LoadsInv, NEW p \in Loaders, Insert(p)
    PROVE  LoadsInv'
<1> USE DEF LoadsInv, LoaderTypes, Insert
<1>1. loading[p] \in LoadBundles /\ loaderAt[p] = "inserting"
  BY NoneAssumption
<1>2. LoaderTypes'
  BY <1>1, NoneAssumption
<1>3. \A q \in Loaders \ {p} : /\ loaderAt'[q] = loaderAt[q] /\ loading'[q] = loading[q]
                               /\ SourceOf(q)' = SourceOf(q)
  BY DEF SourceOf
<1>4. loaderAt'[p] = "idle" /\ stored' = stored \cup {loading[p]}
  OBVIOUS
<1>5. \A parent, source : Known(parent, source) => Known(parent, source)'
  BY <1>4 DEF Known, Of
<1>6. SourceLockInv'
  BY <1>3, <1>4 DEF SourceLockInv
<1>7. ParentInv'
  BY <1>3, <1>4, <1>5 DEF ParentInv
<1>8. CompleteInv'
  <2> SUFFICES ASSUME NEW q \in Loaders, loaderAt'[q] = "inserting",
                      SourceOf(q)' \in {"hydrology", "water-quality"}
               PROVE  ~ Incomplete(q)'
    BY DEF CompleteInv
  <2>1. q # p /\ loaderAt[q] = "inserting" /\ SourceOf(q)' = SourceOf(q) /\ loading'[q] = loading[q]
    BY <1>3, <1>4
  <2>2. SourceOf(q) # SourceOf(p)
    BY <1>1, <2>1 DEF SourceLockInv
  <2>3. Of(stored', SourceOf(q)) = Of(stored, SourceOf(q))
    BY <1>4, <2>2 DEF Of, SourceOf
  <2>4. ~ Incomplete(q)
    BY <2>1 DEF CompleteInv
  <2> QED
    BY <2>1, <2>3, <2>4 DEF Incomplete
<1>9. Sound(stored')
  <2>1. Source[loading[p].content] = "hydrology-history" =>
          KnownIn(stored, Parent[loading[p].content], "hydrology")
    BY <1>1 DEF ParentInv, Known, KnownIn, SourceOf
  <2>2. Source[loading[p].content] = "observations" =>
          KnownIn(stored, Parent[loading[p].content], "water-quality")
    BY <1>1 DEF ParentInv, Known, KnownIn, SourceOf
  <2> QED
    BY <1>1, <1>4, <2>1, <2>2, NewestGrows
<1>10. Sound(stored)' /\ Sound(view)' /\ ReportInv'
  BY <1>9 DEF ReportInv, Sound, HasNewest, ParentsIn, KnownIn, Newest, Of
<1> QED
  BY <1>2, <1>6, <1>7, <1>8, <1>10

LEMMA PublishIsInsert ==
    ASSUME NEW p \in Loaders, PublishBundle(p)
    PROVE  Insert(p)
BY DEF PublishBundle, InsertHydrology, InsertHistory, InsertCatchments, InsertWaterQuality,
       InsertObservations, InsertStream, InsertThames

\* Damage, and the steps of the report, change neither loads nor snapshots.
LEMMA OthersKeep ==
    ASSUME LoadsInv, DamageRows \/ OpenReport \/ ReadSource \/ UNCHANGED loadsVars
    PROVE  LoadsInv'
<1> USE DEF LoadsInv
<1>1. UNCHANGED <<loadVars, stored>>
  BY DEF DamageRows, OpenReport, ReadSource
<1>2. LoaderTypes' /\ SourceLockInv' /\ ParentInv' /\ CompleteInv' /\ Sound(stored)'
  BY <1>1 DEF LoaderTypes, SourceLockInv, ParentInv, CompleteInv, SourceOf, Known, Incomplete,
              Sound, HasNewest, ParentsIn, KnownIn, Newest, Of
<1>3. view' = view \/ view' = stored
  BY DEF DamageRows, OpenReport, ReadSource
<1>4. Sound(view)'
  BY <1>3 DEF Sound, HasNewest, ParentsIn, KnownIn, Newest, Of
<1>5. ReportInv'
  <2>1. CASE ReadSource
    BY <2>1 DEF ReadSource, ReadFrom, ReportInv
  <2>2. CASE OpenReport
    BY <2>2 DEF OpenReport, ReportInv
  <2>3. CASE DamageRows \/ UNCHANGED loadsVars
    BY <2>3 DEF DamageRows, ReportInv
  <2> QED
    BY <2>1, <2>2, <2>3
<1> QED
  BY <1>2, <1>4, <1>5

LEMMA LoadsStep == LoadsInv /\ [LoadsNext]_loadsVars => LoadsInv'
<1> SUFFICES ASSUME LoadsInv, [LoadsNext]_loadsVars PROVE LoadsInv'
  OBVIOUS
<1>1. ASSUME NEW p \in Loaders, LoaderStep(p) PROVE LoadsInv'
  BY <1>1, LoaderIsQuiet, QuietKeeps, PublishIsInsert, InsertKeeps DEF LoaderStep
<1>2. CASE DamageRows \/ OpenReport \/ ReadSource \/ UNCHANGED loadsVars
  BY <1>2, OthersKeep
<1> QED
  BY <1>1, <1>2 DEF LoadsNext

-----------------------------------------------------------------------------
\* The inductive invariant of the loaders and the report.
THEOREM LoadsInvariant == LoadsSpec => []LoadsInv
BY LoadsInitial, LoadsStep, PTL DEF LoadsSpec

\* A history is never published without its measure, nor an observation without its
\* sampling point.
THEOREM ChildrenAlwaysHaveParents == LoadsSpec => []ChildrenHaveParents
<1>1. LoadsInv => ChildrenHaveParents
  BY DEF LoadsInv, Sound, ParentsIn, KnownIn, Known, ChildrenHaveParents
<1> QED
  BY <1>1, LoadsInvariant, PTL

\* The status report is one cut through the database.
THEOREM ReportAlwaysConsistent == LoadsSpec => []ReportIsConsistent
<1>1. LoadsInv => ReportIsConsistent
  <2> SUFFICES ASSUME LoadsInv PROVE ReportIsConsistent
    OBVIOUS
  <2> USE DEF LoadsInv
  <2>1. \A source \in DOMAIN report : Cardinality(report[source]) <= 1
    <3> SUFFICES ASSUME NEW source \in DOMAIN report
                 PROVE  Cardinality(report[source]) <= 1
      OBVIOUS
    <3>1. report[source] = Newest(Of(view, source)) /\ Of(view, source) \subseteq LoadBundles
      BY DEF ReportInv, Sound, Of
    <3> QED
      BY <3>1, NewestIsOne
  <2>2. ASSUME {"hydrology", "hydrology-history"} \subseteq DOMAIN report, report["hydrology"] = {}
        PROVE  report["hydrology-history"] = {}
    <3>1. Of(view, "hydrology") = {}
      BY <2>2 DEF ReportInv, Sound, HasNewest, LoadSources
    <3>2. Of(view, "hydrology-history") = {}
      BY <3>1 DEF Sound, ParentsIn, KnownIn, Of
    <3> QED
      BY <2>2, <3>2 DEF ReportInv, Newest
  <2> QED
    BY <2>1, <2>2 DEF ReportIsConsistent
<1> QED
  BY <1>1, LoadsInvariant, PTL

\* What is served never loses more than a percentage point of located features.
THEOREM ServedAlwaysComplete == LoadsSpec => ServedCompleteness
<1>1. ASSUME LoadsInv, [LoadsNext]_loadsVars, stored' # stored,
             NEW source \in {"hydrology", "water-quality"},
             NEW s \in Newest(Of(stored, source)), NEW t \in Newest(Of(stored', source))
      PROVE  Located[t.content] >= Located[s.content] - 1
  <2>1. PICK p \in Loaders : LoaderStep(p)
    BY <1>1 DEF LoadsNext, DamageRows, OpenReport, ReadSource
  <2>2. Insert(p)
    <3>1. ~ Quiet(p)
      BY <1>1 DEF Quiet
    <3> QED
      BY <1>1, <2>1, <3>1, LoaderIsQuiet, PublishIsInsert DEF LoaderStep
  <2>3. /\ stored \subseteq LoadBundles /\ stored' = stored \cup {loading[p]}
        /\ loaderAt[p] = "inserting"
    BY <1>1, <2>2 DEF Insert, LoadsInv, LoaderTypes
  <2>4. s \in LoadBundles /\ s.content \in LoadContents /\ Located[s.content] \in 0 .. 100
    BY <2>3, BundleAssumption, ContentAssumption DEF Newest, Of
  <2>5. CASE t = loading[p]
    <3>1. SourceOf(p) = source
      BY <2>5 DEF SourceOf, Newest, Of
    <3>2. ~ Incomplete(p)
      BY <1>1, <2>3, <3>1 DEF LoadsInv, CompleteInv
    <3>3. ~ (Located[t.content] < Located[s.content] - 1)
      BY <2>5, <3>1, <3>2 DEF Incomplete
    <3>4. t \in LoadBundles
      BY <1>1, <2>3, <2>5, NoneAssumption DEF LoadsInv, LoaderTypes
    <3>5. t.content \in LoadContents /\ Located[t.content] \in 0 .. 100
      BY <3>4, BundleAssumption, ContentAssumption
    <3>6. \A m, n \in 0 .. 100 : ~ (m < n - 1) => m >= n - 1
      OBVIOUS
    <3> QED
      BY <2>4, <3>3, <3>5, <3>6
  <2>6. CASE t # loading[p]
    <3>1. t \in Newest(Of(stored, source))
      BY <2>3, <2>6 DEF Newest, Of
    <3>2. s = t
      BY <2>3, <3>1, NewestUnique DEF Of
    <3> QED
      BY <2>4, <3>2
  <2> QED
    BY <2>5, <2>6
<1>2. LoadsInv /\ [LoadsNext]_loadsVars =>
        [\A source \in {"hydrology", "water-quality"} :
           \A s \in Newest(Of(stored, source)), t \in Newest(Of(stored', source)) :
             Located[t.content] >= Located[s.content] - 1]_stored
  BY <1>1
<1> QED
  BY <1>2, LoadsInvariant, PTL DEF LoadsSpec, ServedCompleteness

-----------------------------------------------------------------------------
(* The comparison of a stored content. *)

\* What an open comparison has found out: whatever was altered when the content was
\* looked up is still ahead of it, or is never read.
CompareInv ==
    /\ compared \in [Loaders -> Nat] /\ DOMAIN found = Loaders
    /\ \A p \in Loaders : loaderAt[p] # "comparing" => compared[p] = 0
    /\ \A p \in Loaders : loaderAt[p] = "comparing" =>
         /\ \E s \in stored : s.content = loading[p].content
         /\ \A table \in found[p] :
              /\ table \in PartsOf(SourceOf(p)) /\ Altered(p, table)
              /\ table = "row" => SourceOf(p) \notin ComparesAtLookUp
              /\ \A n \in 1 .. compared[p] : table # ReadBack(SourceOf(p))[n]

\* A comparison reads every part of a content but the unread columns.
LEMMA EveryPartIsRead ==
    ASSUME NEW source \in LoadSources, NEW table \in PartsOf(source), table # "unread"
    PROVE  \/ table = "row" /\ source \in ComparesAtLookUp
           \/ \E n \in 1 .. Len(ReadBack(source)) : table = ReadBack(source)[n]
<1>1. CASE source = "hydrology"
  <2>1. ReadBack(source) = <<"stations", "measures", "latest">>
    BY <1>1 DEF ReadBack
  <2>2. table \in {"row", "stations", "measures", "latest"}
    BY <1>1 DEF PartsOf
  <2> QED
    BY <1>1, <2>1, <2>2 DEF ComparesAtLookUp
<1>2. CASE source = "hydrology-history"
  <2>1. ReadBack(source) = <<"readings">>
    BY <1>2 DEF ReadBack
  <2>2. table \in {"row", "readings"}
    BY <1>2 DEF PartsOf
  <2> QED
    BY <1>2, <2>1, <2>2 DEF ComparesAtLookUp
<1>3. CASE source = "catchments"
  <2>1. ReadBack(source) = <<"districts", "management", "operational", "bodies", "geometries">>
    BY <1>3 DEF ReadBack
  <2>2. table \in {"row", "districts", "management", "operational", "bodies", "geometries"}
    BY <1>3 DEF PartsOf
  <2> QED
    BY <1>3, <2>1, <2>2 DEF ComparesAtLookUp
<1>4. CASE source = "water-quality"
  <2>1. ReadBack(source) = <<"points">>
    BY <1>4 DEF ReadBack
  <2>2. table \in {"row", "points"}
    BY <1>4 DEF PartsOf
  <2> QED
    BY <1>4, <2>1, <2>2 DEF ComparesAtLookUp
<1>5. CASE source = "observations"
  <2>1. ReadBack(source) = <<"row", "units", "observations">>
    BY <1>5 DEF ReadBack
  <2>2. table \in {"row", "units", "observations"}
    BY <1>5 DEF PartsOf
  <2> QED
    BY <2>1, <2>2
<1>6. CASE source = "stream-reservoir-levels"
  <2>1. ReadBack(source) = <<"row", "reservoirs", "levels">>
    BY <1>6 DEF ReadBack
  <2>2. table \in {"row", "reservoirs", "levels"}
    BY <1>6 DEF PartsOf
  <2> QED
    BY <2>1, <2>2
<1>7. CASE source = "thames-discharge-status"
  <2>1. ReadBack(source) = <<"row", "sites">>
    BY <1>7 DEF ReadBack
  <2>2. table \in {"row", "sites"}
    BY <1>7 DEF PartsOf
  <2> QED
    BY <2>1, <2>2
<1> QED
  BY <1>1, <1>2, <1>3, <1>4, <1>5, <1>6, <1>7 DEF LoadSources

LEMMA ReadBackIs ==
    ASSUME NEW source \in LoadSources
    PROVE  Len(ReadBack(source)) \in Nat \ {0}
BY DEF ReadBack, LoadSources

\* A step of a loader disturbs no other loader's comparison, and is a step of its own
\* comparison or leaves it without one.
LEMMA StepOfOne ==
    ASSUME LoadsInv, CompareInv, NEW p \in Loaders, LoaderStep(p)
    PROVE  /\ altered' = altered /\ stored \subseteq stored'
           /\ compared' \in [Loaders -> Nat] /\ DOMAIN found' = Loaders
           /\ \A q \in Loaders \ {p} :
                /\ loaderAt'[q] = loaderAt[q] /\ loading'[q] = loading[q]
                /\ compared'[q] = compared[q] /\ found'[q] = found[q]
           /\ \/ loaderAt'[p] # "comparing" /\ compared'[p] = 0
              \/ FindTwin(p) \/ Compare(p)
           /\ loaderAt'[p] = "existing" => Compare(p)
<1> USE DEF LoadsInv, LoaderTypes, CompareInv
<1>1. CASE Call(p)
  BY <1>1 DEF Call
<1>2. CASE TakeSourceLock(p)
  BY <1>2 DEF TakeSourceLock, FirstStep
<1>3. CASE CheckMeasure(p)
  BY <1>3 DEF CheckMeasure
<1>4. CASE NotStored(p)
  BY <1>4 DEF NotStored
<1>5. CASE FindTwin(p)
  BY <1>5 DEF FindTwin
<1>6. CASE Reuse(p)
  <2>1. Compare(p)
    BY <1>6, ReuseIsCompare
  <2>2. compared[p] + 1 \in Nat
    OBVIOUS
  <2> QED
    BY <2>1, <2>2 DEF Compare
<1>7. CASE DecideInsert(p)
  <2>1. UNCHANGED <<storedVars, reportVars>>
    BY <1>7 DEF DecideInsert, DecideHydrology, DecideWaterQuality, DecideObservations,
                DecidePlain, Decide
  <2>2. Ends(p, "deciding", "idle") \/ LoaderMoves(p, "deciding", "inserting")
    BY <1>7 DEF DecideInsert, DecideHydrology, DecideWaterQuality, DecideObservations,
                DecidePlain, Decide
  <2> QED
    BY <2>1, <2>2
<1>8. CASE PublishBundle(p)
  <2>1. Insert(p)
    BY <1>8, PublishIsInsert
  <2> QED
    BY <2>1 DEF Insert
<1>9. CASE AbortLoad(p)
  BY <1>9 DEF AbortLoad
<1> QED
  BY <1>1, <1>2, <1>3, <1>4, <1>5, <1>6, <1>7, <1>8, <1>9 DEF LoaderStep

\* The claim of CompareInv about one loader, as it is carried from step to step.
LEMMA ComparisonKept ==
    ASSUME CompareInv, NEW p \in Loaders, loaderAt[p] = "comparing",
           loading'[p] = loading[p], found'[p] = found[p], compared'[p] = compared[p],
           altered \subseteq altered', stored \subseteq stored'
    PROVE  /\ \E s \in stored' : s.content = loading'[p].content
           /\ \A table \in found'[p] :
                /\ table \in PartsOf(SourceOf(p)') /\ Altered(p, table)'
                /\ table = "row" => SourceOf(p)' \notin ComparesAtLookUp
                /\ \A n \in 1 .. compared'[p] : table # ReadBack(SourceOf(p)')[n]
<1>1. SourceOf(p)' = SourceOf(p)
  BY DEF SourceOf
<1>2. \A table : Altered(p, table) => Altered(p, table)'
  BY DEF Altered
<1> QED
  BY <1>1, <1>2 DEF CompareInv

LEMMA CompareStep ==
    ASSUME LoadsInv, CompareInv, [LoadsNext]_loadsVars
    PROVE  CompareInv'
<1>1. ASSUME NEW p \in Loaders, LoaderStep(p) PROVE CompareInv'
  <2>1. /\ altered' = altered /\ stored \subseteq stored'
        /\ compared' \in [Loaders -> Nat] /\ DOMAIN found' = Loaders
        /\ \A q \in Loaders \ {p} :
             /\ loaderAt'[q] = loaderAt[q] /\ loading'[q] = loading[q]
             /\ compared'[q] = compared[q] /\ found'[q] = found[q]
        /\ \/ loaderAt'[p] # "comparing" /\ compared'[p] = 0
           \/ FindTwin(p) \/ Compare(p)
    BY <1>1, StepOfOne
  <2>2. ASSUME NEW q \in Loaders, loaderAt'[q] # "comparing" PROVE compared'[q] = 0
    <3>1. CASE q # p
      BY <2>1, <2>2, <3>1 DEF CompareInv
    <3>2. CASE q = p /\ FindTwin(p)
      BY <2>2, <3>2 DEF FindTwin, LoadsInv, LoaderTypes, CompareInv
    <3>3. CASE q = p /\ Compare(p)
      BY <2>2, <3>3 DEF Compare, LoadsInv, LoaderTypes, CompareInv
    <3> QED
      BY <2>1, <3>1, <3>2, <3>3
  <2>3. ASSUME NEW q \in Loaders, loaderAt'[q] = "comparing"
        PROVE  /\ \E s \in stored' : s.content = loading'[q].content
               /\ \A table \in found'[q] :
                    /\ table \in PartsOf(SourceOf(q)') /\ Altered(q, table)'
                    /\ table = "row" => SourceOf(q)' \notin ComparesAtLookUp
                    /\ \A n \in 1 .. compared'[q] : table # ReadBack(SourceOf(q)')[n]
    <3>1. CASE q # p
      BY <2>1, <2>3, <3>1, ComparisonKept
    <3>2. CASE q = p /\ FindTwin(p)
      <4>1. /\ loading'[p] = loading[p] /\ compared'[p] = 0
            /\ found'[p] = {table \in PartsOf(SourceOf(p)) : Altered(p, table)}
            /\ ~ (SourceOf(p) \in ComparesAtLookUp /\ Altered(p, "row"))
            /\ Twin(p) # {} /\ altered' = altered /\ stored' = stored
        BY <2>3, <3>2 DEF FindTwin, LoadsInv, LoaderTypes, CompareInv
      <4>2. SourceOf(p)' = SourceOf(p) /\ \A table : Altered(p, table)' <=> Altered(p, table)
        BY <4>1 DEF SourceOf, Altered
      <4>3. \E s \in stored' : s.content = loading'[p].content
        BY <4>1 DEF Twin
      <4>4. 1 .. compared'[p] = {}
        BY <4>1
      <4> QED
        BY <3>2, <4>1, <4>2, <4>3, <4>4
    <3>3. CASE q = p /\ Compare(p)
      <4> PICK m : m = compared[p] + 1
        OBVIOUS
      <4>1. /\ loaderAt[p] = "comparing" /\ loading'[p] = loading[p] /\ compared'[p] = m
            /\ found'[p] = found[p] /\ altered' = altered /\ stored' = stored
            /\ ~ Altered(p, ReadBack(SourceOf(p))[m])
        BY <2>3, <3>3 DEF Compare, LoadsInv, LoaderTypes, CompareInv
      <4>2. SourceOf(p)' = SourceOf(p) /\ \A table : Altered(p, table)' <=> Altered(p, table)
        BY <4>1 DEF SourceOf, Altered
      <4>3. compared[p] \in Nat
        BY DEF CompareInv
      <4>4. \A n \in 1 .. m : n = m \/ n \in 1 .. compared[p]
        BY <4>3
      <4>5. \A table \in found[p] : \A n \in 1 .. m : table # ReadBack(SourceOf(p))[n]
        BY <4>1, <4>4 DEF CompareInv
      <4> QED
        BY <3>3, <4>1, <4>2, <4>5 DEF CompareInv
    <3> QED
      BY <2>1, <2>3, <3>1, <3>2, <3>3
  <2> QED
    BY <2>1, <2>2, <2>3 DEF CompareInv
<1>2. CASE DamageRows \/ OpenReport \/ ReadSource \/ UNCHANGED loadsVars
  <2>1. UNCHANGED <<loadVars, stored>> /\ altered \subseteq altered'
    BY <1>2 DEF DamageRows, OpenReport, ReadSource
  <2>2. /\ loaderAt' = loaderAt /\ loading' = loading /\ compared' = compared
        /\ found' = found /\ stored' = stored
    BY <2>1
  <2> QED
    BY <2>1, <2>2, ComparisonKept DEF CompareInv
<1> QED
  BY <1>1, <1>2 DEF LoadsNext

\* When the last statement's rows are those of the bundle, nothing that is ever read
\* was altered at the look-up.
LEMMA ComparisonEnds ==
    ASSUME LoadsInv, CompareInv, NEW p \in Loaders, Compare(p), loaderAt'[p] = "existing"
    PROVE  /\ \E s \in stored : s.content = loading[p].content
           /\ found[p] \subseteq {"unread"}
<1> PICK m : m = compared[p] + 1
  OBVIOUS
<1>1. /\ loaderAt[p] = "comparing" /\ m = Len(ReadBack(SourceOf(p)))
      /\ ~ Altered(p, ReadBack(SourceOf(p))[m])
  BY DEF Compare, LoadsInv, LoaderTypes
<1>2. SourceOf(p) \in LoadSources
  <2>1. loading[p] \in LoadBundles
    BY <1>1 DEF LoadsInv, LoaderTypes
  <2> QED
    BY <2>1, BundleAssumption, ContentAssumption DEF SourceOf
<1>3. ASSUME NEW table \in found[p], table # "unread" PROVE FALSE
  <2>1. /\ table \in PartsOf(SourceOf(p)) /\ Altered(p, table)
        /\ table = "row" => SourceOf(p) \notin ComparesAtLookUp
        /\ \A n \in 1 .. compared[p] : table # ReadBack(SourceOf(p))[n]
    BY <1>1 DEF CompareInv
  <2>2. PICK n \in 1 .. Len(ReadBack(SourceOf(p))) : table = ReadBack(SourceOf(p))[n]
    BY <1>2, <1>3, <2>1, EveryPartIsRead
  <2>3. n # m
    BY <1>1, <2>1, <2>2
  <2>4. n \in 1 .. compared[p]
    BY <1>1, <2>2, <2>3 DEF CompareInv
  <2> QED
    BY <2>1, <2>2, <2>4
<1> QED
  BY <1>1, <1>3 DEF CompareInv

\* "existing" is answered only for a content nothing of which that a comparison reads
\* was altered when it was looked up.
THEOREM ExistingAlwaysVerified == LoadsSpec => ExistingWasVerified
<1>1. LoadsInit => CompareInv
  BY DEF LoadsInit, CompareInv
<1>2. LoadsInv /\ CompareInv /\ [LoadsNext]_loadsVars => CompareInv'
  BY CompareStep
<1>3. ASSUME LoadsInv, CompareInv, [LoadsNext]_loadsVars, NEW p \in Loaders,
             loaderAt[p] # "existing", loaderAt'[p] = "existing"
      PROVE  /\ \E s \in stored : s.content = loading[p].content
             /\ found[p] \subseteq {"unread"}
  <2>1. PICK q \in Loaders : LoaderStep(q)
    BY <1>3 DEF LoadsNext, DamageRows, OpenReport, ReadSource
  <2>2. q = p
    BY <1>3, <2>1, StepOfOne
  <2>3. Compare(p)
    BY <1>3, <2>1, <2>2, StepOfOne
  <2> QED
    BY <1>3, <2>3, ComparisonEnds
<1>4. LoadsInv /\ CompareInv /\ [LoadsNext]_loadsVars =>
        [\A p \in Loaders : loaderAt[p] # "existing" /\ loaderAt'[p] = "existing" =>
           /\ \E s \in stored : s.content = loading[p].content
           /\ found[p] \subseteq {"unread"}]_loaderAt
  BY <1>3
<1> QED
  BY <1>1, <1>2, <1>4, LoadsInvariant, PTL DEF LoadsSpec, ExistingWasVerified

HIDE DEF loadVars, storedVars, reportVars, loadsVars, InLoad, LoaderMoves, Ends

-----------------------------------------------------------------------------
(***************************************************************************)
(* Both families side by side: in the database, what holds of each family  *)
(* by itself holds, since neither reads nor writes what is the other's.    *)
(***************************************************************************)

LEMMA NationalPartSpec == DatabaseSpec => Spec
<1>1. DatabaseInit => Init
  BY DEF DatabaseInit
<1>2. [DatabaseNext]_databaseVars => [Next]_vars
  BY DEF DatabaseNext, NationalPart, LoadsPart, DamagedPart, databaseVars
<1> QED
  BY <1>1, <1>2, PTL DEF DatabaseSpec, Spec

LEMMA LoadsPartSpec == DatabaseSpec => LoadsSpec
<1>1. DatabaseInit => LoadsInit
  BY DEF DatabaseInit
<1>2. [DatabaseNext]_databaseVars => [LoadsNext]_loadsVars
  BY DEF DatabaseNext, NationalPart, LoadsPart, DamagedPart, databaseVars
<1> QED
  BY <1>1, <1>2, PTL DEF DatabaseSpec, LoadsSpec

\* What is proved of the families is true of the database that holds both
\* (watergeo/db/phase15.py, watergeo/db/*_ingestion.py).
THEOREM DatabaseAlwaysSound ==
    DatabaseSpec =>
        /\ [](PublicationStands /\ ChildrenHaveParents /\ ReportIsConsistent)
        /\ ServesLatest /\ ServedCompleteness /\ ExistingWasVerified
BY NationalPartSpec, LoadsPartSpec, PublicationAlwaysStands,
   ChildrenAlwaysHaveParents, ReportAlwaysConsistent, JobsServeLatest, ServedAlwaysComplete,
   ExistingAlwaysVerified, PTL
=============================================================================
