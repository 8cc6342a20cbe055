----------------------------- MODULE SnapshotLoads -----------------------------
(***************************************************************************)
(* The loaders of the Environment Agency, Stream and Thames Water sources  *)
(* (db/*_ingestion.py) on one database, and the status report that reads   *)
(* all sources (db/source_status.py).                                      *)
(*                                                                         *)
(* Every loader is one READ COMMITTED transaction: it takes the advisory   *)
(* lock of its own source, looks up its bundle's content, decides, inserts *)
(* and commits; nothing is ever updated or deleted.  The locks of two      *)
(* sources do not exclude each other, although the hydrology history needs *)
(* a measure of a hydrology snapshot and water quality observations need a *)
(* sampling point.  A content that is stored is compared one statement     *)
(* after the other, each on what is committed when it starts.  The report  *)
(* is one REPEATABLE READ transaction.                                     *)
(***************************************************************************)
EXTENDS Integers, FiniteSets, Sequences

CONSTANTS
    Loaders,       \* processes that load one bundle after the other
    LoadContents,  \* what bundles hold, each the content of one source
    Source,        \* the source of each content
    Located,       \* its located features in percent, where the loader counts them
    Members,       \* the measures or sampling points it has
    Parent,        \* the measure or sampling point a history or observation is of
    Uuid,          \* the identity its snapshot gets, which decides between equal times
    LoadBundles,   \* the validated evidence directories: [content, completed]
    MaxCalls,      \* bound on loads
    MaxRowDamages, \* bound on tables altered behind the program's back
    NoLoad

LoadSources == {"hydrology", "hydrology-history", "catchments", "water-quality",
            "observations", "stream-reservoir-levels", "thames-discharge-status"}

\* The report reads them one after the other, in the order of its dictionary.
ReportOrder == <<"water-quality", "hydrology", "hydrology-history", "catchments",
                 "stream-reservoir-levels", "thames-discharge-status">>

Reported == {ReportOrder[n] : n \in 1 .. Len(ReportOrder)}

ASSUME ContentAssumption ==
    /\ Source \in [LoadContents -> LoadSources]
    /\ Located \in [LoadContents -> 0 .. 100]
    /\ Uuid \in [LoadContents -> Nat]
    /\ \A c, d \in LoadContents : Uuid[c] = Uuid[d] => c = d

\* A committed snapshot has the content and the time of the bundle it came from.
ASSUME BundleAssumption == LoadBundles \subseteq [content : LoadContents, completed : Nat]

ASSUME BoundAssumption == MaxCalls \in Nat /\ MaxRowDamages \in Nat

ASSUME NoneAssumption == NoLoad \notin LoadBundles

VARIABLES
    loaderAt, \* where each loader is
    loading,  \* the bundle it loads, NoLoad between loads
    calls,    \* how many loads have been called
    stored,   \* committed snapshots and retrievals, of all sources
    compared, \* how many statements of a comparison have been answered
    found,    \* the altered parts of the stored content when it was looked up
    altered,  \* contents with a part that is no longer what was loaded
    view,     \* the database as the report's transaction sees it
    report    \* the row found so far for each source: a set of at most one

loadVars   == <<loaderAt, loading, calls, compared, found>>
storedVars == <<stored, altered>>
reportVars == <<view, report>>
loadsVars  == <<loadVars, storedVars, reportVars>>

\* The steps of an open transaction, after the lock is granted.
InLoad == {"checking", "looking", "comparing", "deciding", "inserting"}

\* What is stored of a content: the row of its snapshot or retrieval, the rows of
\* the tables below it, and columns that no comparison reads (its times and window,
\* the geometry of a Thames Water site).
PartsOf(source) ==
    {"row", "unread"} \cup
        CASE source = "hydrology" -> {"stations", "measures", "latest"}
          [] source = "hydrology-history" -> {"readings"}
          [] source = "catchments" ->
               {"districts", "management", "operational", "bodies", "geometries"}
          [] source = "water-quality" -> {"points"}
          [] source = "observations" -> {"units", "observations"}
          [] source = "stream-reservoir-levels" -> {"reservoirs", "levels"}
          [] source = "thames-discharge-status" -> {"sites"}

LoadsInit ==
    /\ loaderAt = [p \in Loaders |-> "idle"]
    /\ loading = [p \in Loaders |-> NoLoad]
    /\ calls = 0
    /\ compared = [p \in Loaders |-> 0]
    /\ found = [p \in Loaders |-> {}]
    /\ stored = {}
    /\ altered = {}
    /\ view = {}
    /\ report = [s \in {} |-> {}]

-----------------------------------------------------------------------------
(* The committed rows. *)

SourceOf(p) == Source[loading[p].content]

Loads(p, source) == loading[p] # NoLoad /\ SourceOf(p) = source

Of(rows, source) == {s \in rows : Source[s.content] = source}

\* ORDER BY retrieval_completed_at DESC, id DESC
NewerSnapshot(s, t) ==
    \/ s.completed > t.completed
    \/ s.completed = t.completed /\ Uuid[s.content] > Uuid[t.content]

\* LIMIT 1: no row, or one.
Newest(rows) == {s \in rows : ~ \E t \in rows : NewerSnapshot(t, s)}

\* WHERE content_sha256 = :hash AND normalization_version = :version
Twin(p) == {s \in stored : s.content = loading[p].content}

-----------------------------------------------------------------------------
(* The loaders. *)

LoaderMoves(p, from, to) ==
    /\ loaderAt[p] = from
    /\ loaderAt' = [loaderAt EXCEPT ![p] = to]
    /\ UNCHANGED <<loading, calls, compared, found>>

\* The transaction ends, and with it the load.
Ends(p, from, result) ==
    /\ loaderAt[p] = from
    /\ loaderAt' = [loaderAt EXCEPT ![p] = result]
    /\ loading' = [loading EXCEPT ![p] = NoLoad]
    /\ compared' = [compared EXCEPT ![p] = 0]
    /\ found' = [found EXCEPT ![p] = {}]
    /\ UNCHANGED calls

\* A loader is called with a bundle that read_snapshot has accepted.
Call(p) ==
    /\ loaderAt[p] \in {"idle", "existing"}
    /\ calls < MaxCalls
    /\ calls' = calls + 1
    /\ loaderAt' = [loaderAt EXCEPT ![p] = "waiting"]
    /\ \E b \in LoadBundles : loading' = [loading EXCEPT ![p] = b]
    /\ UNCHANGED <<compared, found, storedVars, reportVars>>

FirstStep(p) == IF Loads(p, "hydrology-history") THEN "checking" ELSE "looking"

\* Fault: loads of a source do not wait for each other.
TakeSourceLockShared(p) ==
    /\ LoaderMoves(p, "waiting", FirstStep(p))
    /\ UNCHANGED <<storedVars, reportVars>>

\* pg_advisory_xact_lock(1464296783, k): one k for each source, held until the
\* transaction ends.
TakeSourceLock(p) ==
    /\ LoaderMoves(p, "waiting", FirstStep(p))
    /\ \A q \in Loaders : loaderAt[q] \in InLoad => SourceOf(q) # SourceOf(p)
    /\ UNCHANGED <<storedVars, reportVars>>

\* Is the parent in a committed snapshot of that source, whichever it is?
Known(parent, source) == \E s \in Of(stored, source) : parent \in Members[s.content]

\* Fault: a history is loaded whatever its measure.
CheckMeasureSkipped(p) ==
    /\ LoaderMoves(p, "checking", "looking")
    /\ UNCHANGED <<storedVars, reportVars>>

\* The measure of a history must be known, before anything else is looked up.
CheckMeasure(p) ==
    /\ loaderAt[p] = "checking"
    /\ IF Known(Parent[loading[p].content], "hydrology")
         THEN LoaderMoves(p, "checking", "looking")
         ELSE Ends(p, "checking", "idle")
    /\ UNCHANGED <<storedVars, reportVars>>

\* The content is not stored yet.
NotStored(p) ==
    /\ LoaderMoves(p, "looking", "deciding")
    /\ Twin(p) = {}
    /\ UNCHANGED <<storedVars, reportVars>>

Altered(p, table) == <<loading[p].content, table>> \in altered

\* These look the snapshot's row up with the hash and counts it is compared by.
ComparesAtLookUp == {"hydrology", "hydrology-history", "catchments", "water-quality"}

\* What is read back for the comparison, one statement after the other.
ReadBack(source) ==
    CASE source = "hydrology" -> <<"stations", "measures", "latest">>
      [] source = "hydrology-history" -> <<"readings">>
      [] source = "catchments" ->
           <<"districts", "management", "operational", "bodies", "geometries">>
      [] source = "water-quality" -> <<"points">>
      [] source = "observations" -> <<"row", "units", "observations">>
      [] source = "stream-reservoir-levels" -> <<"row", "reservoirs", "levels">>
      [] source = "thames-discharge-status" -> <<"row", "sites">>

\* The content is stored: it is compared, and nothing is written.
FindTwin(p) ==
    /\ loaderAt[p] = "looking"
    /\ Twin(p) # {}
    /\ IF SourceOf(p) \in ComparesAtLookUp /\ Altered(p, "row")
         THEN Ends(p, "looking", "idle")
         ELSE /\ loaderAt' = [loaderAt EXCEPT ![p] = "comparing"]
              /\ found' = [found EXCEPT ![p] = {table \in PartsOf(SourceOf(p)) : Altered(p, table)}]
              /\ UNCHANGED <<loading, calls, compared>>
    /\ UNCHANGED <<storedVars, reportVars>>

\* The next statement's rows are those of the bundle or the load fails; after the
\* last one the content is said to be stored already.
Compare(p) ==
    LET n == compared[p] + 1
        tables == ReadBack(SourceOf(p))
    IN
    /\ loaderAt[p] = "comparing"
    /\ IF Altered(p, tables[n]) THEN Ends(p, "comparing", "idle")
       ELSE IF n = Len(tables) THEN Ends(p, "comparing", "existing")
       ELSE /\ compared' = [compared EXCEPT ![p] = n]
            /\ UNCHANGED <<loaderAt, loading, calls, found>>
    /\ UNCHANGED <<storedVars, reportVars>>

\* Fault: the last statement's rows are not compared.
CompareAllButLast(p) ==
    LET n == compared[p] + 1
        tables == ReadBack(SourceOf(p))
    IN
    /\ loaderAt[p] = "comparing"
    /\ IF n = Len(tables) THEN Ends(p, "comparing", "existing")
       ELSE IF Altered(p, tables[n]) THEN Ends(p, "comparing", "idle")
       ELSE /\ compared' = [compared EXCEPT ![p] = n]
            /\ UNCHANGED <<loaderAt, loading, calls, found>>
    /\ UNCHANGED <<storedVars, reportVars>>

ReuseHydrology(p)    == Loads(p, "hydrology") /\ Compare(p)
ReuseHistory(p)      == Loads(p, "hydrology-history") /\ Compare(p)
ReuseCatchments(p)   == Loads(p, "catchments") /\ Compare(p)
ReuseWaterQuality(p) == Loads(p, "water-quality") /\ Compare(p)
ReuseObservations(p) == Loads(p, "observations") /\ Compare(p)

\* Fault: the readings of a stored edition are taken for those of the bundle.
ReuseStreamUnread(p) == Loads(p, "stream-reservoir-levels") /\ CompareAllButLast(p)

ReuseStream(p)       == Loads(p, "stream-reservoir-levels") /\ Compare(p)
ReuseThames(p)       == Loads(p, "thames-discharge-status") /\ Compare(p)

\* More than a percentage point fewer located features than in the newest snapshot.
Incomplete(p) ==
    \E s \in Newest(Of(stored, SourceOf(p))) :
        Located[loading[p].content] < Located[s.content] - 1

\* A refused bundle raises, which rolls the transaction back.
Decide(p, refused) ==
    /\ IF refused THEN Ends(p, "deciding", "idle") ELSE LoaderMoves(p, "deciding", "inserting")
    /\ UNCHANGED <<storedVars, reportVars>>

DecideHydrology(p) == Loads(p, "hydrology") /\ Decide(p, Incomplete(p))

DecideWaterQuality(p) == Loads(p, "water-quality") /\ Decide(p, Incomplete(p))

DecideObservations(p) ==
    /\ Loads(p, "observations")
    /\ Decide(p, ~ Known(Parent[loading[p].content], "water-quality"))

\* Nothing to compare with.
DecidePlain(p) ==
    /\ \E source \in {"hydrology-history", "catchments", "stream-reservoir-levels",
                      "thames-discharge-status"} : Loads(p, source)
    /\ Decide(p, FALSE)

\* The snapshot row and its child rows are inserted, and the transaction commits.
Insert(p) ==
    /\ Ends(p, "inserting", "idle")
    /\ stored' = stored \cup {loading[p]}
    /\ UNCHANGED <<altered, reportVars>>

InsertHydrology(p)    == Loads(p, "hydrology") /\ Insert(p)
InsertHistory(p)      == Loads(p, "hydrology-history") /\ Insert(p)
InsertCatchments(p)   == Loads(p, "catchments") /\ Insert(p)
InsertWaterQuality(p) == Loads(p, "water-quality") /\ Insert(p)

\* These three read the rows back before they commit; the rows are still as sent.
InsertObservations(p) == Loads(p, "observations") /\ Insert(p)
InsertStream(p)       == Loads(p, "stream-reservoir-levels") /\ Insert(p)
InsertThames(p)       == Loads(p, "thames-discharge-status") /\ Insert(p)

\* The process dies, the connection breaks or a statement fails: rolled back.
AbortLoad(p) ==
    /\ loaderAt[p] \in InLoad \cup {"waiting"}
    /\ Ends(p, loaderAt[p], "idle")
    /\ UNCHANGED <<storedVars, reportVars>>

\* A privileged session alters stored rows, but not the identifiers of features.
DamageRows ==
    /\ Cardinality(altered) < MaxRowDamages
    /\ \E s \in stored : \E table \in PartsOf(Source[s.content]) :
         altered' = altered \cup {<<s.content, table>>}
    /\ UNCHANGED <<loadVars, stored, reportVars>>

-----------------------------------------------------------------------------
(* The status report. *)

\* BEGIN ISOLATION LEVEL REPEATABLE READ; SELECT transaction_timestamp()
OpenReport ==
    /\ view' = stored
    /\ report' = [s \in {} |-> {}]
    /\ UNCHANGED <<loadVars, storedVars>>

Unread == {n \in 1 .. Len(ReportOrder) : ReportOrder[n] \notin DOMAIN report}

\* The next query of the report, on the rows it can see.
ReadFrom(rows) ==
    \E n \in Unread :
        /\ \A m \in Unread : n <= m
        /\ report' = [s \in DOMAIN report \cup {ReportOrder[n]} |->
                        IF s \in DOMAIN report THEN report[s] ELSE Newest(Of(rows, s))]

\* Fault: each query sees what is committed when it starts.
ReadSourceCommitted ==
    /\ ReadFrom(stored)
    /\ view' = stored
    /\ UNCHANGED <<loadVars, storedVars>>

ReadSource ==
    /\ ReadFrom(view)
    /\ UNCHANGED <<view, loadVars, storedVars>>

-----------------------------------------------------------------------------
Reuse(p) ==
    \/ ReuseHydrology(p) \/ ReuseHistory(p) \/ ReuseCatchments(p) \/ ReuseWaterQuality(p)
    \/ ReuseObservations(p) \/ ReuseStream(p) \/ ReuseThames(p)

DecideInsert(p) ==
    \/ DecideHydrology(p) \/ DecideWaterQuality(p)
    \/ DecideObservations(p) \/ DecidePlain(p)

PublishBundle(p) ==
    \/ InsertHydrology(p) \/ InsertHistory(p) \/ InsertCatchments(p) \/ InsertWaterQuality(p)
    \/ InsertObservations(p) \/ InsertStream(p) \/ InsertThames(p)

LoaderStep(p) ==
    \/ Call(p) \/ TakeSourceLock(p) \/ CheckMeasure(p) \/ NotStored(p) \/ FindTwin(p) \/ Reuse(p)
    \/ DecideInsert(p) \/ PublishBundle(p) \/ AbortLoad(p)

LoadsNext == (\E p \in Loaders : LoaderStep(p)) \/ DamageRows \/ OpenReport \/ ReadSource

LoadsSpec == LoadsInit /\ [][LoadsNext]_loadsVars

-----------------------------------------------------------------------------
LoadsTypeOK ==
    /\ loaderAt \in [Loaders -> InLoad \cup {"idle", "waiting", "existing"}]
    /\ loading \in [Loaders -> LoadBundles \cup {NoLoad}]
    /\ \A p \in Loaders : loading[p] = NoLoad <=> loaderAt[p] \in {"idle", "existing"}
    /\ calls \in 0 .. MaxCalls
    /\ compared \in [Loaders -> Nat]
    /\ \A p \in Loaders : loaderAt[p] = "comparing" => compared[p] < Len(ReadBack(SourceOf(p)))
    /\ \A p \in Loaders : compared[p] > 0 \/ found[p] # {} => loaderAt[p] = "comparing"
    /\ stored \subseteq LoadBundles
    /\ \A damage \in altered :
         \E s \in stored : damage[1] = s.content /\ damage[2] \in PartsOf(Source[s.content])
    /\ view \subseteq LoadBundles
    /\ DOMAIN report \subseteq Reported
    /\ \A s \in DOMAIN report : report[s] \subseteq view /\ Cardinality(report[s]) <= 1

\* What readers are served never loses more than a percentage point of located
\* features from one snapshot to the next, in whatever order bundles are loaded
\* (docs/data-sources/environment-agency-hydrology.md, line 149).
ServedCompleteness ==
    [][\A source \in {"hydrology", "water-quality"} :
         \A s \in Newest(Of(stored, source)), t \in Newest(Of(stored', source)) :
             Located[t.content] >= Located[s.content] - 1]_stored

\* "existing" is answered only for a content of which nothing but unread columns
\* was altered when it was looked up, although its tables are compared in several
\* statements, each with a cut of its own.  (What is altered between them, behind
\* the statement that has read it, is not noticed.)
ExistingWasVerified ==
    [][\A p \in Loaders : loaderAt[p] # "existing" /\ loaderAt'[p] = "existing" =>
         /\ \E s \in stored : s.content = loading[p].content
         /\ found[p] \subseteq {"unread"}]_loaderAt

\* A published history or observation belongs to a measure or sampling point that
\* is published as well, although the two are loaded under different locks.
ChildrenHaveParents ==
    \A s \in stored :
        /\ Source[s.content] = "hydrology-history" => Known(Parent[s.content], "hydrology")
        /\ Source[s.content] = "observations" => Known(Parent[s.content], "water-quality")

\* A report is one cut through the database, with at most one row for each source:
\* it never shows a hydrology history next to hydrology data that is said to be
\* unavailable, although it reads the hydrology first and both may be loaded between
\* the two queries.
ReportIsConsistent ==
    /\ \A source \in DOMAIN report : Cardinality(report[source]) <= 1
    /\ {"hydrology", "hydrology-history"} \subseteq DOMAIN report =>
        (report["hydrology"] = {} => report["hydrology-history"] = {})
=============================================================================
