------------------------------ MODULE Retrieval ------------------------------
(***************************************************************************)
(* One retrieval of any source (ingestion/*_client.py): requests with      *)
(* retries to a publisher whose data may change between two answers, every *)
(* body on disk, a manifest last; and what a reader of the directory gets  *)
(* at any moment, also after a crash or a power failure.  The next request *)
(* of a source is a function of the answers so far, in the order of its    *)
(* fetch function; its reader checks the whole directory at once.          *)
(***************************************************************************)
EXTENDS Normalisers

CONSTANTS
    Sources,       \* the sources considered
    Worlds,        \* what the publisher of each source may serve, by version
    PageLimit,     \* records of a page
    PagesOfCollection,      \* pages of a collection
    ResponseLimit,          \* records of a list that is asked for as one response
    MaxChanges,    \* bound: changes of the publisher during a retrieval
    Window,        \* the window of a history retrieval
    Scope,         \* the scope of an observation retrieval
    Measure        \* the measure of a history retrieval

ASSUME SourcesAssumption ==
    Sources \subseteq {"hydrology", "history", "points", "observations", "reservoirs",
                       "discharges", "catchments", "rainfall", "bathing", "floods", "companies"}

\* What a publisher serves as lists.
ListsOf(s) ==
    CASE s = "hydrology" -> {"stations", "measures", "latest"}
      [] s = "history" -> {"readings"}
      [] s = "points" -> {"points"}
      [] s = "observations" -> {"observations"}
      [] s = "reservoirs" -> {"levels"}
      [] s = "discharges" -> {"sites"}
      [] s = "catchments" -> {}
      [] s = "rainfall" -> {"gauges", "rain"}
      [] s = "bathing" -> {"waters"}
      [] s = "floods" -> {"warnings"}
      [] s = "companies" -> {"facts"}

Levels == {"district", "management", "operational"}

\* Lists, finite sets of links, times that can be compared, codes under their own names.
ASSUME WorldsAssumption ==
    \A s \in Sources : \A v \in DOMAIN Worlds[s] :
        LET w == Worlds[s][v] IN
        /\ \A k \in ListsOf(s) : w[k] \in Seq(Members(w[k]))
        /\ s = "catchments" =>
             /\ IsFiniteSet(w.root)
             /\ \A l \in Levels : \A id \in DOMAIN w[l] : IsFiniteSet(w[l][id].children)
        /\ s = "rainfall" =>
             /\ \A g \in Members(w.gauges) : g.measures \in Seq(Members(g.measures))
             /\ \A r \in Members(w.rain) : r.at \in Int
        /\ s = "observations" => \A a \in DOMAIN w.codes : w.codes[a].id = a

\* What makes sense of the client's limits.
ASSUME RetrievalAssumption ==
    /\ PageLimit \in Nat \ {0} /\ PagesOfCollection \in Nat \ {0}
    /\ ResponseLimit \in Nat \ {0} /\ RecordsOfRetrieval \in Nat /\ MaxChanges \in Nat

VARIABLES
    source,        \* whose retrieval this is
    version,       \* what the publisher serves now
    changes,       \* how often it has changed
    retrievalAt,            \* where the retrieval is
    attempt,       \* failed attempts of the current request
    entries,       \* requests answered so far and their bodies
    lost,          \* a power failure has taken or torn a response file
    manifest       \* "none", "pending", "torn" or "whole"

retrievalVars == <<source, version, changes, retrievalAt, attempt, entries, lost, manifest>>

World == Worlds[source][version]
Running == retrievalAt \in {"requesting", "completing", "naming"}

Done == <<"done">>
Fail == <<"fail">>

\* The answers to requests of one kind, in order, and the records in some answers.
Of(es, kind) ==
    FlattenSeq([i \in DOMAIN es |-> IF es[i].req[1] = kind THEN <<es[i]>> ELSE <<>>])
ItemsIn(es) == FlattenSeq([i \in DOMAIN es |-> es[i].body.items])
ItemsOf(es, kind) == ItemsIn(Of(es, kind))
LastBody(es) == es[Len(es)].body
LastKind(es) == es[Len(es)].req[1]
Entry(req, body) == [req |-> req, body |-> body]

-----------------------------------------------------------------------------
(* One request.  An answer is a body or one of the ways to have none; what is *)
(* worth another attempt differs between the clients.                         *)

Troubles == {"busy", "broken", "forbidden", "redirected", "refused",
             "mistyped", "unversioned", "oversized"}

Transient == {"busy", "broken"}

HydrologyRetries == Transient
HistoryRetries == Transient
PointsRetries == Transient
ObservationsRetries == Transient
ReservoirsRetries == Transient
DischargesRetries == Transient
CatchmentsRetries == Transient \cup {"forbidden"}
NationalRetries == {}

Retries ==
    CASE source = "hydrology" -> HydrologyRetries
      [] source = "history" -> HistoryRetries
      [] source = "points" -> PointsRetries
      [] source = "observations" -> ObservationsRetries
      [] source = "reservoirs" -> ReservoirsRetries
      [] source = "discharges" -> DischargesRetries
      [] source = "catchments" -> CatchmentsRetries
      [] OTHER -> NationalRetries

-----------------------------------------------------------------------------
(* What is asked for next, given the answers so far. *)

\* Collections in a fixed order, each until a page that is not full.  What this
\* page has brought is checked against all earlier pages of its collection.
HydrologyNext(es) ==
    LET k == LastKind(es) IN
    IF es = <<>> THEN <<"stations", 0>>
    ELSE IF ~ Distinct(ItemsOf(es, k)) \/ Len(ItemsOf(es, k)) > RecordsOfRetrieval THEN Fail
    ELSE IF Len(LastBody(es).items) < PageLimit
         THEN CASE k = "stations" -> <<"measures", 0>>
                [] k = "measures" -> <<"latest", 0>>
                [] OTHER -> Done
    ELSE IF Len(Of(es, k)) = PagesOfCollection THEN Fail
    ELSE <<k, Len(ItemsOf(es, k))>>

\* Fault: a full page is taken for the last one.
HistoryFirstPage(es) ==
    LET got == ItemsOf(es, "readings") IN
    IF es = <<>> THEN <<"readings", 0>>
    ELSE IF HistoryAccepted(Measure, got) /\ InWindow(got, Window) THEN Done ELSE Fail

\* The readings of a measure; what is complete is normalised before the manifest.
HistoryNext(es) ==
    LET got == ItemsOf(es, "readings") IN
    IF es = <<>> THEN <<"readings", 0>>
    ELSE IF ~ Distinct(got) \/ Len(got) > RecordsOfRetrieval THEN Fail
    ELSE IF Len(LastBody(es).items) < PageLimit
         THEN IF HistoryAccepted(Measure, got) /\ InWindow(got, Window) THEN Done ELSE Fail
    ELSE IF Len(es) = PagesOfCollection THEN Fail
    ELSE <<"readings", Len(got)>>

\* A page is as long as the total it announces leaves room for.
FullPage(e) ==
    LET room == e.body.total - e.req[2]
    IN  room >= 0 /\ Len(e.body.items) = IF room < PageLimit THEN room ELSE PageLimit

\* Fault: every page is held against its own total only.
OwnTotal(es, kind) == TRUE

SameTotal(es, kind) ==
    \A e, f \in Members(Of(es, kind)) : e.body.total = f.body.total

PointsNext(es) ==
    LET got == ItemsOf(es, "points") IN
    IF es = <<>> THEN <<"points", 0>>
    ELSE IF \/ LastBody(es).total \notin 1..RecordsOfRetrieval \/ ~ FullPage(es[Len(es)])
            \/ ~ SameTotal(es, "points") \/ ~ Distinct(got) THEN Fail
    ELSE IF Len(got) = LastBody(es).total THEN Done
    ELSE IF Len(LastBody(es).items) = 0 \/ Len(es) = PagesOfCollection THEN Fail
    ELSE <<"points", Len(got)>>

\* The units the observations refer to, in order.
ReferencedUnits(observations) == SetToSeq({o.unit.id : o \in Members(observations)})

\* Observations, then the determinand, then every unit they refer to.
ObservationsNext(es) ==
    LET got == ItemsOf(es, "observations")
        units == ReferencedUnits(got)
        asked == Len(Of(es, "unit"))
        codes == [i \in 1..asked |-> Of(es, "unit")[i].body.items[1]]
    IN
    IF es = <<>> THEN <<"observations", 0>>
    ELSE IF LastKind(es) = "observations"
    THEN IF \/ LastBody(es).total > RecordsOfRetrieval \/ ~ FullPage(es[Len(es)])
            \/ ~ SameTotal(es, "observations") \/ ~ Distinct(got) THEN Fail
         ELSE IF Len(got) = LastBody(es).total THEN <<"determinand", Scope.determinand>>
         ELSE IF Len(es) = PagesOfCollection THEN Fail
         ELSE <<"observations", Len(got)>>
    ELSE IF Len(units) > MaxUnits THEN Fail
    ELSE IF asked < Len(units) THEN <<"unit", units[asked + 1]>>
    ELSE IF ObservationsAccepted(Scope, got, Of(es, "determinand")[1].body.items[1], codes)
         THEN Done ELSE Fail

\* Fault: only the object identities are compared at the end.
SameIds(es) == Of(es, "ids")[1].body = Of(es, "ids")[2].body

\* The item and the identities are read before and after the pages.
SameItem(es) ==
    /\ Of(es, "ids")[1].body = Of(es, "ids")[2].body
    /\ Of(es, "item")[1].body = Of(es, "item")[2].body

PageOf(ids, n) == SubSeq(ids, (n - 1) * PageLimit + 1,
                         IF n * PageLimit < Len(ids) THEN n * PageLimit ELSE Len(ids))
PageCount(ids) == (Len(ids) + PageLimit - 1) \div PageLimit

ReservoirsNext(es) ==
    LET ids == Of(es, "ids")[1].body.items
        paged == Len(Of(es, "page"))
    IN
    IF es = <<>> THEN <<"item", 1>>
    ELSE IF Len(es) = 1 THEN <<"layer", 0>>
    ELSE IF Len(es) = 2 THEN <<"ids", 1>>
    ELSE IF Len(ids) \notin 1..RecordsOfRetrieval THEN Fail
    ELSE IF paged < PageCount(ids)
         THEN IF paged >= PagesOfCollection THEN Fail ELSE <<"page", PageOf(ids, paged + 1)>>
    ELSE IF Len(es) = 3 + paged THEN <<"ids", 2>>
    ELSE IF Len(es) = 4 + paged THEN <<"item", 2>>
    ELSE IF SameItem(es) /\ ReservoirsAccepted(ItemsOf(es, "page"), ids) THEN Done ELSE Fail

\* One response, whose retrieval record is on disk before it is interpreted.
DischargesNext(es) ==
    IF es = <<>> THEN <<"sites", 0>>
    ELSE IF DischargesAccepted(LastBody(es).items) THEN Done ELSE Fail

RainfallNext(es) ==
    CASE Len(es) = 0 -> <<"gauges", 0>>
      [] Len(es) = 1 -> <<"rain", 0>>
      [] OTHER -> IF RainfallAccepted(es[1].body.items, es[2].body.items) THEN Done ELSE Fail

BathingNext(es) ==
    IF es = <<>> THEN <<"waters", 0>>
    ELSE IF BathingAccepted(LastBody(es).items, LastBody(es).more) THEN Done ELSE Fail

\* The workbook's facts come as one response made by the caller, not by HTTP.
CompaniesNext(es) ==
    IF es = <<>> THEN <<"facts", 0>>
    ELSE IF CompaniesAccepted(LastBody(es).items) THEN Done ELSE Fail

\* The areas that the warnings of the first response name, each with its polygon.
FloodAreas(es) == SetToSeq({w.area : w \in Members(es[1].body.items)})

FloodsNext(es) ==
    LET areas == FloodAreas(es)
        asked == Len(es) - 1
    IN
    IF es = <<>> THEN <<"warnings", 0>>
    ELSE IF asked < 2 * Len(areas)
         THEN <<IF asked % 2 = 0 THEN "area" ELSE "polygon", areas[(asked \div 2) + 1]>>
    ELSE IF FloodsAccepted(es[1].body.items,
                           [i \in 1..Len(areas) |->
                               [id |-> es[2 * i].body.id,
                                reviewed |-> es[2 * i].body.reviewed,
                                geometry |-> es[2 * i + 1].body.geometry]])
         THEN Done ELSE Fail

-----------------------------------------------------------------------------
(* The catchment hierarchy, level by level. *)

Known(es, kind) == {e.req[2] : e \in Members(Of(es, kind))}
PageFor(es, kind, id) == (CHOOSE e \in Members(Of(es, kind)) : e.req[2] = id).body
ChildrenOf(es, kind) == UNION {e.body.children : e \in Members(Of(es, kind))}
ParentIn(es, kind, id) ==
    (CHOOSE e \in Members(Of(es, kind)) : id \in e.body.children).req[2]

\* Children of the last page: some, and of no page before it.
NewChildren(es, kind) ==
    \A i, j \in DOMAIN Of(es, kind) :
        Of(es, kind)[i].body.children \cap Of(es, kind)[j].body.children # {} => i = j

ParentsNamed(es, kind, id) ==
    IF kind = "management" THEN <<{ParentIn(es, "district", id)}>>
    ELSE LET m == ParentIn(es, "management", id)
         IN  <<{ParentIn(es, "district", m)}, {m}>>

\* The page just read names exactly the parents it was reached by.
NamesItsParents(es) ==
    LastBody(es).parents = ParentsNamed(es, LastKind(es), es[Len(es)].req[2])

DistrictPage(es) == LastBody(es).children # {} /\ NewChildren(es, "district")
ManagementPage(es) ==
    NamesItsParents(es) /\ LastBody(es).children # {} /\ NewChildren(es, "management")
OperationalPage(es) == NamesItsParents(es)

PageIsPlausible(es) ==
    CASE LastKind(es) = "root" -> LastBody(es).children # {}
      [] LastKind(es) = "district" -> DistrictPage(es)
      [] LastKind(es) = "management" -> ManagementPage(es)
      [] LastKind(es) = "operational" -> OperationalPage(es)
      [] OTHER -> TRUE

TreeOf(es) ==
    [root |-> es[1].body.children,
     district |-> [d \in Known(es, "district") |-> PageFor(es, "district", d)],
     management |-> [m \in Known(es, "management") |-> PageFor(es, "management", m)],
     operational |-> [o \in Known(es, "operational") |-> PageFor(es, "operational", o)],
     geometry |-> [d \in Known(es, "geometry") |-> PageFor(es, "geometry", d).bodies]]

First(set) == SetToSeq(set)[1]

CatchmentsNext(es) ==
    LET districts == es[1].body.children
        management == ChildrenOf(es, "district")
        operational == ChildrenOf(es, "management")
    IN
    IF es = <<>> THEN <<"root", "root">>
    ELSE IF ~ PageIsPlausible(es) THEN Fail
    ELSE IF districts \ Known(es, "district") # {}
         THEN <<"district", First(districts \ Known(es, "district"))>>
    ELSE IF management \ Known(es, "management") # {}
         THEN <<"management", First(management \ Known(es, "management"))>>
    ELSE IF operational \ Known(es, "operational") # {}
         THEN <<"operational", First(operational \ Known(es, "operational"))>>
    ELSE IF districts \ Known(es, "geometry") # {}
         THEN <<"geometry", First(districts \ Known(es, "geometry"))>>
    ELSE IF CatchmentsAccepted(TreeOf(es)) THEN Done ELSE Fail

RequestAfter(s, es) ==
    CASE s = "hydrology" -> HydrologyNext(es)
      [] s = "history" -> HistoryNext(es)
      [] s = "points" -> PointsNext(es)
      [] s = "observations" -> ObservationsNext(es)
      [] s = "reservoirs" -> ReservoirsNext(es)
      [] s = "discharges" -> DischargesNext(es)
      [] s = "catchments" -> CatchmentsNext(es)
      [] s = "rainfall" -> RainfallNext(es)
      [] s = "bathing" -> BathingNext(es)
      [] s = "floods" -> FloodsNext(es)
      [] s = "companies" -> CompaniesNext(es)

NextRequest(es) == RequestAfter(source, es)

-----------------------------------------------------------------------------
(* What a reader of the directory accepts.  Whether the files are those of the *)
(* manifest is decided before, by their names, sizes and checksums.            *)

Before(es, i) == Len(ItemsIn(SubSeq(es, 1, i - 1)))

\* Pages of one collection follow each other, and only the last one is not full.
Paged(es, kind) ==
    /\ Len(es) \in 1..PagesOfCollection
    /\ \A i \in DOMAIN es :
         /\ es[i].req = <<kind, Before(es, i)>>
         /\ i = Len(es) <=> Len(es[i].body.items) < PageLimit
    /\ Len(ItemsIn(es)) <= RecordsOfRetrieval

HydrologyReads(es) ==
    /\ \A k \in {"stations", "measures", "latest"} : Paged(Of(es, k), k)
    /\ Len(es) = Len(Of(es, "stations")) + Len(Of(es, "measures")) + Len(Of(es, "latest"))
    /\ HydrologyAccepted(ItemsOf(es, "stations"), ItemsOf(es, "measures"), ItemsOf(es, "latest"))

HistoryReads(es) ==
    LET got == ItemsOf(es, "readings") IN
    Paged(es, "readings") /\ HistoryAccepted(Measure, got) /\ InWindow(got, Window)

Totalled(es, kind) ==
    /\ Len(es) \in 1..PagesOfCollection
    /\ SameTotal(es, kind)
    /\ \A i \in DOMAIN es : es[i].req = <<kind, Before(es, i)>> /\ FullPage(es[i])
    /\ Len(ItemsOf(es, kind)) = es[1].body.total

PointsReads(es) ==
    /\ Totalled(es, "points") /\ es[1].body.total \in 1..RecordsOfRetrieval
    /\ PointsAccepted(ItemsOf(es, "points"))

\* Which request an entry must stand for follows from the entries before it.
ObservationsReads(es) ==
    LET pages == Of(es, "observations")
        got == ItemsOf(es, "observations")
        n == Len(pages)
        units == ReferencedUnits(got)
    IN
    /\ Totalled(pages, "observations")
    /\ Len(es) = n + 1 + Len(units)
    /\ SubSeq(es, 1, n) = pages
    /\ es[n + 1].req = <<"determinand", Scope.determinand>>
    /\ \A i \in DOMAIN units : es[n + 1 + i].req = <<"unit", units[i]>>
    /\ ObservationsAccepted(Scope, got, es[n + 1].body.items[1],
                            [i \in DOMAIN units |-> es[n + 1 + i].body.items[1]])

ReservoirsReads(es) ==
    LET ids == es[3].body.items
        n == PageCount(ids)
    IN
    /\ Len(es) >= 6 /\ Len(es) = n + 5 /\ n <= PagesOfCollection
    /\ es[1].req = <<"item", 1>> /\ es[2].req = <<"layer", 0>> /\ es[3].req = <<"ids", 1>>
    /\ \A i \in 1..n : es[3 + i].req = <<"page", PageOf(ids, i)>>
    /\ es[4 + n].req = <<"ids", 2>> /\ es[4 + n].body = es[3].body
    /\ es[5 + n].req = <<"item", 2>> /\ es[5 + n].body = es[1].body
    /\ ReservoirsAccepted(ItemsOf(es, "page"), ids)

DischargesReads(es) == Len(es) = 1 /\ DischargesAccepted(es[1].body.items)

\* The responses are those the manifest names, and normalise to its counts.
NationalReads(es) ==
    /\ \A i, j \in DOMAIN es : es[i].req = es[j].req => i = j
    /\ NextRequest(es) = Done

\* Entries in any order, each request once, then everything from the bodies.
CatchmentsReads(es) ==
    /\ Of(es, "root") # <<>>
    /\ \A i, j \in DOMAIN es : es[i].req = es[j].req => i = j
    /\ CatchmentsAccepted(TreeOf(es))

Reads(es) ==
    CASE source = "hydrology" -> HydrologyReads(es)
      [] source = "history" -> HistoryReads(es)
      [] source = "points" -> PointsReads(es)
      [] source = "observations" -> ObservationsReads(es)
      [] source = "reservoirs" -> ReservoirsReads(es)
      [] source = "discharges" -> DischargesReads(es)
      [] source = "catchments" -> CatchmentsReads(es)
      [] OTHER -> NationalReads(es)

\* A reader is given the records of this directory.
ReaderAccepts == manifest = "whole" /\ ~ lost /\ Reads(entries)

\* The caller has the records of this retrieval, or a reader may have them.
Delivered == retrievalAt = "done" \/ ReaderAccepts

-----------------------------------------------------------------------------
(* The publisher. *)

Collections ==
    {"stations", "measures", "latest", "readings", "points", "observations"}
Responses == {"sites", "gauges", "rain", "facts", "waters", "warnings"}

UpTo(n, m) == IF n < m THEN n ELSE m

\* Lists asked for with a limit: what is beyond it is not in the response.
Limited == {"sites", "gauges", "rain", "waters", "warnings"}

OneResponse(k, list) ==
    IF k \in Limited THEN SubSeq(list, 1, UpTo(ResponseLimit, Len(list))) ELSE list

\* What a publisher who serves w, and has changed n times, has to say to a request.
AnswerFrom(w, n, req) ==
    LET k == req[1]
        a == req[2]
    IN
    CASE k \in Collections ->
           [items |-> SubSeq(w[k], a + 1, UpTo(a + PageLimit, Len(w[k]))),
            total |-> Len(w[k])]
      [] k \in Responses ->
           [items |-> OneResponse(k, w[k]), more |-> Len(OneResponse(k, w[k])) < Len(w[k])]
      [] k \in {"determinand", "unit"} -> [items |-> <<w.codes[a]>>]
      [] k = "item" -> [modified |-> n]
      [] k = "layer" -> [modified |-> 0]
      [] k = "ids" -> [items |-> [i \in DOMAIN w.levels |-> w.levels[i].id]]
      [] k = "page" -> [items |-> WithIds(w.levels, Members(a))]
      [] k \in {"area", "polygon"} -> w.areas[a]
      [] k = "root" -> [children |-> w.root]
      [] k = "geometry" -> [bodies |-> w.geometry[a]]
      [] k \in Levels -> w[k][a]

Answer(req) == AnswerFrom(World, changes, req)

Knows(w, req) ==
    LET k == req[1] IN
    CASE k \in {"determinand", "unit"} -> req[2] \in DOMAIN w.codes
      [] k \in {"area", "polygon"} -> req[2] \in DOMAIN w.areas
      [] k \in Levels \cup {"geometry"} -> req[2] \in DOMAIN w[k]
      [] OTHER -> TRUE

Served(req) == Knows(World, req)

\* The item's date of modification moves with every change (Answer).
PublisherChanges ==
    /\ Running /\ changes < MaxChanges
    /\ changes' = changes + 1
    /\ version' \in DOMAIN Worlds[source] \ {version}
    /\ UNCHANGED <<source, retrievalAt, attempt, entries, lost, manifest>>

-----------------------------------------------------------------------------
(* The retrieval. *)

RetrievalInit ==
    /\ source \in Sources
    /\ version \in DOMAIN Worlds[source]
    /\ changes = 0
    /\ retrievalAt = "requesting"
    /\ attempt = 0
    /\ entries = <<>>
    /\ lost = FALSE
    /\ manifest = "none"

\* A body arrives: it is written, recorded and looked at before the next request.
Receive ==
    /\ retrievalAt = "requesting"
    /\ \E req \in {NextRequest(entries)} :
         /\ Served(req)
         /\ entries' \in {Append(entries, Entry(req, Answer(req)))}
    /\ attempt' = 0
    /\ \E next \in {NextRequest(entries')} :
         retrievalAt' = CASE next = Done -> "completing"
                 [] next = Fail -> "failed"
                 [] OTHER -> "requesting"
    /\ UNCHANGED <<source, version, changes, lost, manifest>>

\* Fault: the third attempt starts the count again.
TroubleForgotten(trouble) ==
    /\ retrievalAt = "requesting"
    /\ IF trouble \in Retries
       THEN attempt' = (attempt + 1) % 3 /\ retrievalAt' = retrievalAt
       ELSE attempt' = 0 /\ retrievalAt' = "failed"
    /\ UNCHANGED <<source, version, changes, entries, lost, manifest>>

\* Three attempts where the trouble may pass, none where it will not.
Trouble(trouble) ==
    /\ retrievalAt = "requesting"
    /\ IF trouble \in Retries /\ attempt < 2
       THEN attempt' = attempt + 1 /\ retrievalAt' = retrievalAt
       ELSE attempt' = 0 /\ retrievalAt' = "failed"
    /\ UNCHANGED <<source, version, changes, entries, lost, manifest>>

\* The manifest is the completion marker: opened, ...
BeginManifest ==
    /\ retrievalAt = "completing"
    /\ manifest' = IF source = "discharges" THEN "pending" ELSE "torn"
    /\ retrievalAt' = "naming"
    /\ UNCHANGED <<source, version, changes, attempt, entries, lost>>

\* ... and written, or renamed into place.
EndManifest ==
    /\ retrievalAt = "naming"
    /\ manifest' = "whole"
    /\ retrievalAt' = "done"
    /\ UNCHANGED <<source, version, changes, attempt, entries, lost>>

\* The process is killed; its directory stays.
Killed ==
    /\ Running
    /\ retrievalAt' = "dead"
    /\ UNCHANGED <<source, version, changes, attempt, entries, lost, manifest>>

\* Fault: nothing is synced.
NothingSynced == "nothing"

\* What is on disk when a step is over: Thames Water's files with their names (the
\* directory itself has none in its parent yet), the national products' contents
\* without their names, nothing of the others.
Synced ==
    CASE source = "discharges" -> "names"
      [] source \in {"rainfall", "bathing", "floods", "companies"} -> "contents"
      [] OTHER -> "nothing"

PowerFailure ==
    /\ retrievalAt' = IF Running THEN "dead" ELSE retrievalAt
    /\ IF Synced = "names"
       THEN \/ UNCHANGED <<lost, manifest>>
            \/ lost' = TRUE /\ manifest' = "none"
       ELSE /\ lost' \in {lost, entries # <<>>}
            /\ manifest' \in IF manifest = "none" THEN {"none"}
                             ELSE {manifest, "none"} \cup
                                    (IF Synced = "contents" THEN {} ELSE {"torn"})
    /\ UNCHANGED <<source, version, changes, attempt, entries>>

RetrievalStep == Receive \/ (\E t \in Troubles : Trouble(t)) \/ BeginManifest \/ EndManifest

RetrievalNext == RetrievalStep \/ PublisherChanges \/ Killed \/ PowerFailure

\* Every request has a time limit, and the rest is local work.
RetrievalSpec ==
    RetrievalInit /\ [][RetrievalNext]_retrievalVars /\ WF_retrievalVars(RetrievalStep)

-----------------------------------------------------------------------------

RetrievalTypeOK ==
    /\ source \in Sources /\ version \in DOMAIN Worlds[source]
    /\ changes \in 0..MaxChanges /\ attempt \in 0..2
    /\ retrievalAt \in {"requesting", "completing", "naming", "done", "failed", "dead"}
    /\ lost \in BOOLEAN /\ manifest \in {"none", "pending", "torn", "whole"}

\* The list fits one response, or the client looks whether there is more of it.
NotCut(k) == k \in {"waters", "facts"} \/ Len(World[k]) <= ResponseLimit

\* From a publisher that does not change, what is returned or can be read is all it
\* serves: paging, its end and its budgets lose and repeat nothing; the bathing waters
\* are read whole or refused.  Of the Thames, rainfall and flood lists nobody looks
\* whether they were cut at their limit: this is about those that fit.
QuietPublisherIsReadWhole ==
    Delivered /\ changes = 0 =>
        /\ \A k \in Collections \cap ListsOf(source) : ItemsOf(entries, k) = World[k]
        /\ \A k \in Responses \cap ListsOf(source) :
             NotCut(k) => PageFor(entries, k, 0).items = World[k]
        /\ source = "reservoirs" => ItemsOf(entries, "page") = World.levels
        /\ source = "floods" /\ NotCut("warnings") =>
             Known(entries, "area") = {w.area : w \in Members(World.warnings)}
        /\ source = "catchments" =>
             /\ TreeOf(entries).operational = [o \in Operationals(World) |-> World.operational[o]]
             /\ TreeOf(entries).geometry = [d \in World.root |-> World.geometry[d]]

\* Whatever changed between two answers, what can be read belongs together: every
\* reference is answered within the bundle, from both ends.
BundleBelongsTogether ==
    ReaderAccepts =>
        CASE source = "hydrology" ->
               /\ {m.station : m \in Members(ItemsOf(entries, "measures"))}
                    \subseteq IdsOf(ItemsOf(entries, "stations"))
               /\ UNION {Members(s.embedded) : s \in Members(ItemsOf(entries, "stations"))}
                    = IdsOf(ItemsOf(entries, "measures"))
          [] source = "points" ->
               Cardinality(IdsOf(ItemsOf(entries, "points"))) = entries[Len(entries)].body.total
          [] source = "observations" ->
               \A o \in Members(ItemsOf(entries, "observations")) :
                   PageFor(entries, "unit", o.unit.id).items = <<o.unit>>
          [] source = "catchments" ->
               LET tree == TreeOf(entries) IN
               \A d \in tree.root : \A w \in tree.geometry[d] :
                   Cardinality({o \in DOMAIN tree.operational :
                       /\ w \in tree.operational[o].children
                       /\ tree.operational[o].parents[1] = {d}}) = 1
          [] source = "floods" ->
               {w.area : w \in Members(entries[1].body.items)} = Known(entries, "polygon")
          [] source = "rainfall" ->
               \* every reading is shown by a station, superseded there, or counted
               LET gauges == RealStations(entries[1].body.items)
                   rain == entries[2].body.items
                   Seen(s) == Members(s.measures) \cap IdsOf(rain)
               IN  /\ \A s \in Members(gauges) :
                         Seen(s) # {} => RainfallShown(s, rain) \in Seen(s)
                   /\ Cardinality(UNION {Seen(s) : s \in Members(gauges)})
                        + RainfallSkipped(entries[1].body.items, rain)
                        = Len(rain) + Len(entries[1].body.items) - Len(gauges)
          [] OTHER -> TRUE

\* The reservoir edition is one moment of the publisher: no version of a reading is
\* mixed with another's, although the pages are separate requests.
ReservoirsAreOneMoment ==
    Delivered /\ source = "reservoirs" =>
        \E v \in DOMAIN Worlds[source] : ItemsOf(entries, "page") = Worlds[source][v].levels

\* What a fetch function has returned, its reader accepts (the first two normalise
\* only when read).
AcknowledgedReads ==
    retrievalAt = "done" /\ manifest = "whole" /\ ~ lost =>
        \/ ReaderAccepts
        \/ source = "hydrology" /\
             ~ HydrologyAccepted(ItemsOf(entries, "stations"), ItemsOf(entries, "measures"),
                                 ItemsOf(entries, "latest"))
        \/ source = "points" /\ ~ PointsAccepted(ItemsOf(entries, "points"))

\* Thames Water's manifest is never on disk without what it names: a power failure
\* leaves a bundle that can be read, or none.
ManifestMeansReadable == source = "discharges" /\ manifest = "whole" => ReaderAccepts

\* A retrieval ends, whatever the publisher does.
RetrievalEnds == <>(~ Running)
=============================================================================
