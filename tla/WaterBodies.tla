------------------------------ MODULE WaterBodies ------------------------------
(***************************************************************************)
(* The browser of Water Bodies (web/src/WaterBodyBrowser.tsx), over the    *)
(* API or over the files of a static publication (web/src/staticData.ts).  *)
(* Its requests are never aborted: late answers are told by a generation.  *)
(***************************************************************************)
EXTENDS ExplorerServer, SequencesExt

CONSTANTS
    BodiesOf(_),    \* the Water Bodies of a snapshot, in the order of their ids
    BodyPage,       \* bodies on a page (100 in the code)
    MaxBodyActs     \* bound: decisions of the user

\* Bodies are listed by their ids, which are greater than the cursor of a first page.
ASSUME BodiesAssumption ==
    /\ \A snapshot \in Snapshots :
         /\ BodiesOf(snapshot) \in Seq(Nat \ {0})
         /\ \A i, j \in 1..Len(BodiesOf(snapshot)) :
              i < j => BodiesOf(snapshot)[i] < BodiesOf(snapshot)[j]
    /\ BodyPage \in Nat \ {0}

VARIABLES
    listAsset, geometryAsset,  \* static: what the page has fetched of the two files
    open, dataset, items, more,\* the panel, its dataset, its bodies, whether a page follows
    generation,     \* the latest load or selection
    calls,          \* every request still unanswered, of whatever generation
    busy, problem,
    body            \* the Water Body handed to App: its id and where its parts come from

bodyVars ==
    <<listAsset, geometryAsset, open, dataset, items, more, generation, calls,
      busy, problem, body>>

assetVars == <<listAsset, geometryAsset>>
NoBody == [id |-> 0, snapshots |-> {}]

BodiesInit ==
    /\ listAsset = Waiting /\ geometryAsset = Waiting
    /\ open = FALSE
    /\ dataset = NoSnapshot /\ items = <<>> /\ more = FALSE
    /\ generation = 0
    /\ calls = {}
    /\ busy = FALSE /\ problem = "none"
    /\ body = NoBody

\* Every load and every selection is a generation of its own.
Begin(call) ==
    /\ generation < MaxBodyActs
    /\ generation' = generation + 1
    /\ calls' = calls \cup {call}
    /\ busy' = TRUE /\ problem' = "none"

LoadCall(snapshot, after) ==
    [for |-> "page", number |-> generation + 1, since |-> server, snapshot |-> snapshot,
     after |-> after, id |-> 0]

LastId(ids) == IF ids = <<>> THEN 0 ELSE Last(ids)

\* The panel opens and, when it is empty, loads the first page.
Toggle ==
    /\ open' = ~ open
    /\ IF ~ open /\ items = <<>> /\ ~ busy
       THEN Begin(LoadCall(dataset, 0))
       ELSE UNCHANGED <<generation, calls, busy, problem>>
    /\ UNCHANGED <<assetVars, dataset, items, more, body>>

LoadNext ==
    /\ open /\ more /\ ~ busy
    /\ Begin(LoadCall(dataset, LastId(items)))
    /\ UNCHANGED <<assetVars, open, dataset, items, more, body>>

\* Offered beside an error: without a snapshot, from the first page.
Reload ==
    /\ open /\ problem # "none" /\ ~ busy
    /\ Begin(LoadCall(NoSnapshot, 0))
    /\ UNCHANGED <<assetVars, open, dataset, items, more, body>>

SelectBody(id) ==
    /\ open
    /\ Begin([for |-> "body", number |-> generation + 1, since |-> server,
              snapshot |-> NoSnapshot, after |-> 0, id |-> id])
    /\ UNCHANGED <<assetVars, open, dataset, items, more, body>>

\* A file of the static publication is fetched once for the life of the page, and its
\* failure is kept as well.
Fetched(asset, since) ==
    IF asset # Waiting THEN {asset} ELSE {Failed} \cup (since..server)

\* Fault: no late answer is told from a current one.
AnyGeneration(call) == TRUE

Current(call) == call.number = generation

\* The bodies with ids greater than the cursor, which are the end of an ordered list.
Page(all, after) ==
    LET upTo == Cardinality({i \in 1..Len(all) : all[i] <= after})
        left == Len(all) - upTo
    IN  SubSeq(all, upTo + 1, upTo + IF left < BodyPage THEN left ELSE BodyPage)

\* The items of an accepted page, after those that are there, and whether more follow.
TakePage(call, snapshot) ==
    LET page == Page(BodiesOf(snapshot), call.after) IN
    /\ dataset' = snapshot
    /\ items' = IF call.after = 0 THEN page ELSE items \o page
    /\ more' = (page # <<>> /\ Last(page) # Last(BodiesOf(snapshot)))

PageAnswer(call) ==
    /\ call.for = "page"
    /\ calls' = calls \ {call}
    /\ \E raw \in IF mode = "api" THEN Replies(call.since, call.snapshot)
                  ELSE Fetched(listAsset, call.since) :
         \E reply \in {Pinned(raw, call.snapshot)} :
            /\ listAsset' = IF mode = "static" THEN raw ELSE listAsset
            /\ IF Current(call) /\ reply \in Snapshots
               THEN TakePage(call, reply) ELSE UNCHANGED <<dataset, items, more>>
            /\ problem' = IF Current(call) /\ reply \notin Snapshots
                          THEN "unavailable" ELSE problem
    /\ busy' = (busy /\ ~ Current(call))
    /\ UNCHANGED <<geometryAsset, open, generation, body>>

\* What the browser sees of the geometry's snapshot: a static answer names the snapshot
\* that was asked for, and the browser asks for none.
Labelled(raw) == IF mode = "static" /\ raw \in Snapshots THEN NoSnapshot ELSE raw

SameSnapshots(detail, geometry) == {detail, geometry} = {dataset} /\ dataset # NoSnapshot

\* Detail and geometry of a body, which must be of the list's snapshot.
BodyAnswer(call) ==
    /\ call.for = "body"
    /\ calls' = calls \ {call}
    /\ \E detail \in IF mode = "api" THEN Replies(call.since, NoSnapshot)
                     ELSE Fetched(listAsset, call.since),
          geometry \in IF mode = "api" THEN Replies(call.since, NoSnapshot)
                       ELSE Fetched(geometryAsset, call.since) :
         /\ IF mode = "static"
            THEN listAsset' = detail /\ geometryAsset' = geometry ELSE UNCHANGED assetVars
         /\ IF Current(call) /\ SameSnapshots(detail, Labelled(geometry))
            THEN body' = [id |-> call.id, snapshots |-> {detail, geometry}] ELSE UNCHANGED body
         /\ problem' = IF ~ Current(call) THEN problem
                       ELSE IF SameSnapshots(detail, Labelled(geometry)) THEN "none"
                       ELSE IF {detail, geometry} = {dataset} THEN "not displayed" ELSE "unavailable"
    /\ busy' = (busy /\ ~ Current(call))
    /\ UNCHANGED <<open, dataset, items, more, generation>>

BodiesNext ==
    \/ Toggle \/ LoadNext \/ Reload
    \/ \E i \in 1..Len(items) : SelectBody(items[i])
    \/ \E call \in calls : PageAnswer(call) \/ BodyAnswer(call)

-----------------------------------------------------------------------------
\* "Pages load 100 at a time and stay pinned to one reviewed snapshot"
\* (WaterBodyBrowser.tsx, line 87): whatever is loaded, reloaded and selected while other
\* answers are late, the list is a beginning of its dataset's bodies, none twice and
\* none left out, "Load next" is offered exactly while some are missing, and a body is
\* never handed on with details and geometry of two snapshots.
BodiesAreConsecutive ==
    /\ items # <<>> => IsPrefix(items, BodiesOf(dataset))
    /\ dataset # NoSnapshot => (more <=> Len(items) < Len(BodiesOf(dataset)))
    /\ Cardinality(body.snapshots) <= 1

\* "Water Body selection from either global search or Rivers & Catchments [...] preserves
\* every returned publisher geometry component and issues one bounds-navigation intent"
\* (docs/design/explorer-navigation.md, lines 33-35): a selection whose parts have all
\* arrived, from the snapshot of the list, is displayed.
ListedBodyIsDisplayed == problem # "not displayed"
=============================================================================
