------------------------------- MODULE Selection -------------------------------
(***************************************************************************)
(* The ways to a selected feature that ask the source first: the search    *)
(* box (web/src/SearchBox.tsx) and the opening of its results, the lookup  *)
(* of supply areas by a click on the map (web/src/App.tsx), the points of  *)
(* the nearby layers, and the drill-down that follows a selection          *)
(* (web/src/FeatureDrilldown.tsx).  The answers come from the API or from  *)
(* the files of a static publication (web/src/staticData.ts), not all of   *)
(* which say what snapshot they are of.                                    *)
(***************************************************************************)
EXTENDS ExplorerServer

CONSTANTS
    Terms,          \* search terms of at least two characters
    NoTerm,         \* a shorter one
    Points,         \* places a user can click on the map
    NoPoint,
    Stations,       \* features that are points
    NoStation,
    MaxChoices      \* bound: how often the user decides

VARIABLES
    term, typing,        \* the search box's text; its 250 ms timer is running
    searching,           \* the search under way
    results, box,        \* what was found, and the state of the box
    choosing,            \* the search results being opened
    decided,             \* how often the user has decided for a feature, in each way
    looking,             \* the requests of the area lookup
    matches,             \* the point whose areas are listed
    areaLoading, areaError,
    supplyOn,            \* the water-supply layer is on
    selected,            \* the feature shown: its snapshot as labelled, the snapshot each of
                         \* its parts comes from, and whose choice it was
    asking,              \* the requests for its details under way
    detail               \* what the drill-down shows

selectionVars ==
    <<term, typing, searching, results, box, choosing, decided, looking, matches,
      areaLoading, areaError, supplyOn, selected, asking, detail>>

searchVars == <<term, typing, searching, results>>
areaVars == <<looking, matches, areaLoading, areaError>>
shownVars == <<selected, asking, detail>>

Kinds == {"point", "flood", "water body", "supply"}

Ways == {"search", "area", "map"}

\* Bound: the user decides MaxChoices times in all.
Decide(way) ==
    /\ decided["search"] + decided["area"] + decided["map"] < MaxChoices
    /\ decided' = [decided EXCEPT ![way] = @ + 1]

\* The answers that open a result of this kind.  A static publication has the flood
\* areas in a file beside the one that names their snapshot.
Parts(kind) ==
    CASE kind = "water body" -> {"dataset", "item", "geometry"}
      [] kind = "flood" /\ mode = "static" -> {"dataset", "areas"}
      [] OTHER -> {"item"}

\* The snapshot their requests name; a file is what it is.
AsksFor(kind, snapshot) ==
    IF mode = "static" \/ kind \in {"flood", "supply"} THEN NoSnapshot ELSE snapshot

\* Files that do not say what snapshot they are of.  The geometry of a Water Body is
\* labelled with the snapshot that was asked for.
Unlabelled == IF mode = "static" THEN {"geometry", "areas"} ELSE {}

\* The snapshot that the browser takes an answer to be of.
Label(p, reply, snapshot) ==
    IF p \in Unlabelled /\ reply \in Snapshots THEN snapshot ELSE reply

NoResults == [term |-> NoTerm, snapshot |-> NoSnapshot]
NoSearch == [term |-> NoTerm, since |-> 0]
NoFeature ==
    [kind |-> "nothing", id |-> NoStation, snapshot |-> NoSnapshot,
     parts |-> [p \in {} |-> NoSnapshot], way |-> "none", number |-> 0]
NoDetail == [kind |-> "nothing", id |-> NoStation, snapshot |-> NoSnapshot]

SelectionInit ==
    /\ term = NoTerm /\ typing = FALSE
    /\ searching = NoSearch
    /\ results = NoResults /\ box = "idle"
    /\ choosing = {}
    /\ decided = [way \in Ways |-> 0]
    /\ looking = {} /\ matches = NoPoint
    /\ areaLoading = FALSE /\ areaError = FALSE
    /\ supplyOn \in BOOLEAN
    /\ selected = NoFeature
    /\ asking = {}
    /\ detail = NoDetail

-----------------------------------------------------------------------------
(* The search box. *)

\* A change of the term stops the timer and aborts the search; a short one clears the
\* results.
Type(t) ==
    /\ t # term
    /\ term' = t
    /\ typing' = (t # NoTerm)
    /\ searching' = NoSearch
    /\ IF t = NoTerm THEN results' = NoResults /\ box' = "idle" ELSE UNCHANGED <<results, box>>
    /\ UNCHANGED <<choosing, decided, areaVars, supplyOn, shownVars>>

StartSearch ==
    /\ typing
    /\ typing' = FALSE
    /\ searching' = [term |-> term, since |-> server]
    /\ box' = "loading"
    /\ UNCHANGED <<term, results, choosing, decided, areaVars, supplyOn, shownVars>>

SearchReply ==
    /\ searching # NoSearch
    /\ \E reply \in Replies(searching.since, NoSnapshot) :
         IF reply \in Snapshots
         THEN /\ results' = [term |-> searching.term, snapshot |-> reply]
              /\ box' = "ready"
         ELSE /\ results' = NoResults
              /\ box' = "error"
    /\ searching' = NoSearch
    /\ UNCHANGED <<term, typing, choosing, decided, areaVars, supplyOn, shownVars>>

Choice(kind, id) ==
    [kind |-> kind, id |-> id, snapshot |-> results.snapshot, since |-> server,
     number |-> decided["search"] + 1]

\* Fault: opening a result does not abort the opening of another.
OpenAlso(choice) == choosing \cup {choice}

\* The result opened before is aborted.
OpenOnly(choice) == {choice}

\* choose and openSearchResult: the areas of an earlier click are taken away; a lookup
\* still under way is not stopped.
Choose(kind, id) ==
    /\ results # NoResults
    /\ box # "selecting"
    /\ Decide("search")
    /\ choosing' = OpenOnly(Choice(kind, id))
    /\ matches' = NoPoint /\ areaError' = FALSE
    /\ box' = "selecting"
    /\ UNCHANGED <<searchVars, looking, areaLoading, supplyOn, shownVars>>

\* A static publication has no details.
Detailed(kind) == kind = "point" /\ mode = "api"

\* Fault: one drill-down for all features.
SameKind(feature) == selected.kind = feature.kind

\* The key of the drill-down: it is another one for every feature and snapshot.
SameFeature(feature) ==
    /\ selected.kind = feature.kind /\ selected.id = feature.id
    /\ selected.snapshot = feature.snapshot

\* The request for the details of the feature before is aborted.  What they were goes
\* away with its drill-down, or stays when it is the same feature.
Select(feature) ==
    /\ selected' = feature
    /\ IF Detailed(feature.kind)
       THEN /\ asking' = {[id |-> feature.id, snapshot |-> feature.snapshot]}
            /\ detail' = IF SameFeature(feature) THEN detail
                         ELSE [NoDetail EXCEPT !.kind = "asking"]
       ELSE asking' = {} /\ detail' = NoDetail

Deselect == selected' = NoFeature /\ asking' = {} /\ detail' = NoDetail

\* Every part is taken to be of the snapshot of the search result.
OneSnapshot(reply, snapshot) ==
    \A p \in DOMAIN reply : Label(p, reply[p], snapshot) = snapshot

\* All requests for a result have ended: the feature is shown, with its layer on.
Open(choice) ==
    /\ choosing' = choosing \ {choice}
    /\ \E reply \in [Parts(choice.kind) ->
                        Replies(choice.since, AsksFor(choice.kind, choice.snapshot))] :
         IF OneSnapshot(reply, choice.snapshot)
         THEN /\ Select([kind |-> choice.kind, id |-> choice.id, snapshot |-> choice.snapshot,
                         parts |-> reply, way |-> "search", number |-> choice.number])
              /\ supplyOn' = (supplyOn \/ choice.kind = "supply")
              /\ box' = "ready"
         ELSE /\ box' = "selection-error"
              /\ UNCHANGED <<shownVars, supplyOn>>
    /\ UNCHANGED <<searchVars, decided, areaVars>>

-----------------------------------------------------------------------------
(* The supply areas at a point, which share one controller. *)

LookUp(point) ==
    /\ supplyOn
    /\ Decide("area")
    /\ looking' = {[for |-> "areas", point |-> point, since |-> server,
                    number |-> decided["area"] + 1]}
    /\ matches' = NoPoint
    /\ areaLoading' = TRUE /\ areaError' = FALSE
    /\ UNCHANGED <<searchVars, box, choosing, supplyOn, shownVars>>

ChooseArea ==
    /\ supplyOn /\ matches # NoPoint
    /\ Decide("area")
    /\ looking' = {[for |-> "geometry", point |-> matches, since |-> server,
                    number |-> decided["area"] + 1]}
    /\ areaLoading' = TRUE /\ areaError' = FALSE
    /\ UNCHANGED <<searchVars, box, choosing, matches, supplyOn, shownVars>>

\* (A static publication cannot tell what is at a point.)
AreaReply(look) ==
    /\ looking' = looking \ {look}
    /\ areaLoading' = FALSE
    /\ \E reply \in IF mode = "static" THEN {Failed} ELSE Replies(look.since, NoSnapshot) :
         /\ areaError' = (areaError \/ reply \notin Snapshots)
         /\ IF look.for = "areas" /\ reply \in Snapshots
            THEN matches' = look.point ELSE UNCHANGED matches
         /\ IF look.for = "geometry" /\ reply \in Snapshots
            THEN Select([kind |-> "supply", id |-> NoStation, snapshot |-> reply,
                         parts |-> [p \in {"item"} |-> reply], way |-> "area",
                         number |-> look.number])
            ELSE UNCHANGED shownVars
    /\ UNCHANGED <<searchVars, box, choosing, decided, supplyOn>>

CloseMatches ==
    /\ matches # NoPoint
    /\ matches' = NoPoint /\ areaError' = FALSE
    /\ UNCHANGED <<searchVars, box, choosing, decided, looking, areaLoading, supplyOn, shownVars>>

\* Turning the layer off deselects a supply area; a lookup under way goes on.
ToggleSupply ==
    /\ supplyOn' = ~ supplyOn
    /\ matches' = NoPoint /\ areaError' = FALSE
    /\ IF supplyOn /\ selected.kind = "supply"
       THEN Deselect ELSE UNCHANGED shownVars
    /\ UNCHANGED <<searchVars, box, choosing, decided, looking, areaLoading>>

-----------------------------------------------------------------------------
(* Points on the map, the detail panel and the drill-down. *)

SelectPoint(id, snapshot) ==
    /\ Decide("map")
    /\ Select([kind |-> "point", id |-> id, snapshot |-> snapshot,
               parts |-> [p \in {"item"} |-> snapshot], way |-> "map",
               number |-> decided["map"] + 1])
    /\ UNCHANGED <<searchVars, box, choosing, areaVars, supplyOn>>

CloseDetail ==
    /\ selected # NoFeature
    /\ Deselect
    /\ UNCHANGED <<searchVars, box, choosing, decided, areaVars, supplyOn>>

\* The details must be of the snapshot they were asked for.
DetailReply(ask) ==
    /\ asking' = asking \ {ask}
    /\ \E reply \in Replies(1, ask.snapshot) :
         detail' = [kind |-> IF reply = ask.snapshot THEN "shown" ELSE "error",
                    id |-> ask.id, snapshot |-> ask.snapshot]
    /\ UNCHANGED <<searchVars, box, choosing, decided, areaVars, supplyOn, selected>>

SelectionNext ==
    \/ \E t \in Terms \cup {NoTerm} : Type(t)
    \/ StartSearch \/ SearchReply
    \/ \E choice \in choosing : Open(choice)
    \/ \E id \in Stations : Choose("point", id)
    \/ \E kind \in Kinds \ {"point"} : Choose(kind, NoStation)
    \/ \E point \in Points : LookUp(point)
    \/ \E look \in looking : AreaReply(look)
    \/ ChooseArea \/ CloseMatches \/ ToggleSupply
    \/ \E id \in Stations : \E snapshot \in 1..server : SelectPoint(id, snapshot)
    \/ CloseDetail
    \/ \E ask \in asking : DetailReply(ask)

-----------------------------------------------------------------------------
\* Whatever is chosen while the source moves on and answers are late, every part of the
\* feature shown that says what snapshot it is of is of the one the feature is labelled
\* with (openSearchResult, lines 423-431), and the details beside it are of that feature
\* and that snapshot, not of one selected before (DetailPanel, line 187;
\* FeatureDrilldown, lines 20-51).  It is not claimed of the geometry of a Water Body
\* and the flood areas of a static publication, which may be of another publication.
SelectionIsOneSnapshot ==
    /\ \A p \in DOMAIN selected.parts : p \notin Unlabelled => selected.parts[p] = selected.snapshot
    /\ detail.kind = "shown" =>
         selected.kind = "point" /\ detail.id = selected.id /\ detail.snapshot = selected.snapshot

\* Among the features opened in one way (from the search box, from the areas at a
\* point, from the map) the last decision wins: whatever the order of the answers, an
\* earlier one never comes to be shown after a later one was made (the controllers of
\* openSearchResult, lookupArea and chooseArea; the generations of SearchBox).
LastChoiceWins ==
    [][selected'.way # "none" /\ selected' # selected =>
         selected'.number = decided'[selected'.way]]_selectionVars
=============================================================================
