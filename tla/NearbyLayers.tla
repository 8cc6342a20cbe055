----------------------------- MODULE NearbyLayers -----------------------------
(***************************************************************************)
(* The point layers around the map's centre (web/src/useNearby.ts) and the *)
(* selection a shared link names (web/src/App.tsx, the effect of lines     *)
(* 147-214), which waits for them.                                         *)
(***************************************************************************)
EXTENDS ExplorerServer

CONSTANTS
    Places,         \* centres and radii the map can show
    NoPlace,        \* before the map has published its first viewport
    PlainLayers,    \* layers whose answers replace each other
    PinnedLayers,   \* layers that stay with the first snapshot they were answered from
    SupplyLayer,    \* a layer that is looked up by clicks, not around the centre
    WaterBody, SupplyArea, NoShare,  \* what else a link may name
    Home            \* the place around which the shared point is found

ASSUME NoPlaceAssumption == NoPlace \notin Places

VARIABLES
    place, layers,       \* what the map shows and which layers are on
    delay,               \* the 350 ms timer is running
    flights,             \* generations of requests: where and when they were sent, answers
    shown,               \* the items of each layer: where they were asked for, and their snapshot
    provenance,          \* the dataset each layer shows beside its items
    loading, errors,
    pin,                 \* the snapshot a pinned layer asks for
    shared,              \* what the link names: a point of a layer, a Water Body, a supply area
    restore              \* how far its restoration is

nearbyVars ==
    <<place, layers, delay, flights, shown, provenance, loading, errors, pin, shared, restore>>

NearLayers == PlainLayers \cup PinnedLayers
Nothing == [place |-> NoPlace, snapshot |-> NoSnapshot]

Toggled(on, l) == IF l \in on THEN on \ {l} ELSE on \cup {l}

NearbyInit ==
    /\ place = NoPlace
    /\ layers \in {PlainLayers, PlainLayers \cup PinnedLayers}
    /\ delay = FALSE
    /\ flights = {}
    /\ shown = [l \in NearLayers |-> Nothing]
    /\ provenance = [l \in NearLayers |-> NoSnapshot]
    /\ loading = {}
    /\ errors = {}
    /\ pin = [l \in NearLayers |-> NoSnapshot]
    /\ shared \in NearLayers \cup {NoShare, WaterBody, SupplyArea}
    /\ restore = IF shared = NoShare THEN "none"
                 ELSE IF shared \in NearLayers THEN "looking" ELSE "asking"

\* Fault: no request is aborted and no generation compared.
AskAlso(p, on) ==
    /\ place' = p
    /\ layers' = on
    /\ delay' = TRUE
    /\ UNCHANGED <<flights, shown, provenance, loading, errors, pin, shared, restore>>

\* The query or the layers change: the clean-up of the previous effect stops its
\* timer and aborts its requests, whose answers are never seen.
Ask(p, on) ==
    /\ place' = p
    /\ layers' = on
    /\ delay' = TRUE
    /\ flights' = {}
    /\ UNCHANGED <<shown, provenance, loading, errors, pin, shared, restore>>

MoveMap(p) == p # place /\ Ask(p, layers)

\* Nothing is asked before the map has a viewport.
ToggleEarly(l) ==
    /\ place = NoPlace
    /\ layers' = Toggled(layers, l)
    /\ UNCHANGED <<place, delay, flights, shown, provenance, loading, errors, pin,
                   shared, restore>>

ToggleLayer(l) == place # NoPlace /\ Ask(place, Toggled(layers, l))

\* The timer ends: layers that are off lose their items, the others are asked for.
\* The change of "nearby" re-runs App's effect, whose clean-up aborts the requests
\* for a shared Water Body.
SendRequests ==
    /\ delay
    /\ delay' = FALSE
    /\ shown' = [l \in NearLayers |-> IF l \in layers THEN shown[l] ELSE Nothing]
    /\ loading' = layers \cap NearLayers
    /\ errors' = {}
    /\ flights' = flights \cup
         {[place |-> place, since |-> server,
           answer |-> [l \in layers \cap NearLayers |-> Waiting]]}
    /\ restore' = IF shared = WaterBody /\ restore = "asking" THEN "dropped" ELSE restore
    /\ UNCHANGED <<place, layers, provenance, pin, shared>>

\* Fault: no snapshot is kept for the next request.
NeverPin(l, reply) == NoSnapshot

\* The first snapshot that answers a pinned layer is kept for the session.
PinAfter(l, reply) ==
    IF l \in PinnedLayers /\ pin[l] = NoSnapshot /\ reply \in Snapshots THEN reply ELSE pin[l]

ReceiveReply(f, l) ==
    /\ f.answer[l] = Waiting
    /\ \E raw \in Replies(f.since, pin[l]) :
         \E reply \in {Pinned(raw, pin[l])} :
            /\ flights' = (flights \ {f}) \cup {[f EXCEPT !.answer[l] = reply]}
            /\ pin' = [pin EXCEPT ![l] = PinAfter(l, reply)]
    /\ UNCHANGED <<place, layers, delay, shown, provenance, loading, errors, shared, restore>>

\* Every request of the generation has ended.  A failed layer keeps what it showed
\* and reports; a changed snapshot also takes back the pin and the pinned items.
SettleRequests(f) ==
    LET asked == DOMAIN f.answer
        accepted == {l \in asked : f.answer[l] \in Snapshots}
        changed == {l \in asked : f.answer[l] = Changed}
    IN
    /\ \A l \in asked : f.answer[l] # Waiting
    /\ flights' = flights \ {f}
    /\ shown' = [l \in NearLayers |->
                    IF l \in accepted THEN [place |-> f.place, snapshot |-> f.answer[l]]
                    ELSE IF l \in changed \cap PinnedLayers THEN Nothing ELSE shown[l]]
    /\ provenance' = [l \in NearLayers |->
                        IF l \in accepted THEN f.answer[l]
                        ELSE IF l \in changed THEN NoSnapshot ELSE provenance[l]]
    /\ pin' = [l \in NearLayers |-> IF l \in changed THEN NoSnapshot ELSE pin[l]]
    /\ errors' = asked \ accepted
    /\ loading' = {}
    /\ restore' = IF /\ restore = "looking"
                     /\ shown'[shared].place = Home
                     /\ provenance'[shared] # NoSnapshot
                  THEN "shown" ELSE restore
    /\ UNCHANGED <<place, layers, delay, shared>>

\* The answers for a shared Water Body, which have to agree, or for a supply area.
RestoreShared ==
    /\ restore = "asking"
    /\ \E dataset, detail, geometry \in Replies(1, NoSnapshot) :
         LET all == IF shared = WaterBody THEN {dataset, detail, geometry} ELSE {detail} IN
         restore' = IF all \subseteq Snapshots /\ Cardinality(all) = 1
                    THEN "shown" ELSE "reported"
    /\ UNCHANGED <<place, layers, delay, flights, shown, provenance, loading, errors, pin,
                   shared>>

NearbyNext ==
    \/ \E p \in Places : MoveMap(p)
    \/ \E l \in NearLayers \cup {SupplyLayer} : ToggleEarly(l) \/ ToggleLayer(l)
    \/ SendRequests
    \/ \E f \in flights : SettleRequests(f) \/ \E l \in DOMAIN f.answer : ReceiveReply(f, l)
    \/ RestoreShared

-----------------------------------------------------------------------------
Settled == ~ delay /\ flights = {}

\* However fast the map moves and however late the answers come, a layer without an
\* error shows what was found around the place the map shows, with the provenance of
\* just those items (useNearby.ts, lines 154-203): the newest generation wins.
NearbyIsCurrent ==
    Settled /\ place # NoPlace =>
        \A l \in NearLayers :
            IF l \notin layers THEN shown[l] = Nothing
            ELSE l \in errors \/ (shown[l].place = place /\ shown[l].snapshot = provenance[l])

\* Within a session a pinned layer goes from the items of one snapshot to those of
\* another only through an empty layer with an error (the pin of lines 120-141, its
\* check in api.ts, its clearing in lines 169-179), wherever the map moves meanwhile.
SnapshotNeverSwitches ==
    [][\A l \in PinnedLayers :
         shown[l] # Nothing /\ shown'[l] # Nothing
            => shown'[l].snapshot = shown[l].snapshot]_nearbyVars

\* "Restoration remains snapshot-aware and degrades visibly when a selected identity
\* is not available" (docs/design/explorer-navigation.md, lines 66-67): once nothing
\* is pending, the shared Water Body is selected, or its absence has been reported.
SharedBodyIsAnswered ==
    shared = WaterBody /\ Settled => restore \in {"asking", "shown", "reported"}
=============================================================================
