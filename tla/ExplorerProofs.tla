---------------------------- MODULE ExplorerProofs ----------------------------
(***************************************************************************)
(* Proofs about the web explorer (Explorer): what each of its parts shows  *)
(* is one consistent answer of the source, whatever the order of the       *)
(* user's acts, the answers and the publications.                          *)
(*                                                                         *)
(* Every part has an invariant of its own, about the variables of the part *)
(* and the source; the steps of the other parts leave those alone, and     *)
(* Publish only moves the source.  How often the user acts and how far the *)
(* source moves is arbitrary; of the lists of Water Bodies it is assumed   *)
(* that they are ordered (BodiesAssumption).                               *)
(***************************************************************************)
EXTENDS Explorer, FiniteSetTheorems, SequenceTheorems, TLAPS

-----------------------------------------------------------------------------
(* The nearby layers: there is at most one generation of requests, it is   *)
(* for what the map shows now, and a pinned layer shows what its pin says. *)

OneGeneration ==
    /\ delay => flights = {}
    /\ place = NoPlace => ~ delay /\ flights = {}
    /\ \A f, g \in flights : f = g
    /\ \A f \in flights :
         /\ {"place", "since", "answer"} \subseteq DOMAIN f
         /\ f.place = place
         /\ DOMAIN f.answer = layers \cap NearLayers

ShownIsAsked ==
    /\ \A l \in NearLayers : ~ delay /\ place # NoPlace /\ l \notin layers => shown[l] = Nothing
    /\ Settled /\ place # NoPlace =>
         \A l \in NearLayers \cap layers :
           l \in errors \/ (shown[l].place = place /\ shown[l].snapshot = provenance[l])

PinHolds ==
    \A l \in PinnedLayers :
        /\ shown[l] # Nothing => pin[l] = shown[l].snapshot
        /\ pin[l] \in Snapshots \cup {NoSnapshot}
        /\ \A f \in flights : l \in layers /\ f.answer[l] \in Snapshots => pin[l] = f.answer[l]

ShownOnly == \A l \in NearLayers : shown[l] # Nothing => shown[l].snapshot \in Snapshots

NearbyInv ==
    /\ DOMAIN pin = NearLayers
    /\ ShownOnly /\ OneGeneration /\ ShownIsAsked /\ PinHolds

LEMMA NearbyInitial == NearbyInit => NearbyInv
<1> SUFFICES ASSUME NearbyInit PROVE NearbyInv
  OBVIOUS
<1> USE DEF NearbyInit
<1>1. ShownOnly /\ DOMAIN pin = NearLayers
  BY DEF ShownOnly
<1>2. OneGeneration
  BY DEF OneGeneration
<1>3. ShownIsAsked
  BY DEF ShownIsAsked
<1>4. PinHolds
  BY DEF PinHolds, NearLayers
<1> QED
  BY <1>1, <1>2, <1>3, <1>4 DEF NearbyInv

LEMMA AskKeeps ==
    ASSUME NearbyInv, NEW p, NEW on, p # NoPlace, Ask(p, on)
    PROVE  NearbyInv'
<1>1. /\ place' = p /\ layers' = on /\ delay' = TRUE /\ flights' = {}
      /\ UNCHANGED <<shown, provenance, errors, pin>>
  BY DEF Ask
<1>2. OneGeneration' /\ ShownIsAsked'
  BY <1>1 DEF OneGeneration, ShownIsAsked, Settled
<1>3. PinHolds'
  BY <1>1 DEF PinHolds, NearbyInv
<1> QED
  BY <1>1, <1>2, <1>3 DEF NearbyInv, ShownOnly

LEMMA ToggleEarlyKeeps == ASSUME NearbyInv, NEW l, ToggleEarly(l) PROVE NearbyInv'
<1>1. /\ place = NoPlace /\ flights = {} /\ ~ delay
      /\ UNCHANGED <<place, delay, flights, shown, provenance, errors, pin>>
  BY DEF ToggleEarly, NearbyInv, OneGeneration
<1>2. OneGeneration' /\ ShownIsAsked'
  BY <1>1 DEF OneGeneration, ShownIsAsked
<1>3. PinHolds'
  BY <1>1 DEF PinHolds, NearbyInv
<1> QED
  BY <1>1, <1>2, <1>3 DEF NearbyInv, ShownOnly

LEMMA SendRequestsKeeps == ASSUME NearbyInv, SendRequests PROVE NearbyInv'
<1> DEFINE f == [place |-> place, since |-> server,
                 answer |-> [l \in layers \cap NearLayers |-> Waiting]]
<1>1. /\ delay /\ delay' = FALSE /\ flights = {} /\ place # NoPlace
      /\ shown' = [l \in NearLayers |-> IF l \in layers THEN shown[l] ELSE Nothing]
      /\ flights' = {f}
      /\ UNCHANGED <<place, layers, provenance, pin>>
  BY DEF SendRequests, NearbyInv, OneGeneration
<1>2. /\ {"place", "since", "answer"} \subseteq DOMAIN f /\ f.place = place
      /\ DOMAIN f.answer = layers \cap NearLayers
      /\ \A l \in layers \cap NearLayers : f.answer[l] = Waiting
  OBVIOUS
<1> HIDE DEF f
<1>3. OneGeneration'
  BY <1>1, <1>2 DEF OneGeneration
<1>4. ShownIsAsked'
  BY <1>1 DEF ShownIsAsked, Settled
<1>5. Waiting \notin Snapshots
  BY DEF Waiting, Snapshots
<1>6. PinHolds'
  <2> SUFFICES ASSUME NEW l \in PinnedLayers
      PROVE  /\ shown'[l] # Nothing => pin[l] = shown'[l].snapshot
             /\ pin[l] \in Snapshots \cup {NoSnapshot}
             /\ l \in layers => f.answer[l] \notin Snapshots
    BY <1>1 DEF PinHolds
  <2>1. l \in NearLayers
    BY DEF NearLayers
  <2> QED
    BY <1>1, <1>2, <1>5, <2>1 DEF PinHolds, NearbyInv
<1>7. ShownOnly'
  BY <1>1 DEF NearbyInv, ShownOnly
<1> QED
  BY <1>1, <1>3, <1>4, <1>6, <1>7 DEF NearbyInv

\* An answer to a pinned request is of the pinned snapshot; a first one becomes the pin.
LEMMA ReplyIsPinned ==
    ASSUME NEW l \in PinnedLayers, pin[l] \in Snapshots \cup {NoSnapshot}, NEW raw,
           Pinned(raw, pin[l]) \in Snapshots
    PROVE  /\ PinAfter(l, Pinned(raw, pin[l])) = Pinned(raw, pin[l])
           /\ pin[l] # NoSnapshot => Pinned(raw, pin[l]) = pin[l]
<1>1. Changed \notin Snapshots /\ NoSnapshot \notin Snapshots
  BY DEF Changed, NoSnapshot, Snapshots
<1> QED
  BY <1>1 DEF Pinned, PinAfter

LEMMA ReceiveReplyKeeps ==
    ASSUME NearbyInv, NEW f \in flights, NEW l \in DOMAIN f.answer, ReceiveReply(f, l)
    PROVE  NearbyInv'
<1>1. PICK raw :
        /\ flights' = (flights \ {f}) \cup {[f EXCEPT !.answer[l] = Pinned(raw, pin[l])]}
        /\ pin' = [pin EXCEPT ![l] = PinAfter(l, Pinned(raw, pin[l]))]
  BY DEF ReceiveReply
<1>2. UNCHANGED <<place, layers, delay, shown, provenance, errors>>
  BY DEF ReceiveReply
<1> DEFINE reply == Pinned(raw, pin[l])
           g == [f EXCEPT !.answer[l] = reply]
<1>3. /\ {"place", "since", "answer"} \subseteq DOMAIN f /\ f.place = place
      /\ DOMAIN f.answer = layers \cap NearLayers
      /\ flights = {f} /\ ~ delay /\ place # NoPlace
  BY DEF NearbyInv, OneGeneration
<1>4. /\ {"place", "since", "answer"} \subseteq DOMAIN g /\ g.place = place
      /\ DOMAIN g.answer = layers \cap NearLayers
      /\ g.answer[l] = reply /\ \A k \in DOMAIN f.answer : k # l => g.answer[k] = f.answer[k]
  BY <1>3
<1>5. flights' = {g}
  BY <1>1, <1>3
<1> HIDE DEF g
<1>6. OneGeneration'
  BY <1>2, <1>3, <1>4, <1>5 DEF OneGeneration
<1>7. ShownIsAsked'
  BY <1>2, <1>3, <1>5 DEF ShownIsAsked, Settled, NearbyInv
<1>8. DOMAIN pin' = NearLayers /\ l \in NearLayers
  BY <1>1, <1>3 DEF NearbyInv
<1>9. ASSUME NEW k \in PinnedLayers
      PROVE  /\ shown[k] # Nothing => pin'[k] = shown[k].snapshot
             /\ pin'[k] \in Snapshots \cup {NoSnapshot}
             /\ k \in layers /\ g.answer[k] \in Snapshots => pin'[k] = g.answer[k]
  <2>1. k \in NearLayers /\ (k \in layers => k \in DOMAIN f.answer)
    BY <1>3 DEF NearLayers
  <2>2. /\ shown[k] # Nothing => pin[k] = shown[k].snapshot
        /\ pin[k] \in Snapshots \cup {NoSnapshot}
        /\ k \in layers /\ f.answer[k] \in Snapshots => pin[k] = f.answer[k]
    BY DEF NearbyInv, PinHolds
  <2>3. CASE k # l
    <3>1. pin'[k] = pin[k]
      BY <1>1, <2>3, <2>1 DEF NearbyInv
    <3> QED
      BY <1>4, <2>1, <2>2, <2>3, <3>1
  <2>4. CASE k = l
    <3>1. pin'[k] = PinAfter(k, reply) /\ g.answer[k] = reply
      BY <1>1, <1>4, <1>8, <2>4 DEF NearbyInv
    <3>2. CASE reply \in Snapshots
      <4>1. PinAfter(k, reply) = reply /\ (pin[k] # NoSnapshot => reply = pin[k])
        BY <2>2, <2>4, <3>2, ReplyIsPinned
      <4>2. shown[k] # Nothing => shown[k].snapshot \in Snapshots
        BY <2>1 DEF NearbyInv, ShownOnly
      <4>3. NoSnapshot \notin Snapshots
        BY DEF NoSnapshot, Snapshots
      <4> HIDE DEF reply
      <4> QED
        BY <2>2, <3>1, <3>2, <4>1, <4>2, <4>3
    <3>3. CASE reply \notin Snapshots
      <4>1. PinAfter(k, reply) = pin[k]
        BY <3>3 DEF PinAfter
      <4> QED
        BY <2>2, <3>1, <3>3, <4>1
    <3> QED
      BY <3>2, <3>3
  <2> QED
    BY <2>3, <2>4
<1>10. PinHolds'
  BY <1>2, <1>5, <1>9 DEF PinHolds
<1> QED
  BY <1>2, <1>6, <1>7, <1>8, <1>10 DEF NearbyInv, ShownOnly

LEMMA SettleRequestsKeeps ==
    ASSUME NearbyInv, NEW f \in flights, SettleRequests(f) PROVE NearbyInv'
<1> DEFINE asked == DOMAIN f.answer
           accepted == {l \in asked : f.answer[l] \in Snapshots}
           changed == {l \in asked : f.answer[l] = Changed}
<1>1. /\ flights' = flights \ {f}
      /\ shown' = [l \in NearLayers |->
                      IF l \in accepted THEN [place |-> f.place, snapshot |-> f.answer[l]]
                      ELSE IF l \in changed \cap PinnedLayers THEN Nothing ELSE shown[l]]
      /\ provenance' = [l \in NearLayers |->
                          IF l \in accepted THEN f.answer[l]
                          ELSE IF l \in changed THEN NoSnapshot ELSE provenance[l]]
      /\ pin' = [l \in NearLayers |-> IF l \in changed THEN NoSnapshot ELSE pin[l]]
      /\ errors' = asked \ accepted
      /\ UNCHANGED <<place, layers, delay>>
  BY DEF SettleRequests
<1>2. /\ f.place = place /\ asked = layers \cap NearLayers
      /\ flights = {f} /\ ~ delay /\ place # NoPlace
  BY DEF NearbyInv, OneGeneration
<1>3. flights' = {}
  BY <1>1, <1>2
<1>4. \A l \in accepted : /\ l \in layers /\ l \in NearLayers
                         /\ f.answer[l] \in Snapshots /\ l \notin changed
  BY <1>2 DEF Changed, Snapshots
<1>5. /\ \A l \in errors' : l \notin accepted
      /\ \A l \in layers \cap NearLayers : l \in errors' \/ l \in accepted
  BY <1>1, <1>2
<1>6. \A l \in changed : l \in layers
  BY <1>2
<1> HIDE DEF accepted, changed
<1>7. OneGeneration'
  BY <1>1, <1>2, <1>3 DEF OneGeneration
<1>8. ShownIsAsked'
  <2>1. ASSUME NEW l \in NearLayers, l \notin layers PROVE shown'[l] = Nothing
    <3>1. l \notin accepted /\ shown[l] = Nothing
      BY <1>2, <1>4, <2>1 DEF NearbyInv, ShownIsAsked
    <3> QED
      BY <1>1, <3>1
  <2>2. ASSUME NEW l \in NearLayers, l \in layers, l \notin errors'
        PROVE  shown'[l].place = place /\ shown'[l].snapshot = provenance'[l]
    <3>1. l \in accepted
      BY <1>5, <2>2
    <3> QED
      BY <1>1, <1>2, <3>1
  <2> QED
    BY <1>1, <2>1, <2>2 DEF ShownIsAsked
<1>9. ShownOnly'
  <2> SUFFICES ASSUME NEW l \in NearLayers, shown'[l] # Nothing
               PROVE  shown'[l].snapshot \in Snapshots
    BY DEF ShownOnly
  <2>1. CASE l \in accepted
    BY <1>1, <1>4, <2>1
  <2>2. CASE l \notin accepted
    <3>1. shown'[l] = shown[l]
      BY <1>1, <2>2
    <3> QED
      BY <3>1 DEF NearbyInv, ShownOnly
  <2> QED
    BY <2>1, <2>2
<1>10. PinHolds'
  <2> SUFFICES ASSUME NEW l \in PinnedLayers
      PROVE  /\ shown'[l] # Nothing => pin'[l] = shown'[l].snapshot
             /\ pin'[l] \in Snapshots \cup {NoSnapshot}
    BY <1>3 DEF PinHolds
  <2>1. /\ l \in NearLayers
        /\ shown[l] # Nothing => pin[l] = shown[l].snapshot
        /\ pin[l] \in Snapshots \cup {NoSnapshot}
        /\ l \in layers /\ f.answer[l] \in Snapshots => pin[l] = f.answer[l]
    BY DEF NearLayers, NearbyInv, PinHolds
  <2>2. CASE l \in accepted
    BY <1>1, <1>4, <2>1, <2>2
  <2>3. CASE l \notin accepted
    <3>1. l \in changed => shown'[l] = Nothing /\ pin'[l] = NoSnapshot
      BY <1>1, <2>1, <2>3
    <3>2. l \notin changed => shown'[l] = shown[l] /\ pin'[l] = pin[l]
      BY <1>1, <2>1, <2>3
    <3> QED
      BY <2>1, <3>1, <3>2
  <2> QED
    BY <2>2, <2>3
<1> QED
  BY <1>1, <1>7, <1>8, <1>9, <1>10 DEF NearbyInv

LEMMA NearbyStays ==
    ASSUME NearbyInv,
           UNCHANGED <<place, layers, delay, flights, shown, provenance, errors, pin>>
    PROVE  NearbyInv'
<1>1. OneGeneration' /\ ShownOnly'
  BY DEF NearbyInv, OneGeneration, ShownOnly
<1>2. ShownIsAsked'
  BY DEF NearbyInv, ShownIsAsked, Settled
<1>3. PinHolds'
  BY DEF NearbyInv, PinHolds
<1> QED
  BY <1>1, <1>2, <1>3 DEF NearbyInv

LEMMA NearbyKeeps == NearbyInv /\ [Next]_vars => NearbyInv'
<1> SUFFICES ASSUME NearbyInv, [Next]_vars PROVE NearbyInv'
  OBVIOUS
<1>1. ASSUME NEW p \in Places, MoveMap(p) PROVE NearbyInv'
  BY <1>1, AskKeeps, NoPlaceAssumption DEF MoveMap
<1>2. ASSUME NEW l, ToggleEarly(l) \/ ToggleLayer(l) PROVE NearbyInv'
  BY <1>2, ToggleEarlyKeeps, AskKeeps DEF ToggleLayer
<1>3. CASE SendRequests
  BY <1>3, SendRequestsKeeps
<1>4. ASSUME NEW f \in flights, SettleRequests(f) PROVE NearbyInv'
  BY <1>4, SettleRequestsKeeps
<1>5. ASSUME NEW f \in flights, NEW l \in DOMAIN f.answer, ReceiveReply(f, l) PROVE NearbyInv'
  BY <1>5, ReceiveReplyKeeps
<1>6. CASE RestoreShared
  BY <1>6, NearbyStays DEF RestoreShared
<1>7. CASE UNCHANGED nearbyVars
  BY <1>7, NearbyStays DEF nearbyVars
<1>8. CASE NearbyNext
  BY <1>1, <1>2, <1>3, <1>4, <1>5, <1>6, <1>8 DEF NearbyNext
<1> QED
  BY <1>7, <1>8
  DEF Next, vars, NearbyStep, SelectionStep, CompanyStep, BodiesStep, MapStep, SourceMovesOn

THEOREM NearbyInvariant == Spec => []NearbyInv
<1>1. Init => NearbyInv
  BY NearbyInitial DEF Init
<1> QED
  BY <1>1, NearbyKeeps, PTL DEF Spec

\* Once nothing is pending, every layer shows the place of the map or reports an error.
THEOREM NearbyAlwaysCurrent == Spec => []NearbyIsCurrent
<1>1. NearbyInv => NearbyIsCurrent
  BY DEF NearbyInv, ShownIsAsked, NearbyIsCurrent, Settled
<1> QED
  BY <1>1, NearbyInvariant, PTL

\* The snapshot a pinned layer shows is that of its pin, which is taken back only
\* together with what is shown.
THEOREM SnapshotAlwaysStays == Spec => SnapshotNeverSwitches
<1> DEFINE Stays == \A l \in PinnedLayers :
                      shown[l] # Nothing /\ shown'[l] # Nothing
                        => shown'[l].snapshot = shown[l].snapshot
<1>1. NearbyInv /\ NearbyInv' /\ [Next]_vars => [Stays]_nearbyVars
  <2> SUFFICES ASSUME NearbyInv, NearbyInv', [Next]_vars, NEW l \in PinnedLayers,
                      shown[l] # Nothing, shown'[l] # Nothing
               PROVE  shown'[l].snapshot = shown[l].snapshot
    OBVIOUS
  <2>1. pin[l] = shown[l].snapshot /\ pin'[l] = shown'[l].snapshot
    BY DEF NearbyInv, PinHolds
  <2>2. /\ l \in NearLayers /\ shown[l].snapshot \in Snapshots /\ shown'[l].snapshot \in Snapshots
        /\ NoSnapshot \notin Snapshots
    BY DEF NearLayers, NearbyInv, ShownOnly, NoSnapshot, Snapshots
  <2>3. pin'[l] \in {pin[l], NoSnapshot}
    <3>1. CASE UNCHANGED pin
      BY <3>1
    <3>2. ASSUME NEW f \in flights, SettleRequests(f) PROVE pin'[l] \in {pin[l], NoSnapshot}
      BY <2>2, <3>2 DEF SettleRequests
    <3>3. ASSUME NEW f \in flights, NEW k \in DOMAIN f.answer, ReceiveReply(f, k)
          PROVE  pin'[l] = pin[l]
      <4>1. PICK reply : pin' = [pin EXCEPT ![k] = PinAfter(k, reply)]
        BY <3>3 DEF ReceiveReply
      <4>2. pin[l] # NoSnapshot
        BY <2>1, <2>2
      <4> QED
        BY <2>2, <4>1, <4>2 DEF PinAfter, NearbyInv
    <3>4. CASE NearbyNext
      BY <3>1, <3>2, <3>3, <3>4
      DEF NearbyNext, MoveMap, Ask, ToggleEarly, ToggleLayer, SendRequests, RestoreShared
    <3> QED
      BY <3>1, <3>4
      DEF Next, vars, nearbyVars, NearbyStep, SelectionStep, CompanyStep, BodiesStep, MapStep,
          SourceMovesOn
  <2> QED
    BY <2>1, <2>2, <2>3
<1> QED
  BY <1>1, NearbyInvariant, PTL DEF Spec, SnapshotNeverSwitches

-----------------------------------------------------------------------------
(* Selections: what is under way is the latest decision of its way, and    *)
(* the details under way are those of the feature shown.                   *)

SelectionInv ==
    /\ SelectionIsOneSnapshot
    /\ \A ask \in asking :
         selected.kind = "point" /\ ask.id = selected.id /\ ask.snapshot = selected.snapshot
    /\ DOMAIN decided = Ways
    /\ \A choice \in choosing : choice.number = decided["search"]
    /\ \A look \in looking : look.number = decided["area"]

LEMMA SelectionInitial == SelectionInit => SelectionInv
<1> SUFFICES ASSUME SelectionInit PROVE SelectionInv
  OBVIOUS
<1>1. selected.parts = [p \in {} |-> NoSnapshot] /\ detail.kind = "nothing" /\ asking = {}
  BY DEF SelectionInit, NoFeature, NoDetail
<1>2. SelectionIsOneSnapshot
  BY <1>1 DEF SelectionIsOneSnapshot
<1> QED
  BY <1>1, <1>2 DEF SelectionInit, SelectionInv, Ways

\* A step that decides nothing and adds no request leaves the numbers as they are.
LEMMA NumbersStay ==
    ASSUME SelectionInv, decided' = decided,
           choosing' \subseteq choosing, looking' \subseteq looking
    PROVE  /\ DOMAIN decided' = Ways
           /\ \A choice \in choosing' : choice.number = decided'["search"]
           /\ \A look \in looking' : look.number = decided'["area"]
<1> QED
  BY DEF SelectionInv

\* What is shown stays, goes, or is replaced by the parts of one snapshot, in the order
\* of the decisions; its details stay only with the same feature.
ShownProperly ==
    /\ SelectionIsOneSnapshot'
    /\ \A ask \in asking' :
         selected'.kind = "point" /\ ask.id = selected'.id /\ ask.snapshot = selected'.snapshot
    /\ selected'.way # "none" /\ selected' # selected =>
         selected'.number = decided'[selected'.way]

LEMMA ShownStays ==
    ASSUME SelectionInv, UNCHANGED <<selected, asking, detail, mode>> PROVE ShownProperly
<1> QED
  BY DEF SelectionInv, SelectionIsOneSnapshot, Unlabelled, ShownProperly

LEMMA ShownGoes ==
    ASSUME Deselect PROVE ShownProperly
<1>1. /\ selected'.parts = [p \in {} |-> NoSnapshot] /\ selected'.way = "none"
      /\ detail'.kind = "nothing" /\ asking' = {}
  BY DEF Deselect, NoFeature, NoDetail
<1> QED
  BY <1>1 DEF ShownProperly, SelectionIsOneSnapshot

LEMMA ShownIsReplaced ==
    ASSUME SelectionInv, mode' = mode, NEW feature, Select(feature),
           \A p \in DOMAIN feature.parts : p \notin Unlabelled => feature.parts[p] = feature.snapshot,
           feature.number = decided'[feature.way]
    PROVE  ShownProperly
<1>1. selected' = feature /\ Unlabelled' = Unlabelled
  BY DEF Select, Unlabelled
<1>2. \A ask \in asking' :
        feature.kind = "point" /\ ask.id = feature.id /\ ask.snapshot = feature.snapshot
  BY DEF Select, Detailed
<1>3. detail'.kind = "shown" =>
        feature.kind = "point" /\ detail'.id = feature.id /\ detail'.snapshot = feature.snapshot
  <2>1. CASE Detailed(feature.kind) /\ SameFeature(feature)
    BY <2>1 DEF Select, SameFeature, SelectionInv, SelectionIsOneSnapshot
  <2>2. CASE Detailed(feature.kind) /\ ~ SameFeature(feature)
    BY <2>2 DEF Select, NoDetail
  <2>3. CASE ~ Detailed(feature.kind)
    BY <2>3 DEF Select, NoDetail
  <2> QED
    BY <2>1, <2>2, <2>3
<1> QED
  BY <1>1, <1>2, <1>3 DEF ShownProperly, SelectionIsOneSnapshot

\* What is compared is the label: where an answer says what snapshot it is of, it is of that.
LEMMA LabelledIsOfIt ==
    ASSUME NEW reply, NEW snapshot, OneSnapshot(reply, snapshot)
    PROVE  \A p \in DOMAIN reply : p \notin Unlabelled => reply[p] = snapshot
<1> QED
  BY DEF OneSnapshot, Label

LEMMA SelectionKeeps ==
    ASSUME SelectionInv, SelectionNext, mode' = mode PROVE SelectionInv' /\ ShownProperly
<1> USE DEF searchVars, areaVars, shownVars
<1> DEFINE Numbers == /\ DOMAIN decided = Ways
                      /\ \A choice \in choosing : choice.number = decided["search"]
                      /\ \A look \in looking : look.number = decided["area"]
<1>q. ASSUME ShownProperly, Numbers' PROVE SelectionInv'
  BY <1>q DEF SelectionInv, ShownProperly
<1> SUFFICES ShownProperly /\ Numbers'
  BY <1>q
<1>1. CASE (\E t \in Terms \cup {NoTerm} : Type(t)) \/ StartSearch \/ SearchReply \/ CloseMatches
  <2>1. UNCHANGED <<decided, choosing, looking, shownVars>>
    BY <1>1 DEF Type, StartSearch, SearchReply, CloseMatches
  <2> QED
    BY <2>1, NumbersStay, ShownStays
<1>2. ASSUME NEW choice \in choosing, Open(choice) PROVE ShownProperly /\ Numbers'
  <2>1. UNCHANGED <<decided, looking>> /\ choosing' \subseteq choosing
    BY <1>2 DEF Open
  <2>2. ShownProperly
    <3> DEFINE opened(reply) ==
          [kind |-> choice.kind, id |-> choice.id, snapshot |-> choice.snapshot,
           parts |-> reply, way |-> "search", number |-> choice.number]
    <3>1. PICK reply : IF OneSnapshot(reply, choice.snapshot)
                       THEN Select(opened(reply)) ELSE UNCHANGED shownVars
      BY <1>2 DEF Open
    <3>2. choice.number = decided'["search"]
      BY <2>1 DEF SelectionInv
    <3>3. CASE OneSnapshot(reply, choice.snapshot)
      <4>1. \A p \in DOMAIN reply : p \notin Unlabelled => reply[p] = choice.snapshot
        BY <3>3, LabelledIsOfIt
      <4>2. /\ opened(reply).parts = reply /\ opened(reply).snapshot = choice.snapshot
            /\ opened(reply).number = decided'[opened(reply).way]
        BY <3>2
      <4>3. Select(opened(reply))
        BY <3>1, <3>3
      <4> HIDE DEF opened
      <4> QED
        BY <4>1, <4>2, <4>3, ShownIsReplaced
    <3>4. CASE ~ OneSnapshot(reply, choice.snapshot)
      BY <3>1, <3>4, ShownStays
    <3> QED
      BY <3>3, <3>4
  <2> QED
    BY <2>1, <2>2, NumbersStay
<1>3. ASSUME NEW kind, NEW id, Choose(kind, id) PROVE ShownProperly /\ Numbers'
  <2>1. /\ UNCHANGED <<shownVars, looking>> /\ Decide("search")
        /\ choosing' = OpenOnly(Choice(kind, id))
    BY <1>3 DEF Choose
  <2>2. /\ DOMAIN decided' = Ways /\ decided'["search"] = decided["search"] + 1
        /\ decided'["area"] = decided["area"]
    BY <2>1 DEF Decide, SelectionInv, Ways
  <2> QED
    BY <2>1, <2>2, ShownStays DEF OpenOnly, Choice, SelectionInv
<1>4. ASSUME ChooseArea \/ \E point \in Points : LookUp(point) PROVE ShownProperly /\ Numbers'
  <2>1. UNCHANGED <<shownVars, choosing>> /\ Decide("area")
    BY <1>4 DEF ChooseArea, LookUp
  <2>2. \A look \in looking' : look.number = decided["area"] + 1
    BY <1>4 DEF ChooseArea, LookUp
  <2>3. /\ DOMAIN decided' = Ways /\ decided'["area"] = decided["area"] + 1
        /\ decided'["search"] = decided["search"]
    BY <2>1 DEF Decide, SelectionInv, Ways
  <2> QED
    BY <2>1, <2>2, <2>3, ShownStays DEF SelectionInv
<1>5. ASSUME NEW look \in looking, AreaReply(look) PROVE ShownProperly /\ Numbers'
  <2> DEFINE area(reply) == [kind |-> "supply", id |-> NoStation, snapshot |-> reply,
                             parts |-> [p \in {"item"} |-> reply], way |-> "area",
                             number |-> look.number]
  <2>1. UNCHANGED <<decided, choosing>> /\ looking' \subseteq looking
    BY <1>5 DEF AreaReply
  <2>2. PICK reply : Select(area(reply)) \/ UNCHANGED shownVars
    BY <1>5 DEF AreaReply
  <2>3. look.number = decided'["area"]
    BY <2>1 DEF SelectionInv
  <2>4. /\ \A p \in DOMAIN area(reply).parts : area(reply).parts[p] = area(reply).snapshot
        /\ area(reply).number = decided'[area(reply).way]
    BY <2>3
  <2> HIDE DEF area
  <2>5. ShownProperly
    BY <2>2, <2>4, ShownIsReplaced, ShownStays
  <2> QED
    BY <2>1, <2>5, NumbersStay
<1>6. ASSUME ToggleSupply \/ CloseDetail PROVE ShownProperly /\ Numbers'
  <2>1. UNCHANGED <<decided, choosing, looking>>
    BY <1>6 DEF ToggleSupply, CloseDetail
  <2>2. UNCHANGED shownVars \/ Deselect
    BY <1>6 DEF ToggleSupply, CloseDetail
  <2> QED
    BY <2>1, <2>2, NumbersStay, ShownStays, ShownGoes
<1>7. ASSUME NEW id, NEW snapshot, SelectPoint(id, snapshot) PROVE ShownProperly /\ Numbers'
  <2> DEFINE point == [kind |-> "point", id |-> id, snapshot |-> snapshot,
                       parts |-> [p \in {"item"} |-> snapshot], way |-> "map",
                       number |-> decided["map"] + 1]
  <2>1. UNCHANGED <<choosing, looking>> /\ Decide("map") /\ Select(point)
    BY <1>7 DEF SelectPoint
  <2>2. /\ DOMAIN decided' = Ways /\ decided'["map"] = decided["map"] + 1
        /\ decided'["search"] = decided["search"] /\ decided'["area"] = decided["area"]
    BY <2>1 DEF Decide, SelectionInv, Ways
  <2>3. /\ \A p \in DOMAIN point.parts : point.parts[p] = point.snapshot
        /\ point.number = decided'[point.way]
    BY <2>2
  <2> HIDE DEF point
  <2>4. ShownProperly
    BY <2>1, <2>3, ShownIsReplaced
  <2> QED
    BY <2>1, <2>2, <2>4 DEF SelectionInv
<1>8. ASSUME NEW ask \in asking, DetailReply(ask) PROVE ShownProperly /\ Numbers'
  <2>1. UNCHANGED <<decided, choosing, looking, selected>> /\ asking' \subseteq asking
    BY <1>8 DEF DetailReply
  <2>2. selected.kind = "point" /\ detail'.id = selected.id /\ detail'.snapshot = selected.snapshot
    BY <1>8 DEF DetailReply, SelectionInv
  <2>3. SelectionIsOneSnapshot'
    BY <2>1, <2>2 DEF SelectionInv, SelectionIsOneSnapshot, Unlabelled
  <2> QED
    BY <2>1, <2>3, NumbersStay DEF ShownProperly, SelectionInv
<1> QED
  BY <1>1, <1>2, <1>3, <1>4, <1>5, <1>6, <1>7, <1>8 DEF SelectionNext

LEMMA SelectionStepKeeps == SelectionInv /\ [Next]_vars => SelectionInv' /\ ShownProperly
<1> SUFFICES ASSUME SelectionInv, [Next]_vars PROVE SelectionInv' /\ ShownProperly
  OBVIOUS
<1>0. mode' = mode
  BY DEF Next, vars, sourceVars, NearbyStep, SelectionStep, CompanyStep, BodiesStep, MapStep,
         SourceMovesOn, Publish
<1>1. CASE SelectionNext
  BY <1>0, <1>1, SelectionKeeps
<1>2. CASE UNCHANGED selectionVars
  <2>1. UNCHANGED <<selected, asking, detail, decided, choosing, looking, mode>>
    BY <1>0, <1>2 DEF selectionVars
  <2>2. ShownProperly
    BY <2>1, ShownStays
  <2> QED
    BY <2>1, <2>2 DEF SelectionInv, ShownProperly
<1> QED
  BY <1>1, <1>2
  DEF Next, vars, NearbyStep, SelectionStep, CompanyStep, BodiesStep, MapStep, SourceMovesOn

THEOREM SelectionInvariant == Spec => []SelectionInv
<1>1. Init => SelectionInv
  BY SelectionInitial DEF Init
<1> QED
  BY <1>1, SelectionStepKeeps, PTL DEF Spec

\* No feature is ever shown with a part that names another snapshot than its label, and
\* never with the details of another feature or snapshot.
THEOREM SelectionAlwaysOneSnapshot == Spec => []SelectionIsOneSnapshot
<1>1. SelectionInv => SelectionIsOneSnapshot
  BY DEF SelectionInv
<1> QED
  BY <1>1, SelectionInvariant, PTL

\* No earlier decision is shown after a later one of the same way, whichever answers first.
THEOREM LastChoiceAlwaysWins == Spec => LastChoiceWins
<1>1. SelectionInv /\ [Next]_vars =>
        [selected'.way # "none" /\ selected' # selected =>
           selected'.number = decided'[selected'.way]]_selectionVars
  BY SelectionStepKeeps DEF ShownProperly
<1> QED
  BY <1>1, SelectionInvariant, PTL DEF Spec, LastChoiceWins

-----------------------------------------------------------------------------
(* The company: everything shown and under way is for the selected one.    *)

CompanyInv ==
    /\ \A b \in boundary :
         /\ {"company", "areas", "geometry", "inventory", "pages"} \subseteq DOMAIN b
         /\ b.company = company /\ boundariesOn /\ index # NoSnapshot
    /\ \A p \in performing : {"company", "snapshot"} \subseteq DOMAIN p /\ p.company = company
    /\ companyAreas # NoAreas => index # NoSnapshot
    /\ CompanyShownIsComplete

LEMMA CompanyInitial == CompanyInit => CompanyInv
<1> QED
  BY DEF CompanyInit, CompanyInv, CompanyShownIsComplete

LEMMA SelectOnlyKeeps ==
    ASSUME CompanyInv, NEW c, SelectOnly(c), index # NoSnapshot,
           index' = index, boundariesOn' = boundariesOn
    PROVE  CompanyInv'
<1>1. company' = c /\ companyAreas' = NoAreas /\ performance' = NoPerformance
  BY DEF SelectOnly
<1>2. ASSUME NEW b \in boundary'
      PROVE  /\ {"company", "areas", "geometry", "inventory", "pages"} \subseteq DOMAIN b
             /\ b.company = company' /\ boundariesOn' /\ index' # NoSnapshot
  BY <1>1, <1>2 DEF SelectOnly, Load
<1>3. ASSUME NEW p \in performing'
      PROVE  {"company", "snapshot"} \subseteq DOMAIN p /\ p.company = company'
  BY <1>1, <1>3 DEF SelectOnly, LoadPerformance
<1> QED
  BY <1>1, <1>2, <1>3 DEF CompanyInv, CompanyShownIsComplete

LEMMA CompanyKeeps == ASSUME CompanyInv, CompanyNext PROVE CompanyInv'
<1> USE DEF CompanyInv
<1>1. CASE IndexReply
  <2>1. boundary = {} /\ companyAreas = NoAreas
    BY <1>1 DEF IndexReply
  <2> QED
    BY <1>1, <2>1 DEF IndexReply, CompanyShownIsComplete
<1>2. CASE SelectLinked
  BY <1>2, SelectOnlyKeeps DEF SelectLinked
<1>3. CASE ToggleBoundaries
  <2>1. UNCHANGED <<index, company, performing, performance>>
    BY <1>3 DEF ToggleBoundaries
  <2>2. CASE boundariesOn
    BY <1>3, <2>1, <2>2 DEF ToggleBoundaries, CompanyShownIsComplete
  <2>3. CASE ~ boundariesOn
    <3>1. boundary = {} /\ companyAreas = NoAreas /\ companyAreas' = NoAreas /\ boundariesOn'
      BY <1>3, <2>3 DEF ToggleBoundaries, CompanyShownIsComplete
    <3>2. ASSUME NEW b \in boundary'
          PROVE  /\ {"company", "areas", "geometry", "inventory", "pages"} \subseteq DOMAIN b
                 /\ b.company = company' /\ index' # NoSnapshot
      BY <1>3, <2>1, <2>3, <3>1, <3>2 DEF ToggleBoundaries, Load
    <3> QED
      BY <2>1, <3>1, <3>2 DEF CompanyShownIsComplete
  <2> QED
    BY <2>2, <2>3
<1>4. ASSUME NEW c \in Companies \cup {NoCompany}, SelectCompany(c) PROVE CompanyInv'
  BY <1>4, SelectOnlyKeeps DEF SelectCompany
<1>5. ASSUME NEW b \in boundary, PageReply(b) \/ GeometryReply(b) PROVE CompanyInv'
  <2>1. UNCHANGED <<index, company, boundariesOn, companyAreas, performing, performance>>
    BY <1>5 DEF PageReply, GeometryReply
  <2>2. ASSUME NEW d \in boundary'
        PROVE  /\ {"company", "areas", "geometry", "inventory", "pages"} \subseteq DOMAIN d
               /\ d.company = company
    <3>1. CASE d \in boundary
      BY <3>1
    <3>2. CASE d \notin boundary /\ PageReply(b)
      <4>1. PICK reply, size, ends :
              d = IF reply # index THEN [b EXCEPT !.inventory = Failed]
                  ELSE [b EXCEPT !.pages = @ + 1,
                                 !.areas = @ \o SubSeq(After(AreasOf(b.company, reply), Len(b.areas)),
                                                       1, size),
                                 !.inventory = IF ends THEN reply ELSE Waiting]
        BY <2>2, <3>2 DEF PageReply
      <4> QED
        BY <4>1
    <3>3. CASE d \notin boundary /\ GeometryReply(b)
      <4>1. PICK reply : d = [b EXCEPT !.geometry = reply]
        BY <2>2, <3>3 DEF GeometryReply
      <4> QED
        BY <4>1
    <3> QED
      BY <1>5, <3>1, <3>2, <3>3
  <2>3. boundariesOn /\ index # NoSnapshot
    OBVIOUS
  <2> QED
    BY <2>1, <2>2, <2>3 DEF CompanyShownIsComplete
<1>6. ASSUME NEW b \in boundary, EndBoundary(b) PROVE CompanyInv'
  <2>1. /\ boundary' = boundary \ {b}
        /\ UNCHANGED <<index, company, boundariesOn, performing, performance>>
    BY <1>6 DEF EndBoundary
  <2>2. companyAreas' = companyAreas
          \/ companyAreas' = [company |-> company, areas |-> AreasOf(company, index)]
    BY <1>6 DEF EndBoundary, CompleteBoundary
  <2> QED
    BY <2>1, <2>2 DEF CompanyShownIsComplete
<1>7. ASSUME NEW p \in performing, PerformanceReply(p) PROVE CompanyInv'
  <2>1. UNCHANGED <<index, company, boundariesOn, boundary, companyAreas>>
    BY <1>7 DEF PerformanceReply
  <2>2. \A q \in performing' : {"company", "snapshot"} \subseteq DOMAIN q /\ q.company = company
    <3>1. PICK reply : performing' \subseteq performing \cup {[p EXCEPT !.snapshot = reply]}
      BY <1>7 DEF PerformanceReply
    <3> QED
      BY <3>1
  <2>3. performance' = performance \/ performance'.company = company
    BY <1>7 DEF PerformanceReply
  <2> QED
    BY <2>1, <2>2, <2>3 DEF CompanyShownIsComplete
<1> QED
  BY <1>1, <1>2, <1>3, <1>4, <1>5, <1>6, <1>7 DEF CompanyNext

\* A company's areas appear whole, or not at all, and never beside another company.
THEOREM CompanyAlwaysComplete == Spec => []CompanyShownIsComplete
<1>1. Init => CompanyInv
  BY CompanyInitial DEF Init
<1>2. CompanyInv /\ [Next]_vars => CompanyInv'
  <2> SUFFICES ASSUME CompanyInv, [Next]_vars PROVE CompanyInv'
    OBVIOUS
  <2>1. CASE CompanyNext
    BY <2>1, CompanyKeeps
  <2>2. CASE UNCHANGED companyVars
    BY <2>2 DEF CompanyInv, CompanyShownIsComplete, companyVars
  <2> QED
    BY <2>1, <2>2
    DEF Next, vars, NearbyStep, SelectionStep, CompanyStep, BodiesStep, MapStep, SourceMovesOn
<1>3. CompanyInv => CompanyShownIsComplete
  BY DEF CompanyInv
<1> QED
  BY <1>1, <1>2, <1>3, PTL DEF Spec

-----------------------------------------------------------------------------
(* The Water Bodies: the request that counts continues the list at hand.   *)

ListInv ==
    /\ dataset \in Snapshots \cup {NoSnapshot}
    /\ dataset = NoSnapshot => items = <<>> /\ ~ more
    /\ dataset # NoSnapshot =>
         /\ items \in Seq(Nat \ {0})
         /\ Len(items) <= Len(BodiesOf(dataset))
         /\ \A i \in 1..Len(items) : items[i] = BodiesOf(dataset)[i]
         /\ more <=> Len(items) < Len(BodiesOf(dataset))
         /\ more => items # <<>>

CallsInv ==
    /\ generation \in Nat
    /\ \A call \in calls : call.number \in 1..generation
    /\ \A c, d \in calls : c.number = d.number => c = d
    /\ \A call \in calls :
         /\ call.for \in {"page", "body"}
         /\ call.for = "page" /\ Current(call) =>
              \/ call.after = 0
              \/ /\ call.after = LastId(items) /\ call.snapshot = dataset
                 /\ dataset # NoSnapshot /\ items # <<>>

BodiesInv == ListInv /\ CallsInv /\ \A s, t \in body.snapshots : s = t

\* The cursor of a list is where its rest begins: k bodies are up to the k-th one.
LEMMA CursorPlace ==
    ASSUME NEW snapshot \in Snapshots, NEW k \in 0..Len(BodiesOf(snapshot)),
           NEW after, after = IF k = 0 THEN 0 ELSE BodiesOf(snapshot)[k]
    PROVE  Cardinality({i \in 1..Len(BodiesOf(snapshot)) : BodiesOf(snapshot)[i] <= after}) = k
<1> DEFINE all == BodiesOf(snapshot)
<1>1. /\ all \in Seq(Nat \ {0}) /\ Len(all) \in Nat
      /\ \A i \in 1..Len(all) : all[i] \in Nat /\ all[i] >= 1
      /\ \A i, j \in 1..Len(all) : i < j => all[i] < all[j]
  BY BodiesAssumption
<1> HIDE DEF all
<1>2. {i \in 1..Len(all) : all[i] <= after} = 1..k
  <2>1. CASE k = 0
    BY <1>1, <2>1 DEF all
  <2>2. CASE k # 0
    <3>1. k \in 1..Len(all) /\ after = all[k]
      BY <1>1, <2>2 DEF all
    <3>2. ASSUME NEW i \in 1..Len(all) PROVE all[i] <= after <=> i <= k
      <4>1. i < k => all[i] < all[k]
        BY <1>1, <3>1
      <4>2. k < i => all[k] < all[i]
        BY <1>1, <3>1
      <4>3. all[i] \in Nat /\ all[k] \in Nat /\ i \in Nat /\ k \in Nat
        BY <1>1, <3>1
      <4> QED
        BY <3>1, <4>1, <4>2, <4>3
    <3> QED
      BY <1>1, <3>1, <3>2
  <2> QED
    BY <2>1, <2>2
<1>3. Cardinality(1..k) = k
  BY <1>1, FS_Interval DEF all
<1> QED
  BY <1>2, <1>3 DEF all

\* A page that continues a beginning of the list gives a longer beginning, and there is
\* more exactly while some bodies are missing.
LEMMA PageContinues ==
    ASSUME NEW snapshot \in Snapshots, NEW k \in 0..Len(BodiesOf(snapshot)),
           NEW after, after = IF k = 0 THEN 0 ELSE BodiesOf(snapshot)[k]
    PROVE  LET all  == BodiesOf(snapshot)
               page == Page(all, after)
           IN  /\ page \in Seq(Nat \ {0})
               /\ k + Len(page) <= Len(all)
               /\ \A i \in 1..Len(page) : page[i] = all[k + i]
               /\ page # <<>> /\ Last(page) # Last(all) <=> k + Len(page) < Len(all)
<1> DEFINE all == BodiesOf(snapshot)
           page == Page(all, after)
           left == Len(all) - k
           size == IF left < BodyPage THEN left ELSE BodyPage
<1>1. /\ all \in Seq(Nat \ {0}) /\ Len(all) \in Nat
      /\ \A i, j \in 1..Len(all) : i < j => all[i] < all[j]
      /\ BodyPage \in Nat /\ BodyPage >= 1
  BY BodiesAssumption
<1>2. page = SubSeq(all, k + 1, k + size)
  <2> DEFINE upTo == Cardinality({i \in 1..Len(all) : all[i] <= after})
  <2>1. upTo = k
    BY CursorPlace
  <2>2. page = SubSeq(all, upTo + 1, upTo + IF Len(all) - upTo < BodyPage
                                           THEN Len(all) - upTo ELSE BodyPage)
    BY DEF Page
  <2> HIDE DEF upTo
  <2> QED
    BY <2>1, <2>2
<1>k. k \in Nat /\ k <= Len(all)
  BY <1>1
<1> HIDE DEF all, page
<1>3. size \in Nat /\ k + size <= Len(all) /\ (size = 0 <=> k = Len(all))
  BY <1>1, <1>k
<1> HIDE DEF size
<1>4. \A i \in (k + 1)..(k + size) : all[i] \in Nat \ {0}
  BY <1>1, <1>3, <1>k
<1>5. page \in Seq(Nat \ {0}) /\ Len(page) = size
  BY <1>1, <1>2, <1>3, <1>k
<1>6. Len(page) = size
  BY <1>5
<1>7. \A i \in 1..Len(page) : page[i] = all[k + i]
  BY <1>1, <1>2, <1>3, <1>5, <1>k
<1>8. page # <<>> /\ Last(page) # Last(all) <=> k + Len(page) < Len(all)
  <2>1. CASE size = 0
    <3>1. page = <<>> /\ k + Len(page) = Len(all)
      BY <1>3, <1>5, <1>6, <2>1, <1>k, EmptySeq
    <3> QED
      BY <1>1, <3>1
  <2>2. CASE size # 0
    <3>1. /\ page # <<>> /\ Last(page) = all[k + size] /\ Last(all) = all[Len(all)]
          /\ k + size \in 1..Len(all) /\ Len(all) \in 1..Len(all)
      BY <1>1, <1>3, <1>5, <1>6, <1>7, <1>k, <2>2 DEF Last
    <3>2. all[k + size] \in Nat /\ all[Len(all)] \in Nat
      BY <1>1, <3>1
    <3>3. k + size < Len(all) => all[k + size] < all[Len(all)]
      BY <1>1, <3>1
    <3>4. ~ (k + size < Len(all)) => k + size = Len(all)
      BY <1>1, <1>3, <1>k
    <3> QED
      BY <1>6, <3>1, <3>2, <3>3, <3>4
  <2> QED
    BY <2>1, <2>2
<1> QED
  BY <1>3, <1>5, <1>6, <1>7, <1>8 DEF all, page

LEMMA BodiesInitial == BodiesInit => BodiesInv
<1> SUFFICES ASSUME BodiesInit PROVE BodiesInv
  OBVIOUS
<1> USE DEF BodiesInit
<1>1. ListInv
  BY DEF ListInv
<1>2. CallsInv
  BY DEF CallsInv
<1>3. \A s, t \in body.snapshots : s = t
  BY DEF NoBody
<1> QED
  BY <1>1, <1>2, <1>3 DEF BodiesInv

LEMMA BeginKeeps ==
    ASSUME BodiesInv, NEW call, Begin(call), call.number = generation + 1,
           call.for = "page" \/ call.for = "body",
           call.for = "page" =>
             \/ call.after = 0
             \/ /\ call.after = LastId(items) /\ call.snapshot = dataset
                /\ dataset # NoSnapshot /\ items # <<>>,
           UNCHANGED <<dataset, items, more, body>>
    PROVE  BodiesInv'
<1>1. generation \in Nat /\ generation' = generation + 1 /\ calls' = calls \cup {call}
  BY DEF Begin, BodiesInv, CallsInv
<1>2. ListInv'
  BY DEF BodiesInv, ListInv
<1>3. ASSUME NEW c \in calls
      PROVE  c.number \in 1..generation' /\ c.number # generation' /\ c.number # call.number
  BY <1>1 DEF BodiesInv, CallsInv
<1>4. call.number \in 1..generation'
  BY <1>1
<1>5. \A c, d \in calls' : c.number = d.number => c = d
  BY <1>1, <1>3 DEF BodiesInv, CallsInv
<1>6. ASSUME NEW c \in calls', c.for = "page" /\ c.number = generation'
      PROVE  \/ c.after = 0
             \/ /\ c.after = LastId(items') /\ c.snapshot = dataset'
                /\ dataset' # NoSnapshot /\ items' # <<>>
  <2>1. c = call
    BY <1>1, <1>3, <1>6
  <2> QED
    BY <1>6, <2>1
<1>7. \A c \in calls' : c.number \in 1..generation' /\ c.for \in {"page", "body"}
  BY <1>1, <1>3, <1>4 DEF BodiesInv, CallsInv
<1>8. CallsInv'
  BY <1>1, <1>5, <1>6, <1>7 DEF CallsInv, Current
<1> QED
  BY <1>2, <1>8 DEF BodiesInv

\* An answer that is late, or no answer, leaves the list as it is.
LEMMA LateKeeps ==
    ASSUME BodiesInv, calls' \subseteq calls, UNCHANGED <<dataset, items, more, generation>>,
           \A s, t \in body'.snapshots : s = t
    PROVE  BodiesInv'
<1>1. ListInv'
  BY DEF BodiesInv, ListInv
<1>2. CallsInv'
  BY DEF BodiesInv, CallsInv, Current
<1> QED
  BY <1>1, <1>2 DEF BodiesInv

LEMMA TakePageKeeps ==
    ASSUME BodiesInv, NEW call \in calls, call.for = "page", Current(call),
           NEW snapshot \in Snapshots, TakePage(call, snapshot),
           call.snapshot # NoSnapshot => snapshot = call.snapshot,
           calls' = calls \ {call}, UNCHANGED <<generation, body>>
    PROVE  BodiesInv'
<1> DEFINE all == BodiesOf(snapshot)
           k == IF call.after = 0 THEN 0 ELSE Len(items)
           page == Page(all, call.after)
<1>1. /\ dataset' = snapshot
      /\ items' = IF call.after = 0 THEN page ELSE items \o page
      /\ more' = (page # <<>> /\ Last(page) # Last(all))
  BY DEF TakePage
<1>2. NoSnapshot \notin Snapshots
  BY DEF NoSnapshot, Snapshots
<1>3. call.after # 0 =>
        /\ call.after = LastId(items) /\ call.snapshot = dataset
        /\ dataset # NoSnapshot /\ items # <<>>
  BY DEF BodiesInv, CallsInv
<1>4. call.after # 0 =>
        /\ dataset = snapshot /\ items \in Seq(Nat \ {0}) /\ Len(items) <= Len(all)
        /\ \A i \in 1..Len(items) : items[i] = all[i]
  BY <1>3 DEF BodiesInv, ListInv
<1>5. all \in Seq(Nat \ {0}) /\ Len(all) \in Nat
  BY BodiesAssumption
<1>6. /\ k \in 0..Len(all)
      /\ call.after = IF k = 0 THEN 0 ELSE all[k]
  <2>1. CASE call.after = 0
    BY <1>5, <2>1
  <2>2. CASE call.after # 0
    <3>1. Len(items) \in Nat /\ Len(items) # 0 /\ call.after = items[Len(items)]
      BY <1>3, <1>4, <2>2, EmptySeq DEF LastId, Last
    <3>2. Len(items) \in 1..Len(all)
      BY <1>4, <1>5, <2>2, <3>1
    <3> QED
      BY <1>4, <1>5, <2>2, <3>1, <3>2
  <2> QED
    BY <2>1, <2>2
<1>7. /\ page \in Seq(Nat \ {0})
      /\ k + Len(page) <= Len(all)
      /\ \A i \in 1..Len(page) : page[i] = all[k + i]
      /\ page # <<>> /\ Last(page) # Last(all) <=> k + Len(page) < Len(all)
  <2> HIDE DEF k
  <2> QED
    BY <1>6, PageContinues
<1> HIDE DEF all, page
<1>8. /\ items' \in Seq(Nat \ {0}) /\ Len(items') = k + Len(page)
      /\ \A i \in 1..Len(items') : items'[i] = all[i]
  <2>1. CASE call.after = 0
    BY <1>1, <1>7, <2>1
  <2>2. CASE call.after # 0
    <3>1. items' = items \o page /\ k = Len(items)
      BY <1>1, <2>2
    <3>2. items \in Seq(Nat \ {0}) /\ \A i \in 1..Len(items) : items[i] = all[i]
      BY <1>4, <2>2
    <3>3. /\ items' \in Seq(Nat \ {0}) /\ Len(items') = Len(items) + Len(page)
          /\ \A i \in 1..Len(items) : items'[i] = items[i]
          /\ \A i \in 1..Len(page) : items'[Len(items) + i] = page[i]
      BY <1>7, <3>1, <3>2
    <3>4. ASSUME NEW i \in 1..Len(items') PROVE items'[i] = all[i]
      <4>1. CASE i <= Len(items)
        BY <3>2, <3>3, <4>1
      <4>2. CASE ~ (i <= Len(items))
        <5>1. i - Len(items) \in 1..Len(page) /\ Len(items) + (i - Len(items)) = i
          BY <1>7, <3>2, <3>3, <4>2
        <5> QED
          BY <1>7, <3>1, <3>3, <5>1
      <4> QED
        BY <4>1, <4>2
    <3> QED
      BY <3>1, <3>3, <3>4
  <2> QED
    BY <2>1, <2>2
<1>9. more' <=> Len(items') < Len(all)
  BY <1>1, <1>7, <1>8
<1>10. more' => items' # <<>>
  <2>1. more' => Len(page) # 0
    BY <1>1, <1>7, EmptySeq
  <2>2. Len(page) \in Nat /\ k \in Nat
    BY <1>5, <1>6, <1>7
  <2>3. more' => Len(items') # 0
    BY <1>8, <2>1, <2>2
  <2> QED
    BY <2>3, EmptySeq
<1>11. ListInv'
  BY <1>1, <1>2, <1>7, <1>8, <1>9, <1>10 DEF ListInv, all
<1>12. \A c \in calls' : c.number # generation'
  BY DEF BodiesInv, CallsInv, Current
<1>13. CallsInv'
  BY <1>12 DEF BodiesInv, CallsInv, Current
<1> QED
  BY <1>11, <1>13 DEF BodiesInv

LEMMA PageAnswerKeeps ==
    ASSUME BodiesInv, NEW call \in calls, PageAnswer(call) PROVE BodiesInv'
<1>1. call.for = "page" /\ calls' = calls \ {call} /\ UNCHANGED <<generation, body>>
  BY DEF PageAnswer
<1>2. PICK raw : LET reply == Pinned(raw, call.snapshot) IN
        IF Current(call) /\ reply \in Snapshots
        THEN TakePage(call, reply) ELSE UNCHANGED <<dataset, items, more>>
  BY DEF PageAnswer
<1> DEFINE reply == Pinned(raw, call.snapshot)
<1>3. CASE Current(call) /\ reply \in Snapshots
  <2>1. call.snapshot # NoSnapshot => reply = call.snapshot
    BY <1>3 DEF Pinned, Changed, Snapshots
  <2> QED
    BY <1>1, <1>2, <1>3, <2>1, TakePageKeeps
<1>4. CASE ~ (Current(call) /\ reply \in Snapshots)
  <2>1. \A s, t \in body'.snapshots : s = t
    BY <1>1 DEF BodiesInv
  <2> QED
    BY <1>1, <1>2, <1>4, <2>1, LateKeeps
<1> QED
  BY <1>3, <1>4

LEMMA BodyAnswerKeeps ==
    ASSUME BodiesInv, NEW call \in calls, BodyAnswer(call) PROVE BodiesInv'
<1>1. calls' = calls \ {call} /\ UNCHANGED <<dataset, items, more, generation>>
  BY DEF BodyAnswer
<1>2. PICK details, outline :
        IF Current(call) /\ SameSnapshots(details, Labelled(outline))
        THEN body' = [id |-> call.id, snapshots |-> {details, outline}] ELSE UNCHANGED body
  BY DEF BodyAnswer
<1>3. SameSnapshots(details, Labelled(outline)) => details = outline
  BY DEF SameSnapshots, Labelled
<1>4. \A s, t \in body'.snapshots : s = t
  BY <1>2, <1>3 DEF BodiesInv
<1> QED
  BY <1>1, <1>4, LateKeeps

LEMMA BodiesKeeps == BodiesInv /\ [Next]_vars => BodiesInv'
<1> SUFFICES ASSUME BodiesInv, [Next]_vars PROVE BodiesInv'
  OBVIOUS
<1>s. \A s, t \in body.snapshots : s = t
  BY DEF BodiesInv
<1>1. CASE Toggle
  <2>1. UNCHANGED <<dataset, items, more, body>>
    BY <1>1 DEF Toggle
  <2>2. CASE ~ open /\ items = <<>> /\ ~ busy
    BY <1>1, <2>1, <2>2, BeginKeeps DEF Toggle, LoadCall
  <2>3. CASE ~ (~ open /\ items = <<>> /\ ~ busy)
    BY <1>s, <1>1, <2>1, <2>3, LateKeeps DEF Toggle
  <2> QED
    BY <2>2, <2>3
<1>2. CASE LoadNext
  <2>1. dataset # NoSnapshot /\ items # <<>>
    BY <1>2 DEF LoadNext, BodiesInv, ListInv
  <2> QED
    BY <1>2, <2>1, BeginKeeps DEF LoadNext, LoadCall
<1>3. CASE Reload
  BY <1>3, BeginKeeps DEF Reload, LoadCall
<1>4. ASSUME NEW id, SelectBody(id) PROVE BodiesInv'
  BY <1>4, BeginKeeps DEF SelectBody
<1>5. ASSUME NEW call \in calls, PageAnswer(call) \/ BodyAnswer(call) PROVE BodiesInv'
  BY <1>5, PageAnswerKeeps, BodyAnswerKeeps
<1>6. CASE UNCHANGED bodyVars
  BY <1>s, <1>6, LateKeeps DEF bodyVars
<1>7. CASE BodiesNext
  BY <1>1, <1>2, <1>3, <1>4, <1>5, <1>7 DEF BodiesNext
<1> QED
  BY <1>6, <1>7
  DEF Next, vars, NearbyStep, SelectionStep, CompanyStep, BodiesStep, MapStep, SourceMovesOn

LEMMA WholeSubSeq == ASSUME NEW S, NEW s \in Seq(S) PROVE SubSeq(s, 1, Len(s)) = s
<1> QED
  OBVIOUS

\* The list is always a beginning of its dataset's bodies, and "Load next" is offered
\* exactly while some are missing.
THEOREM BodiesAlwaysConsecutive == Spec => []BodiesAreConsecutive
<1>1. Init => BodiesInv
  BY BodiesInitial DEF Init
<1>2. BodiesInv => BodiesAreConsecutive
  <2> SUFFICES ASSUME BodiesInv PROVE BodiesAreConsecutive
    OBVIOUS
  <2>1. ASSUME items # <<>> PROVE IsPrefix(items, BodiesOf(dataset))
    <3> DEFINE all == BodiesOf(dataset)
    <3>1. /\ dataset \in Snapshots /\ items \in Seq(Nat \ {0}) /\ Len(items) <= Len(all)
          /\ \A i \in 1..Len(items) : items[i] = all[i]
      BY <2>1 DEF BodiesInv, ListInv
    <3>2. all \in Seq(Nat \ {0})
      BY <3>1, BodiesAssumption
    <3> HIDE DEF all
    <3>3. Len(items) \in Nat /\ Len(all) \in Nat
      BY <3>1, <3>2
    <3>4. items = SubSeq(all, 1, Len(items))
      BY <3>1, <3>2, <3>3
    <3>5. SubSeq(items, 1, Len(items)) = items
      BY <3>1, WholeSubSeq
    <3>6. IsPrefix(items, all)
      BY <3>1, <3>4, <3>5 DEF IsPrefix
    <3> QED
      BY <3>6 DEF all
  <2>2. dataset # NoSnapshot => (more <=> Len(items) < Len(BodiesOf(dataset)))
    BY DEF BodiesInv, ListInv
  <2>3. Cardinality(body.snapshots) <= 1
    <3>1. CASE body.snapshots = {}
      BY <3>1, FS_EmptySet
    <3>2. CASE body.snapshots # {}
      <4>1. PICK s : s \in body.snapshots
        BY <3>2
      <4>2. body.snapshots = {s}
        BY <4>1 DEF BodiesInv
      <4>3. Cardinality({s}) = 1
        BY FS_Singleton
      <4> QED
        BY <4>2, <4>3
    <3> QED
      BY <3>1, <3>2
  <2> QED
    BY <2>1, <2>2, <2>3 DEF BodiesAreConsecutive
<1> QED
  BY <1>1, <1>2, BodiesKeeps, PTL DEF Spec

-----------------------------------------------------------------------------
(* The canvas: with its sources it is up to date.                          *)

MapInv ==
    /\ features \in Nat /\ picks \in Nat /\ overview \in Nat /\ overviewAsked \in Nat
    /\ navigation \in 0..MaxChanges /\ lastNavigation \in 0..navigation
    /\ revision \in Nat
    /\ installed \in BOOLEAN
    /\ moves \in [1..MaxChanges -> 0..1]
    /\ \A n \in 1..MaxChanges : n > lastNavigation => moves[n] = 0
    /\ lastNavigation # 0 => moves[lastNavigation] = 1
    /\ focusMoves \in Nat
    /\ installed =>
         /\ drawn = <<features, geometry>> /\ drawnFocus = Marked(focus)
         /\ CanMoveTo(focus, geometry) => focusMoves > 0
         /\ drawnOverview = overview /\ lastNavigation = navigation

\* What the effects leave on the canvas after a render: the present state, if the
\* sources are there, and the latest intent carried out at most once.
LEMMA EffectsShow ==
    ASSUME MapInv, Effects,
           features' \in Nat, picks' \in Nat, overview' \in Nat, overviewAsked' \in Nat,
           revision' \in Nat,
           navigation' \in navigation..MaxChanges, installed' \in BOOLEAN,
           installed' /\ ~ installed => revision' # revision
    PROVE  MapInv'
<1> USE DEF MapInv, Effects
<1> DEFINE ran == navigation' # navigation \/ revision' # revision
<1>1. installed' => drawn' = <<features', geometry'>>
  BY DEF DrawFeatures, Before, NewGeometry, NewStyle
<1>5. /\ focusMoves' \in Nat
      /\ installed' => drawnFocus' = Marked(focus')
      /\ installed' /\ CanMoveTo(focus', geometry') => focusMoves' > 0
  <2> DEFINE turned == focus' # focus \/ geometry' # geometry \/ revision' # revision
             showing == installed' /\ turned
  <2>1. /\ drawnFocus' = IF showing THEN Marked(focus') ELSE Before(drawnFocus, 0)
        /\ focusMoves' = (IF focus' = focus THEN focusMoves ELSE 0)
                          + (IF showing /\ CanMoveTo(focus', geometry') THEN 1 ELSE 0)
    BY DEF ShowFocus, NewGeometry, NewStyle
  <2>2. CASE showing
    BY <2>1, <2>2
  <2>3. CASE ~ showing
    <3>1. installed' => installed /\ focus' = focus /\ geometry' = geometry
      BY <2>3
    <3> QED
      BY <2>1, <2>3, <3>1 DEF Before
  <2> QED
    BY <2>2, <2>3
<1>2. installed' => drawnOverview' = overview'
  BY DEF DrawOverview, Before, NewStyle
<1>3. navigation \in Nat /\ lastNavigation \in Nat /\ navigation' \in 0..MaxChanges
  BY MaxChangesAssumption
<1>4. /\ lastNavigation' \in 0..navigation'
      /\ moves' \in [1..MaxChanges -> 0..1]
      /\ \A n \in 1..MaxChanges : n > lastNavigation' => moves'[n] = 0
      /\ lastNavigation' # 0 => moves'[lastNavigation'] = 1
      /\ installed' => lastNavigation' = navigation'
  <2>1. CASE MoveOnce(ran)
    <3>1. /\ lastNavigation' = navigation' /\ moves' = [moves EXCEPT ![navigation'] = @ + 1]
          /\ navigation' # 0 /\ lastNavigation # navigation'
      BY <2>1 DEF MoveCamera, MoveOnce, NewStyle
    <3>2. navigation' \in 1..MaxChanges /\ navigation' > lastNavigation
      BY <1>3, <3>1
    <3>3. moves[navigation'] = 0
      BY <3>2
    <3>4. moves'[navigation'] = 1 /\ moves' \in [1..MaxChanges -> 0..1]
      BY <3>1, <3>2, <3>3
    <3>5. \A n \in 1..MaxChanges : n > navigation' => moves'[n] = 0
      BY <3>1, <3>2
    <3> QED
      BY <1>3, <3>1, <3>4, <3>5
  <2>2. CASE ~ MoveOnce(ran)
    <3>1. lastNavigation' = lastNavigation /\ moves' = moves
      BY <2>2 DEF MoveCamera, NewStyle
    <3>2. installed' => lastNavigation = navigation'
      BY <1>3, <2>2 DEF MoveOnce
    <3> QED
      BY <1>3, <3>1, <3>2
  <2> QED
    BY <2>1, <2>2
<1> QED
  BY <1>1, <1>2, <1>3, <1>4, <1>5

LEMMA MapInitial == MapInit => MapInv
<1> SUFFICES ASSUME MapInit PROVE MapInv
  OBVIOUS
<1>1. /\ moves \in [1..MaxChanges -> 0..1]
      /\ \A n \in 1..MaxChanges : moves[n] = 0
  BY DEF MapInit
<1>2. navigation \in 0..MaxChanges /\ lastNavigation \in 0..navigation
  BY MaxChangesAssumption DEF MapInit
<1> QED
  BY <1>1, <1>2 DEF MapInit, MapInv

LEMMA MapKeeps == ASSUME MapInv, MapNext PROVE MapInv'
<1> USE DEF MapInv
<1>0. navigation \in Nat /\ navigation \in navigation..MaxChanges
  BY MaxChangesAssumption
<1>1. CASE ChangeFeatures
  BY <1>0, <1>1, EffectsShow DEF ChangeFeatures, pickVars
<1>8. CASE PickFeature
  <2>1. picks' = picks + 1 /\ navigation' \in {navigation, navigation + 1}
    BY <1>8 DEF PickFeature
  <2>2. navigation' \in navigation..MaxChanges
    BY <1>0, <1>8, <2>1, MaxChangesAssumption DEF PickFeature, Changes
  <2> QED
    BY <1>8, <2>1, <2>2, EffectsShow DEF PickFeature
<1>2. CASE Navigate
  <2>1. navigation' \in navigation..MaxChanges
    BY <1>0, <1>2, MaxChangesAssumption DEF Navigate, Changes
  <2> QED
    BY <1>2, <2>1, EffectsShow DEF Navigate, pickVars
<1>3. CASE SwitchOverview
  <2>1. overview' \in Nat /\ overviewAsked' \in Nat
    BY <1>3 DEF SwitchOverview
  <2> QED
    BY <1>0, <1>3, <2>1, EffectsShow DEF SwitchOverview, pickVars
<1>4. CASE OverviewReply
  <2>1. overview' \in Nat /\ overviewAsked' \in Nat
    BY <1>4 DEF OverviewReply
  <2> QED
    BY <1>0, <1>4, <2>1, EffectsShow DEF OverviewReply, pickVars
<1>5. CASE Loaded
  BY <1>0, <1>5, EffectsShow DEF Loaded, pageVars
<1>6. CASE HandleError
  BY <1>0, <1>6, EffectsShow DEF HandleError, pageVars
<1>7. CASE RestoreFallback
  BY <1>0, <1>7, EffectsShow DEF RestoreFallback, NewRevision, pageVars
<1> QED
  BY <1>1, <1>2, <1>3, <1>4, <1>5, <1>6, <1>7, <1>8 DEF MapNext

\* The canvas is up to date whenever it has its sources, after whatever failures of the
\* basemap: it shows the present state, its camera has been moved to the selection, and
\* no intent to navigate has moved it twice.
THEOREM MapAlwaysShowsState == Spec => []MapShowsState
<1>1. Init => MapInv
  BY MapInitial DEF Init
<1>2. MapInv /\ [Next]_vars => MapInv'
  <2> SUFFICES ASSUME MapInv, [Next]_vars PROVE MapInv'
    OBVIOUS
  <2>1. CASE MapNext
    BY <2>1, MapKeeps
  <2>2. CASE UNCHANGED mapVars
    BY <2>2 DEF MapInv, mapVars, Marked, CanMoveTo
  <2> QED
    BY <2>1, <2>2
    DEF Next, vars, NearbyStep, SelectionStep, CompanyStep, BodiesStep, MapStep, SourceMovesOn
<1>3. MapInv => MapShowsState
  <2> SUFFICES ASSUME MapInv PROVE MapShowsState
    OBVIOUS
  <2>1. \A n \in 1..MaxChanges : moves[n] <= 1
    BY DEF MapInv
  <2>2. installed /\ navigation # 0 => moves[navigation] = 1
    BY DEF MapInv
  <2> QED
    BY <2>1, <2>2 DEF MapInv, MapShowsState
<1> QED
  BY <1>1, <1>2, <1>3, PTL DEF Spec
=============================================================================
