--------------------------- MODULE StaticPublication ---------------------------
(***************************************************************************)
(* The reads of build_publication (static_publication.py): product after   *)
(* product is collected from the API while loaders go on publishing, then  *)
(* the source status, and everything is written under one manifest that    *)
(* names one snapshot for each product.  Six products are read like        *)
(* "points".  The page loop itself is in PagedRead, the destination in     *)
(* ArtifactBuild.                                                          *)
(***************************************************************************)
EXTENDS Integers, Sequences, FiniteSets

CONSTANT MaxSnapshots   \* bound on the snapshots of one product

ASSUME SnapshotsAssumption == MaxSnapshots \in Nat \ {0}

\* A request names a snapshot ("pinned"), or names none and is answered from the one
\* that is served: then its snapshot is the product's from there on ("first"), or it
\* is compared with that ("compared"), or it is not looked at ("unchecked").
Request(product, part, ask) == [product |-> product, part |-> part, ask |-> ask]

\* What the builder asks for, in this order; "lists" are several requests.
Script == <<
    Request("points", "first page", "first"),
    Request("points", "pages", "pinned"),
    Request("catchments", "first page", "first"),
    Request("catchments", "pages", "pinned"),
    Request("catchments", "geometries", "pinned"),
    Request("flood-warnings", "dataset", "first"),
    Request("flood-warnings", "areas", "pinned"),
    Request("company-performance", "dataset", "first"),
    Request("company-performance", "companies", "pinned"),
    Request("company-performance", "details", "pinned"),
    Request("water-supply", "dataset", "first"),
    Request("water-supply", "areas", "compared"),
    Request("water-supply", "companies", "pinned"),
    Request("water-supply", "company areas", "pinned"),
    Request("water-supply", "geometries", "unchecked") >>

Lists == {"pages", "areas", "details", "company areas", "geometries"}

Products == {Script[n].product : n \in 1 .. Len(Script)}

VARIABLES
    served,     \* the newest snapshot of each product, 0 if there is none
    publisher,  \* where build_publication is
    step,       \* the request it is at
    used,       \* what it has collected, and from which snapshot
    statuses    \* source-status.json: the newest snapshots as they were when it was read

publicationVars == <<served, publisher, step, used, statuses>>

PublicationTypeOK ==
    /\ served \in [Products -> 0 .. MaxSnapshots]
    /\ publisher \in {"reading", "published", "failed"}
    /\ step \in 1 .. Len(Script) + 1
    /\ used \subseteq [product : Products, part : {Script[n].part : n \in 1 .. Len(Script)},
                       snapshot : 1 .. MaxSnapshots]
    /\ statuses \in {<<>>} \cup [Products -> 0 .. MaxSnapshots]

PublicationInit ==
    /\ served \in [Products -> {0, 1}]
    /\ publisher = "reading"
    /\ step = 1
    /\ used = {}
    /\ statuses = <<>>

\* A loader commits a snapshot, at any moment.
ServeNewer ==
    /\ \E product \in Products :
         /\ served[product] < MaxSnapshots
         /\ served' = [served EXCEPT ![product] = @ + 1]
    /\ UNCHANGED <<publisher, step, used, statuses>>

-----------------------------------------------------------------------------
(* The builder. *)

\* What the first answer has said: this goes into the manifest.
Named(product) == {u.snapshot : u \in {v \in used : v.product = product /\
                                                    v.part \in {"first page", "dataset"}}}

\* The request's answer is collected; a list goes on or ends.
Collect(request, snapshot) ==
    /\ snapshot # 0
    /\ used' = used \cup {[product |-> request.product, part |-> request.part,
                           snapshot |-> snapshot]}
    /\ step' \in IF request.part \in Lists THEN {step, step + 1} ELSE {step + 1}
    /\ UNCHANGED <<served, publisher, statuses>>

Asks(ask) == publisher = "reading" /\ step <= Len(Script) /\ Script[step].ask = ask

\* _snapshot and _validate_dataset
AskFirst == Asks("first") /\ Collect(Script[step], served[Script[step].product])

AskPinned ==
    /\ Asks("pinned")
    /\ \E snapshot \in Named(Script[step].product) : Collect(Script[step], snapshot)

\* Fault: the comparison is left out.
AskUncompared == Asks("compared") /\ Collect(Script[step], served[Script[step].product])

AskCompared ==
    /\ Asks("compared")
    /\ served[Script[step].product] \in Named(Script[step].product)
    /\ Collect(Script[step], served[Script[step].product])

AskUnchecked == Asks("unchecked") /\ Collect(Script[step], served[Script[step].product])

\* The last request: /v1/sources/status
AskStatus ==
    /\ publisher = "reading" /\ step = Len(Script) + 1
    /\ statuses = <<>>
    /\ statuses' = served
    /\ UNCHANGED <<served, publisher, step, used>>

\* Manifest and report are written, and the bundle is moved into place.
PutPublication ==
    /\ publisher = "reading" /\ step = Len(Script) + 1
    /\ statuses # <<>>
    /\ publisher' = "published"
    /\ UNCHANGED <<served, step, used, statuses>>

\* No answer, an answer out of contract, another snapshot, a count that differs:
\* StaticPublicationError, and the staging directory goes.
FailPublication ==
    /\ publisher = "reading"
    /\ publisher' = "failed"
    /\ UNCHANGED <<served, step, used, statuses>>

PublicationNext ==
    \/ ServeNewer \/ AskFirst \/ AskPinned \/ AskCompared \/ AskUnchecked \/ AskStatus
    \/ PutPublication \/ FailPublication

PublicationSpec == PublicationInit /\ [][PublicationNext]_publicationVars

-----------------------------------------------------------------------------
(* Safety. *)

\* The geometries of the water supply are the one part that nothing compares.
Checked == {u \in used : ~ (u.product = "water-supply" /\ u.part = "geometries")}

\* What is published names one snapshot for every product and holds nothing of
\* another one, although loaders publish during its minutes; and the source status
\* beside it never reports an older state than the one that is shown.
PublishedIsWhatItNames ==
    publisher = "published" =>
        \A product \in Products :
            /\ Cardinality(Named(product)) = 1
            /\ \A u \in Checked : u.product = product => u.snapshot \in Named(product)
            /\ \A snapshot \in Named(product) : statuses[product] >= snapshot
=============================================================================
