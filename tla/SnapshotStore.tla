---------------------------- MODULE SnapshotStore -----------------------------
(***************************************************************************)
(* What the refresh of one source promises to its operators: a store of    *)
(* immutable snapshots.  Evidence is archived first; a bundle is published *)
(* whole, at most once for a content; success is reported only for a       *)
(* bundle that is archived and whose content is published.  Nothing is     *)
(* ever taken back.                                                        *)
(***************************************************************************)
CONSTANTS Bundles

VARIABLES archived, published, reported

storeVars == <<archived, published, reported>>

Init == archived = {} /\ published = {} /\ reported = {}

IsPublished(b) == \E p \in published : p.content = b.content

Archive(b) ==
    /\ archived' = archived \cup {b}
    /\ UNCHANGED <<published, reported>>

Publish(b) ==
    /\ b \in archived
    /\ ~ IsPublished(b)
    /\ published' = published \cup {b}
    /\ UNCHANGED <<archived, reported>>

Report(b) ==
    /\ b \in archived
    /\ IsPublished(b)
    /\ reported' = reported \cup {b}
    /\ UNCHANGED <<archived, published>>

Next == \E b \in Bundles : Archive(b) \/ Publish(b) \/ Report(b)

Spec == Init /\ [][Next]_storeVars
=============================================================================
