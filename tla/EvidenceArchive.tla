--------------------------- MODULE EvidenceArchive ----------------------------
(***************************************************************************)
(* What an evidence store promises for one content-addressed bundle: it is *)
(* stored whole or not at all, it is acknowledged only once it is stored,  *)
(* and it is never taken back (evidence.py: EvidenceStore.persist).        *)
(***************************************************************************)
VARIABLES stored, acknowledged

archiveVars == <<stored, acknowledged>>

Init == stored = FALSE /\ acknowledged = FALSE

Store ==
    /\ stored' = TRUE
    /\ UNCHANGED acknowledged

Acknowledge ==
    /\ stored
    /\ acknowledged' = TRUE
    /\ UNCHANGED stored

Next == Store \/ Acknowledge

Spec == Init /\ [][Next]_archiveVars
=============================================================================
