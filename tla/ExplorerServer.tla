---------------------------- MODULE ExplorerServer ----------------------------
(***************************************************************************)
(* What the web explorer (web/src) asks: the WaterGeo API, or the files of *)
(* a static publication.  Only the snapshot an answer comes from matters,  *)
(* and the source may move to a later one between any two requests.        *)
(***************************************************************************)
EXTENDS Integers, FiniteSets, Sequences, TLC

CONSTANT MaxSnapshot    \* bound: snapshots the source moves through

ASSUME MaxSnapshotAssumption == MaxSnapshot \in Nat \ {0}

VARIABLES
    server,             \* the snapshot the source answers from
    mode                \* what the source is, "api" or "static"

sourceVars == <<server, mode>>

Snapshots == 1..MaxSnapshot

NoSnapshot == 0         \* no selector in a request, no snapshot in an answer
Failed == -1            \* an error that does not mention the snapshot
Changed == -2           \* an ApiError whose message includes "snapshot"
Waiting == -3           \* no answer yet
Idle == -4              \* nothing asked

Publish ==
    /\ server < MaxSnapshot
    /\ server' = server + 1
    /\ UNCHANGED mode

\* What may answer a request that was sent when the source had snapshot "since".
\* The browser trusts no answer to name the snapshot it asked for.
Replies(since, snapshot) ==
    {Failed, Changed} \cup (since..server)
        \cup (IF snapshot = NoSnapshot THEN {} ELSE {snapshot})

\* api.ts: an answer from another snapshot than the one asked for is an error.
Pinned(reply, snapshot) ==
    IF snapshot # NoSnapshot /\ reply \in Snapshots \ {snapshot} THEN Changed ELSE reply
=============================================================================
