----------------------------- MODULE LatestProduct -----------------------------
(***************************************************************************)
(* What the published national products promise to a reader: for every     *)
(* source the content of the newest accepted check, whatever the order in  *)
(* which checks are published (ADR 0015: "every accepted check has a       *)
(* separate immutable retrieval event so unchanged content still advances  *)
(* WaterGeo retrieval freshness").                                         *)
(***************************************************************************)
EXTENDS Integers

CONSTANTS Sources, Contents, MaxTime

\* A content with the time at which its check was completed.
Checks == [content : Contents, completed : 1 .. MaxTime]

\* No check of the source has been accepted.
NoCheck == {}

VARIABLE served   \* for each source nothing, or the one check that is served

Init == served = [s \in Sources |-> NoCheck]

\* A check is accepted: it is served, unless a newer one is served already.
Accept(s, check) ==
    /\ \A old \in served[s] : old.completed <= check.completed
    /\ served' = [served EXCEPT ![s] = {check}]

Next == \E s \in Sources, check \in Checks : Accept(s, check)

Spec == Init /\ [][Next]_served
=============================================================================
