------------------------------- MODULE Explorer -------------------------------
(***************************************************************************)
(* The web explorer (web/src/App.tsx) with its parts over one source.  A   *)
(* behaviour exercises one part, while the others stay as they were: what  *)
(* they share is the source, which moves on under all of them.             *)
(***************************************************************************)
EXTENDS NearbyLayers, Selection, CompanyAreas, WaterBodies, MapCanvas

VARIABLE part

vars == <<part, sourceVars, nearbyVars, selectionVars, companyVars, bodyVars, mapVars>>

Init ==
    /\ part \in {"nearby", "selection", "company", "bodies", "map"}
    /\ server = 1 /\ mode \in {"api", "static"}
    /\ NearbyInit /\ SelectionInit /\ CompanyInit /\ BodiesInit /\ MapInit
    \* What the parts that rest are like makes no difference.
    /\ part # "nearby" => layers = PlainLayers /\ shared = NoShare
    /\ part # "selection" => ~ supplyOn
    /\ part # "company" => ~ boundariesOn /\ linked = NoCompany
    /\ part \notin {"selection", "bodies"} => mode = "api"
    /\ part # "map" => ~ fallback

NearbyStep ==
    /\ part = "nearby" /\ NearbyNext
    /\ UNCHANGED <<part, sourceVars, selectionVars, companyVars, bodyVars, mapVars>>

SelectionStep ==
    /\ part = "selection" /\ SelectionNext
    /\ UNCHANGED <<part, sourceVars, nearbyVars, companyVars, bodyVars, mapVars>>

CompanyStep ==
    /\ part = "company" /\ CompanyNext
    /\ UNCHANGED <<part, sourceVars, nearbyVars, selectionVars, bodyVars, mapVars>>

BodiesStep ==
    /\ part = "bodies" /\ BodiesNext
    /\ UNCHANGED <<part, sourceVars, nearbyVars, selectionVars, companyVars, mapVars>>

MapStep ==
    /\ part = "map" /\ MapNext
    /\ UNCHANGED <<part, sourceVars, nearbyVars, selectionVars, companyVars, bodyVars>>

SourceMovesOn ==
    /\ part # "map" /\ Publish
    /\ UNCHANGED <<part, nearbyVars, selectionVars, companyVars, bodyVars, mapVars>>

Next == NearbyStep \/ SelectionStep \/ CompanyStep \/ BodiesStep \/ MapStep \/ SourceMovesOn

Spec == Init /\ [][Next]_vars
=============================================================================
