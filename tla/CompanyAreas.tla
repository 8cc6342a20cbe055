----------------------------- MODULE CompanyAreas -----------------------------
(***************************************************************************)
(* The company explorer (web/src/CompanyExplorer.tsx) and what App shows   *)
(* of it: the paged inventory of a company's supply areas and their        *)
(* geometry, which must agree before the areas appear on the map, and the  *)
(* company's published performance.                                        *)
(***************************************************************************)
EXTENDS ExplorerServer

CONSTANTS
    Companies,
    NoCompany,
    AreasOf(_, _),  \* the areas of a company in a snapshot, in order
    AreaPage,       \* areas on a page (100 in the code)
    MaxPages,       \* pages an inventory may have (20 in the code)
    MaxCompanyActs  \* bound: selections and layer switches by the user

VARIABLES
    index,          \* the snapshot of the company index, once it is loaded
    linked,         \* the company of a shared link, until it is selected
    company,        \* the company selected in the panel
    boundariesOn,   \* the water-supply layer is on
    boundary,       \* the requests for the areas of a company
    boundaryError,
    companyAreas,   \* what the map shows: of whom, and which areas
    performing,     \* the requests for the performance of a company
    performance,    \* whose performance is shown, and from which snapshot
    acts

companyVars ==
    <<index, linked, company, boundariesOn, boundary, boundaryError, companyAreas,
      performing, performance, acts>>

NoAreas == [company |-> NoCompany, areas |-> <<>>]
NoPerformance == [company |-> NoCompany, snapshot |-> NoSnapshot]

CompanyInit ==
    /\ index = NoSnapshot
    /\ linked \in Companies \cup {NoCompany}
    /\ company = NoCompany
    /\ boundariesOn \in BOOLEAN
    /\ boundary = {} /\ boundaryError = FALSE
    /\ companyAreas = NoAreas
    /\ performing = {} /\ performance = NoPerformance
    /\ acts = 0

Act == acts < MaxCompanyActs /\ acts' = acts + 1

\* loadBoundary: an earlier load is aborted; inventory and geometry are asked for together.
Load(c) ==
    {[company |-> c, since |-> server, pages |-> 0, areas |-> <<>>, inventory |-> Waiting,
      geometry |-> Waiting]}

LoadPerformance(c) == {[company |-> c, since |-> server, snapshot |-> NoSnapshot]}

\* Fault: what is under way for the previous company is not aborted.
SelectAlso(c) ==
    /\ company' = c
    /\ companyAreas' = NoAreas
    /\ performance' = NoPerformance
    /\ boundaryError' = FALSE
    /\ boundary' = boundary \cup IF c # NoCompany /\ boundariesOn THEN Load(c) ELSE {}
    /\ performing' = performing \cup IF c # NoCompany THEN LoadPerformance(c) ELSE {}

\* selectCompany: what is shown and under way for the previous company goes away.
SelectOnly(c) ==
    /\ company' = c
    /\ companyAreas' = NoAreas
    /\ performance' = NoPerformance
    /\ boundaryError' = FALSE
    /\ boundary' = IF c # NoCompany /\ boundariesOn THEN Load(c) ELSE {}
    /\ performing' = IF c # NoCompany THEN LoadPerformance(c) ELSE {}

SelectCompany(c) ==
    /\ index # NoSnapshot /\ linked = NoCompany
    /\ Act
    /\ SelectOnly(c)
    /\ UNCHANGED <<index, linked, boundariesOn>>

\* The index is loaded once; the company of a shared link is selected with it.
IndexReply ==
    /\ index = NoSnapshot
    /\ \E reply \in Replies(1, NoSnapshot) : reply \in Snapshots /\ index' = reply
    /\ UNCHANGED <<linked, company, boundariesOn, boundary, boundaryError, companyAreas,
                   performing, performance, acts>>

SelectLinked ==
    /\ index # NoSnapshot /\ linked # NoCompany
    /\ SelectOnly(linked)
    /\ linked' = NoCompany
    /\ UNCHANGED <<index, boundariesOn, acts>>

\* The layer goes off with what it shows and loads; on again, it loads anew.
ToggleBoundaries ==
    /\ Act
    /\ boundariesOn' = ~ boundariesOn
    /\ IF boundariesOn
       THEN /\ companyAreas' = NoAreas
            /\ boundary' = {}
            /\ UNCHANGED boundaryError
       ELSE /\ boundary' = IF company # NoCompany /\ index # NoSnapshot
                           THEN Load(company) ELSE boundary
            /\ boundaryError' = (boundaryError /\ company = NoCompany)
            /\ UNCHANGED companyAreas
    /\ UNCHANGED <<index, linked, company, performing, performance>>

After(areas, n) == SubSeq(areas, n + 1, Len(areas))

\* completeInventory: the next page, of the index's snapshot; the last one has no next.
PageReply(b) ==
    /\ b.inventory = Waiting
    /\ \E reply \in Replies(b.since, index) :
         LET rest == After(AreasOf(b.company, reply), Len(b.areas))
             size == IF Len(rest) < AreaPage THEN Len(rest) ELSE AreaPage
             ends == size = Len(rest) \/ b.pages + 1 = MaxPages
         IN boundary' = (boundary \ {b}) \cup
              {IF reply # index THEN [b EXCEPT !.inventory = Failed]
               ELSE [b EXCEPT !.pages = @ + 1,
                              !.areas = @ \o SubSeq(rest, 1, size),
                              !.inventory = IF ends THEN reply ELSE Waiting]}
    /\ UNCHANGED <<index, linked, company, boundariesOn, boundaryError, companyAreas,
                   performing, performance, acts>>

GeometryReply(b) ==
    /\ b.geometry = Waiting
    /\ \E reply \in Replies(b.since, index) :
         boundary' = (boundary \ {b}) \cup {[b EXCEPT !.geometry = reply]}
    /\ UNCHANGED <<index, linked, company, boundariesOn, boundaryError, companyAreas,
                   performing, performance, acts>>

\* The inventory is as long as the index says, and the geometry has its areas in its order.
CompleteBoundary(b) ==
    /\ b.inventory = index
    /\ Len(b.areas) = Len(AreasOf(b.company, index))
    /\ b.geometry = index
    /\ AreasOf(b.company, b.geometry) = b.areas

\* Both have ended, or one has failed: the geometry is shown on the map, or an error.
EndBoundary(b) ==
    /\ \/ b.inventory # Waiting /\ b.geometry # Waiting
       \/ b.inventory = Failed \/ b.geometry \in {Failed, Changed}
    /\ boundary' = boundary \ {b}
    /\ IF CompleteBoundary(b)
       THEN /\ companyAreas' = [company |-> b.company, areas |-> AreasOf(b.company, b.geometry)]
            /\ UNCHANGED boundaryError
       ELSE /\ boundaryError' = TRUE
            /\ UNCHANGED companyAreas
    /\ UNCHANGED <<index, linked, company, boundariesOn, performing, performance, acts>>

\* companyPerformance: the list of companies, then one company of the list's snapshot.
PerformanceReply(p) ==
    /\ \E reply \in Replies(p.since, p.snapshot) :
         IF p.snapshot = NoSnapshot /\ reply \in Snapshots
         THEN /\ performing' = (performing \ {p}) \cup {[p EXCEPT !.snapshot = reply]}
              /\ UNCHANGED performance
         ELSE /\ performing' = performing \ {p}
              /\ performance' = IF reply \in Snapshots
                                THEN [company |-> p.company, snapshot |-> reply]
                                ELSE performance
    /\ UNCHANGED <<index, linked, company, boundariesOn, boundary, boundaryError,
                   companyAreas, acts>>

CompanyNext ==
    \/ IndexReply \/ SelectLinked \/ ToggleBoundaries
    \/ \E c \in Companies \cup {NoCompany} : SelectCompany(c)
    \/ \E b \in boundary : PageReply(b) \/ GeometryReply(b) \/ EndBoundary(b)
    \/ \E p \in performing : PerformanceReply(p)

-----------------------------------------------------------------------------
\* "the selected acronym's paginated inventory and exact FeatureCollection must agree on
\* snapshot, count and ordered source IDs before display" (docs/design/explorer-navigation.md,
\* lines 23-25): whatever the order of selections, switches and answers, the map shows
\* either no company or all areas the index's snapshot has of the one selected, and
\* the performance panel that company's.
CompanyShownIsComplete ==
    /\ companyAreas # NoAreas =>
         /\ boundariesOn
         /\ companyAreas = [company |-> company, areas |-> AreasOf(company, index)]
    /\ performance # NoPerformance => performance.company = company
=============================================================================
