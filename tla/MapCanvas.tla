------------------------------- MODULE MapCanvas -------------------------------
(***************************************************************************)
(* The map (web/src/MapView.tsx) and the overview it draws                 *)
(* (web/src/OverviewControl.tsx): React effects that copy the state of the *)
(* page into a canvas whose sources come and go with the style.            *)
(***************************************************************************)
EXTENDS ExplorerServer

CONSTANTS
    MaxChanges      \* bound: changes of the page's state

ASSUME MaxChangesAssumption == MaxChanges \in Nat

VARIABLES
    features,       \* the version of the features and the layers to show
    picks,          \* how often what is selected has changed
    focus,          \* the place of the selected feature, or only that it is to be shown
    geometry,       \* the version of the selected area or Water Body, 0 for none
    overview,       \* the version of the overview to show, 0 for none
    overviewAsked,  \* the overview's manifest is being fetched, for this version
    navigation,     \* the latest navigation intent, 0 for none
    installed,      \* the map has the explorer's sources
    style,          \* of the basemap: "loading", "loaded", or the "fallback" loading
    fallback,       \* the fallback style has been applied
    revision,       \* of the style, as the effects know it
    drawn, drawnFocus, drawnOverview,  \* the versions on the canvas
    focusMoves,     \* ghost: how often the focus has moved the camera
    lastNavigation, \* the intent that was carried out last
    moves,          \* ghost: how often each intent moved the camera
    published       \* the map has published a viewport

mapVars ==
    <<features, picks, focus, geometry, overview, overviewAsked, navigation, installed, style,
      fallback, revision, drawn, drawnFocus, drawnOverview, focusMoves, lastNavigation, moves,
      published>>

pageVars == <<features, picks, focus, geometry, overview, navigation>>
pickVars == <<picks, focus, geometry>>

NoFocus == [number |-> 0, at |-> "nowhere"]

\* The sources are new and hold nothing.
Blank == <<-1, -1>>

MapInit ==
    /\ features = 0 /\ picks = 0 /\ focus = NoFocus /\ geometry = 0
    /\ overview = 0 /\ overviewAsked = 0 /\ navigation = 0
    /\ installed = FALSE
    /\ style = "loading"
    /\ fallback \in BOOLEAN      \* the configured style may be the fallback
    /\ revision = 0
    /\ drawn = Blank /\ drawnFocus = 0 /\ drawnOverview = 0
    /\ focusMoves = 0
    /\ lastNavigation = 0
    /\ moves = [n \in 1..MaxChanges |-> 0]
    /\ published = FALSE

Changes == features + picks + overview + navigation

\* The effects that follow a render: each runs when one of the values it names has
\* changed, and does nothing while the sources are not installed.
NewStyle == revision' # revision
NewGeometry == geometry' # geometry

\* The canvas as it is before the effects run.
Before(version, none) == IF installed' /\ ~ installed THEN none ELSE version

DrawFeatures ==
    drawn' = IF installed' /\ (features' # features \/ NewGeometry \/ NewStyle)
             THEN <<features', geometry'>> ELSE Before(drawn, Blank)

\* A place is marked and moved to; a focus without one moves to the selected geometry.
Marked(f) == IF f.at = "place" THEN f.number ELSE 0
CanMoveTo(f, g) == f.at = "place" \/ (f.at = "geometry" /\ g # 0)

\* Not only a new focus counts: also another geometry, or a new style.
ShowFocus ==
    LET ran == installed' /\ (focus' # focus \/ NewGeometry \/ NewStyle) IN
    /\ drawnFocus' = IF ran THEN Marked(focus') ELSE Before(drawnFocus, 0)
    /\ focusMoves' = (IF focus' = focus THEN focusMoves ELSE 0)
                      + (IF ran /\ CanMoveTo(focus', geometry') THEN 1 ELSE 0)

DrawOverview ==
    drawnOverview' = IF installed' /\ (overview' # overview \/ NewStyle)
                     THEN overview' ELSE Before(drawnOverview, 0)

MoveOnce(ran) == ran /\ installed' /\ navigation' # 0 /\ lastNavigation # navigation'

MoveCamera ==
    LET ran == navigation' # navigation \/ NewStyle IN
    IF MoveOnce(ran)
    THEN /\ lastNavigation' = navigation'
         /\ moves' = [moves EXCEPT ![navigation'] = @ + 1]
    ELSE UNCHANGED <<lastNavigation, moves>>

Effects == DrawFeatures /\ DrawOverview /\ ShowFocus /\ MoveCamera

\* New items, or a layer switched.
ChangeFeatures ==
    /\ Changes < MaxChanges
    /\ features' = features + 1
    /\ UNCHANGED <<pickVars, overview, overviewAsked, navigation, installed, style, fallback,
                   revision, published>>
    /\ Effects

\* What App.tsx sets together.  Focus: a place, the geometry, none, or the one before.
Picks ==
    {[focus |-> "place", geometry |-> FALSE, fit |-> FALSE],      \* a point
     [focus |-> "geometry", geometry |-> TRUE, fit |-> FALSE],    \* a supply area
     [focus |-> "geometry", geometry |-> FALSE, fit |-> TRUE],    \* a flood area
     [focus |-> "none", geometry |-> TRUE, fit |-> TRUE],         \* a Water Body
     [focus |-> "none", geometry |-> TRUE, fit |-> FALSE],        \* one without usable geometry
     [focus |-> "none", geometry |-> FALSE, fit |-> TRUE],        \* all areas of a company
     [focus |-> "none", geometry |-> FALSE, fit |-> FALSE],       \* nothing any more
     [focus |-> "kept", geometry |-> TRUE, fit |-> FALSE],        \* a shared area, restored late
     [focus |-> "kept", geometry |-> FALSE, fit |-> FALSE]}       \* a point without a place

PickFeature ==
    /\ Changes < MaxChanges
    /\ picks' = picks + 1
    /\ \E pick \in Picks :
         /\ focus' = CASE pick.focus = "kept" -> focus
                      [] pick.focus = "none" -> NoFocus
                      [] OTHER -> [number |-> picks + 1, at |-> pick.focus]
         /\ geometry' = IF pick.geometry THEN picks + 1 ELSE 0
         /\ navigation' = IF pick.fit THEN navigation + 1 ELSE navigation
    /\ UNCHANGED <<features, overview, overviewAsked, installed, style, fallback, revision,
                   published>>
    /\ Effects

Navigate ==
    /\ Changes < MaxChanges
    /\ navigation' = navigation + 1
    /\ UNCHANGED <<features, pickVars, overview, overviewAsked, installed, style, fallback, revision,
                   published>>
    /\ Effects

\* OverviewControl: switched on it fetches, switched off it aborts and clears.
SwitchOverview ==
    /\ Changes + overviewAsked < MaxChanges
    /\ IF overview = 0 /\ overviewAsked = 0
       THEN overviewAsked' = 1 /\ UNCHANGED overview
       ELSE overviewAsked' = 0 /\ overview' = 0
    /\ UNCHANGED <<features, pickVars, navigation, installed, style, fallback, revision, published>>
    /\ Effects

OverviewReply ==
    /\ overviewAsked # 0
    /\ overviewAsked' = 0
    /\ overview' \in {0, overviewAsked}
    /\ UNCHANGED <<features, pickVars, navigation, installed, style, fallback, revision, published>>
    /\ Effects

\* The first style is complete: sources, a new revision, the first viewport.
Loaded ==
    /\ style = "loading"
    /\ style' = "loaded"
    /\ installed' = TRUE
    /\ revision' = revision + 1
    /\ published' = TRUE
    /\ UNCHANGED <<pageVars, overviewAsked, fallback>>
    /\ Effects

\* An error of the basemap, once: the fallback style replaces it, and its sources.
HandleError ==
    /\ ~ fallback
    /\ fallback' = TRUE
    /\ style' = "fallback"
    /\ installed' = FALSE
    /\ UNCHANGED <<pageVars, overviewAsked, revision, published>>
    /\ Effects

\* Fault: the effects are not told that the sources are new.
RestoreSilently == revision' = revision

NewRevision == revision' = revision + 1

\* style.load of the fallback; "load" follows if it had not come before.
RestoreFallback ==
    /\ style = "fallback"
    /\ style' = IF published THEN "loaded" ELSE "loading"
    /\ installed' = TRUE
    /\ NewRevision
    /\ UNCHANGED <<pageVars, overviewAsked, fallback, published>>
    /\ Effects

MapNext ==
    \/ ChangeFeatures \/ PickFeature \/ Navigate \/ SwitchOverview \/ OverviewReply
    \/ Loaded \/ HandleError \/ RestoreFallback

-----------------------------------------------------------------------------
\* Whenever the map has its sources it shows the page's present state, also after the
\* basemap has failed and taken the sources with it: features, selected geometry, the
\* mark of a selected place and the overview.  The camera has been moved to the latest
\* selection, even when that was made while the sources were not there.  An intent to
\* navigate moves the camera once, not again with later data or a new style
\* ("Navigation uses one intent ID", docs/design/explorer-navigation.md, line 45).
\* (Of a selection this is not claimed: a new style moves the camera to it again.)
MapShowsState ==
    /\ installed =>
         /\ drawn = <<features, geometry>>
         /\ drawnFocus = Marked(focus)
         /\ drawnOverview = overview
         /\ CanMoveTo(focus, geometry) => focusMoves > 0
         /\ navigation # 0 => moves[navigation] = 1
    /\ \A n \in 1..MaxChanges : moves[n] <= 1
=============================================================================
