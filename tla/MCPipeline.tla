----------------------------- MODULE MCPipeline ------------------------------
(* Instances of Pipeline for TLC: what each publisher may serve, by version. *)
EXTENDS Pipeline, TLC

SourceSet == {"hydrology", "history", "points", "observations", "reservoirs", "discharges",
              "catchments", "rainfall", "bathing", "floods", "companies"}

Station(i, ms) == [id |-> i, reviewed |-> TRUE, wgs |-> "both", bng |-> "none", embedded |-> ms]
MeasureOf(i, s) == [id |-> i, reviewed |-> TRUE, station |-> s]
Latest(i, ok) == [id |-> i, valued |-> ok, quality |-> IF ok THEN "Good" ELSE "Missing"]

\* Three stations; then the first is gone and everything moves up by one; then a
\* measure has changed its station; then a location is incomplete.
HydrologyWorlds ==
    LET a == [stations |-> <<Station("s1", <<"m1">>), Station("s2", <<"m2">>),
                            Station("s3", <<"m3">>)>>,
              measures |-> <<MeasureOf("m1", "s1"), MeasureOf("m2", "s2"), MeasureOf("m3", "s3")>>,
              latest |-> <<Latest("m1", TRUE), Latest("m2", FALSE)>>]
        b == [stations |-> Tail(a.stations), measures |-> Tail(a.measures),
              latest |-> <<Latest("m2", FALSE)>>]
        c == [a EXCEPT !.measures[3].station = "s2", !.stations[2].embedded = <<"m2", "m3">>,
                       !.stations[3].embedded = <<>>]
        d == [a EXCEPT !.stations[3].wgs = "partial"]
    IN  "a" :> a @@ "b" :> b @@ "c" :> c @@ "d" :> d

Reading(t) == [id |-> t, measure |-> "m1", dated |-> TRUE, valued |-> TRUE, quality |-> "Good"]

\* New readings push the first out of the page; more than two pages are refused.
HistoryWorlds ==
    LET a == [readings |-> <<Reading(1), Reading(2), Reading(3)>>] IN
    "a" :> a @@ "b" :> [readings |-> Tail(a.readings)]
      @@ "c" :> [readings |-> Append(a.readings, Reading(4))]
      @@ "d" :> [readings |-> <<Reading(1), [Reading(2) EXCEPT !.valued = FALSE]>>]

Point(i) == [id |-> i, reviewed |-> TRUE]

PointsWorlds ==
    LET a == [points |-> <<Point("p1"), Point("p2"), Point("p3")>>] IN
    "a" :> a @@ "b" :> [points |-> Tail(a.points)]
      @@ "c" :> [points |-> <<Point("p1"), Point("p2"), [Point("p3") EXCEPT !.reviewed = FALSE]>>]

Code(i, label) == [id |-> i, label |-> label]

Sample(i, day, unit) ==
    [id |-> i, reviewed |-> TRUE, point |-> "p1", day |-> day, determinand |-> Code("d1", "Nitrate"),
     unit |-> unit, quantities |-> {5}, text |-> 5]

\* A unit is relabelled; an observation of the day after the window is served.
ObservationsWorlds ==
    LET u1 == Code("u1", "mg/l")
        u2 == Code("u2", "ph")
        relabelled == Code("u2", "unitless")
        codes == "d1" :> Code("d1", "Nitrate") @@ "u1" :> u1 @@ "u2" :> u2
        a == [observations |-> <<Sample("o1", 1, u1), Sample("o2", 2, u2), Sample("o3", 1, u1)>>,
              codes |-> codes]
        b == [observations |-> [a.observations EXCEPT ![2] = Sample("o2", 2, relabelled)],
              codes |-> [codes EXCEPT !["u2"] = relabelled]]
        c == [a EXCEPT !.observations[3] = Sample("o4", 3, u1)]
    IN  "a" :> a @@ "b" :> b @@ "c" :> c

Level(i, edition) ==
    [id |-> i, reviewed |-> TRUE, reservoir |-> "r1", metadata |-> "m", at |-> i, edition |-> edition]

\* The same identities with other readings, and one reading more.
ReservoirsWorlds ==
    "a" :> [levels |-> <<Level(1, "a"), Level(2, "a"), Level(3, "a")>>]
      @@ "b" :> [levels |-> <<Level(1, "b"), Level(2, "b"), Level(3, "b")>>]
      @@ "c" :> [levels |-> <<Level(1, "a"), Level(2, "a"), Level(3, "a"), Level(4, "a")>>]

Site(i, start, stop) == [id |-> i, reviewed |-> TRUE, start |-> start, stop |-> stop]

\* A discharge that ends before it begins; one site more than a response holds.
DischargesWorlds ==
    LET a == <<Site("t1", 1, 2), Site("t2", 3, 0), Site("t3", 0, 0)>> IN
    "a" :> [sites |-> a] @@ "b" :> [sites |-> <<Site("t1", 3, 2)>>]
      @@ "c" :> [sites |-> Append(a, Site("t4", 0, 0))]

Gauge(i, ms) == [id |-> i, reviewed |-> TRUE, wgs |-> "both", measures |-> ms]
Rain(i, at) == [id |-> i, reviewed |-> TRUE, at |-> at]

\* A placeholder among the stations, readings of unknown measures among the readings;
\* a reading twice; more readings than a response holds, which end with a newer one.
RainfallWorlds ==
    LET a == [gauges |-> <<Gauge("g1", <<"m1", "m2">>), Gauge("", <<"m9">>), Gauge("g2", <<"m3">>)>>,
              rain |-> <<Rain("m1", 1), Rain("m2", 1), Rain("m7", 2)>>]
    IN  "a" :> a
          @@ "b" :> [gauges |-> <<Gauge("g2", <<"m3">>)>>, rain |-> <<Rain("m3", 2), Rain("m3", 2)>>]
          @@ "c" :> [a EXCEPT !.rain = Append(a.rain, Rain("m3", 3))]

Water(i, assessment) == [id |-> i, reviewed |-> TRUE, assessment |-> assessment]

\* As many as a response holds, and one more.
BathingWorlds ==
    LET a == <<Water("w1", "none"), Water("w2", "dated"), Water("w3", "none")>>
    IN  "a" :> [waters |-> a] @@ "b" :> [waters |-> Append(a, Water("w4", "dated"))]

Area(i, geometry) == [id |-> i, reviewed |-> TRUE, geometry |-> geometry]

\* A warning's area is withdrawn, or its polygon can no longer be repaired; the
\* last warning of a new area is beyond the response.
FloodsWorlds ==
    LET w1 == [id |-> "w1", reviewed |-> TRUE, area |-> "a1"]
        w2 == [id |-> "w2", reviewed |-> TRUE, area |-> "a2"]
        good == "a1" :> Area("a1", "valid") @@ "a2" :> Area("a2", "repairable")
    IN  "a" :> [warnings |-> <<w1, w2>>, areas |-> good]
          @@ "b" :> [warnings |-> <<w1>>, areas |-> "a1" :> Area("a1", "valid")]
          @@ "c" :> [warnings |-> <<w1, w2>>, areas |-> [good EXCEPT !["a2"].geometry = "broken"]]
          @@ "d" :> [warnings |-> <<w1, [w1 EXCEPT !.id = "w3"], w2, [w1 EXCEPT !.id = "w4", !.area = "a3"]>>,
                     areas |-> good @@ "a3" :> Area("a3", "valid")]

CompaniesWorlds ==
    "a" :> [facts |-> <<[id |-> "f1", reviewed |-> TRUE, state |-> "reported", valued |-> TRUE],
                        [id |-> "f2", reviewed |-> TRUE, state |-> "missing", valued |-> FALSE]>>]
      @@ "b" :> [facts |-> <<[id |-> "f1", reviewed |-> TRUE, state |-> "missing", valued |-> TRUE]>>]

\* Two districts; then a management catchment has moved to the other one, or a
\* water body has.
CatchmentsWorlds ==
    LET District(children, parents) == [children |-> children, parents |-> parents]
        a == [root |-> {"d1", "d2"},
              district |-> "d1" :> District({"m1"}, <<>>) @@ "d2" :> District({"m2"}, <<>>),
              management |-> "m1" :> District({"o1"}, <<{"d1"}>>)
                             @@ "m2" :> District({"o2"}, <<{"d2"}>>),
              operational |-> "o1" :> District({"w1", "w2"}, <<{"d1"}, {"m1"}>>)
                                @@ "o2" :> District({"w3"}, <<{"d2"}, {"m2"}>>),
              geometry |-> "d1" :> {"w1", "w2"} @@ "d2" :> {"w3"}]
        b == [a EXCEPT !.operational = "o1" :> District({"w1"}, <<{"d1"}, {"m1"}>>)
                                @@ "o2" :> District({"w2", "w3"}, <<{"d2"}, {"m2"}>>),
                       !.geometry = "d1" :> {"w1"} @@ "d2" :> {"w2", "w3"}]
        c == [a EXCEPT !.district = "d1" :> District({"m2"}, <<>>) @@ "d2" :> District({"m1"}, <<>>),
                       !.management = "m1" :> District({"o1"}, <<{"d2"}>>)
                                      @@ "m2" :> District({"o2"}, <<{"d1"}>>),
                       !.operational = "o1" :> District({"w1", "w2"}, <<{"d2"}, {"m1"}>>)
                                @@ "o2" :> District({"w3"}, <<{"d1"}, {"m2"}>>),
                       !.geometry = "d2" :> {"w1", "w2"} @@ "d1" :> {"w3"}]
    IN  "a" :> a @@ "b" :> b @@ "c" :> c

WorldsDef ==
    [s \in SourceSet |->
        CASE s = "hydrology" -> HydrologyWorlds
          [] s = "history" -> HistoryWorlds
          [] s = "points" -> PointsWorlds
          [] s = "observations" -> ObservationsWorlds
          [] s = "reservoirs" -> ReservoirsWorlds
          [] s = "discharges" -> DischargesWorlds
          [] s = "catchments" -> CatchmentsWorlds
          [] s = "rainfall" -> RainfallWorlds
          [] s = "bathing" -> BathingWorlds
          [] s = "floods" -> FloodsWorlds
          [] s = "companies" -> CompaniesWorlds]

WindowDef == [from |-> 1, to |-> 4]
ScopeDef == [point |-> "p1", determinand |-> "d1", from |-> 1, to |-> 3]
MeasureDef == "m1"

AllConsumers == {"iterator", "supply_iterator", "pages", "supply_export", "thames_export"}

Place(located, distance, sphere) ==
    [located |-> located, distance |-> distance, sphere |-> sphere]

\* Two are equally far, the sphere changes the order of two, one has no place; one
\* point more than the builder's pages hold.
PointSets ==
    LET a == <<Place(TRUE, 3, 3), Place(TRUE, 1, 2), Place(FALSE, 0, 0), Place(TRUE, 2, 1),
               Place(TRUE, 1, 2)>>
    IN  {<<>>, a, SubSeq(a, 1, 4), a \o <<Place(TRUE, 0, 0), Place(TRUE, 1, 1)>>}

Supply(acronym, label) == [acronym |-> acronym, label |-> label, drawn |-> TRUE]

\* Whole; an area without a company, or with its label missing; one that cannot be
\* drawn; more areas than the pages hold; a company of one, two and three areas.
SupplySets ==
    LET a == <<Supply("A", "x"), Supply("B", "y"), Supply("A", "z"), Supply("A", "x")>>
    IN  {<<>>, a, Append(a, Supply("", "x")), Append(a, Supply("B", "")),
         [a EXCEPT ![2].drawn = FALSE], a \o a, Append(a, Supply("C", "y")),
         [a EXCEPT ![2] = Supply("C", "y"), ![3] = Supply("C", "y")]}

FloodSets == {<<>>, <<{1, 2}, {}, {3}>>}

\* Around 9 990 bytes the report's own size gains a digit and loses its truth.
DatabasesDef ==
    [points : PointSets, areas : SupplySets, floods : FloodSets,
     bytes : {1000} \cup (9984 .. 9995)]

PowersDef == {10, 100, 1000, 10000}
==============================================================================
