----------------------------- MODULE Normalisers -----------------------------
(***************************************************************************)
(* What the normalisers of watergeo/ingestion accept, source by source, as *)
(* predicates on the records of one retrieval.  A record keeps the fields  *)
(* that relate it to other records; "reviewed" stands for the checks that  *)
(* look at one record alone (shape, names, units, ranges, licences).       *)
(***************************************************************************)
EXTENDS Integers, Sequences, FiniteSets, SequencesExt

CONSTANTS
    MaxMeasures,  \* hydrology: measures of one station
    MaxUnits,     \* water-quality observations: units of one retrieval
    RecordsOfRetrieval    \* records of one retrieval

Members(s) == {s[i] : i \in DOMAIN s}
IdsOf(s) == {s[i].id : i \in DOMAIN s}
Distinct(s) == Cardinality(IdsOf(s)) = Len(s)
WithIds(s, ids) == FlattenSeq([i \in DOMAIN s |-> IF s[i].id \in ids THEN <<s[i]>> ELSE <<>>])
Reviewed(s) == \A i \in DOMAIN s : s[i].reviewed

-----------------------------------------------------------------------------
(* Environment Agency hydrology. *)

\* WGS84 decides; a British National Grid location may accompany it, whole, and
\* may not replace it.
Locatable(r) ==
    /\ r.wgs # "partial" /\ r.bng # "partial"
    /\ r.bng = "both" => r.wgs = "both"

\* A value is absent exactly when the quality says so.
ValueFitsQuality(r) == r.valued <=> r.quality # "Missing"

MeasuresOf(measures, sid) == {m.id : m \in {x \in Members(measures) : x.station = sid}}

\* What a station says of its measures is what the measures say.
EmbeddedAgree(s, measures) ==
    /\ \A i, j \in DOMAIN s.embedded : s.embedded[i] = s.embedded[j] => i = j
    /\ Members(s.embedded) = MeasuresOf(measures, s.id)

StationsAccepted(stations, measures) ==
    /\ stations # <<>> /\ Distinct(stations) /\ Reviewed(stations)
    /\ \A s \in Members(stations) : Locatable(s) /\ EmbeddedAgree(s, measures)

MeasuresAccepted(stations, measures) ==
    /\ measures # <<>> /\ Distinct(measures) /\ Reviewed(measures)
    /\ \A m \in Members(measures) : m.station \in IdsOf(stations)
    /\ \A sid \in IdsOf(stations) : Cardinality(MeasuresOf(measures, sid)) <= MaxMeasures

LatestAccepted(measures, observations) ==
    /\ Distinct(observations)
    /\ \A o \in Members(observations) : o.id \in IdsOf(measures) /\ ValueFitsQuality(o)

HydrologyAccepted(stations, measures, observations) ==
    /\ StationsAccepted(stations, measures)
    /\ MeasuresAccepted(stations, measures)
    /\ LatestAccepted(measures, observations)

\* The readings of one measure in a window, both ends included; a reading is
\* identified by its time.
InWindow(readings, window) ==
    \A r \in Members(readings) : window.from <= r.id /\ r.id <= window.to

HistoryAccepted(measure, readings) ==
    /\ Distinct(readings)
    /\ \A r \in Members(readings) :
         r.measure = measure /\ r.dated /\ ValueFitsQuality(r)

-----------------------------------------------------------------------------
(* Environment Agency water quality. *)

PointsAccepted(points) == points # <<>> /\ Distinct(points) /\ Reviewed(points)

\* One publisher point, one determinand, an end-exclusive window of days; codes
\* are looked up after the observations and must say what these said.
ObservationsAccepted(scope, observations, determinand, units) ==
    /\ Len(observations) <= RecordsOfRetrieval /\ Len(units) <= MaxUnits
    /\ determinand.id = scope.determinand
    /\ Distinct(units) /\ Distinct(observations) /\ Reviewed(observations)
    /\ \A o \in Members(observations) :
         /\ o.point = scope.point
         /\ scope.from <= o.day /\ o.day < scope.to
         /\ o.determinand = determinand
         /\ o.unit \in Members(units)
         /\ Cardinality(o.quantities) <= 1
         /\ o.quantities # {} => o.text \in o.quantities
    /\ Members(units) = {o.unit : o \in Members(observations)}

-----------------------------------------------------------------------------
(* Stream reservoirs and Thames Water discharges. *)

ReservoirsAccepted(readings, ids) ==
    /\ Len(readings) = Len(ids) /\ Len(readings) <= RecordsOfRetrieval
    /\ Distinct(readings) /\ Reviewed(readings)
    /\ IdsOf(readings) = Members(ids)
    /\ \A r, q \in Members(readings) :
         r.reservoir = q.reservoir => r.metadata = q.metadata /\ (r.at = q.at => r = q)

\* A discharge that has stopped has started, and not later.
DischargesAccepted(sites) ==
    /\ Len(sites) \in 1..RecordsOfRetrieval /\ Distinct(sites) /\ Reviewed(sites)
    /\ \A s \in Members(sites) :
         s.stop # 0 => s.start # 0 /\ s.start <= s.stop

-----------------------------------------------------------------------------
(* National products. *)

\* A station without identity is the publisher's placeholder and is skipped.
RealStations(stations) == WithIds(stations, IdsOf(stations) \ {""})

RainfallAccepted(stations, readings) ==
    LET real == RealStations(stations) IN
    /\ Distinct(readings) /\ Reviewed(readings)
    /\ real # <<>> /\ Distinct(real) /\ Reviewed(real)
    /\ \A s \in Members(real) : s.measures # <<>> /\ s.wgs # "partial"

\* The reading a station shows: the first of the newest, in the order of its
\* measures.  Readings of no station, and placeholders, are counted as skipped.
RainfallShown(station, readings) ==
    LET measures == station.measures
        At(i) == (CHOOSE r \in Members(readings) : r.id = measures[i]).at
        known == {i \in DOMAIN measures : measures[i] \in IdsOf(readings)}
        newest == {i \in known : \A j \in known : At(j) <= At(i)}
    IN  IF known = {} THEN "none"
        ELSE measures[CHOOSE i \in newest : \A j \in newest : i <= j]

RainfallSkipped(stations, readings) ==
    LET used == UNION {Members(s.measures) : s \in Members(RealStations(stations))}
    IN  (Len(stations) - Len(RealStations(stations)))
            + Cardinality(IdsOf(readings) \ used)

\* A valid polygon is kept; an invalid one is repaired if that distorts nothing.
FloodGeometry(geometry) ==
    CASE geometry = "valid" -> "source-valid"
      [] geometry = "repairable" -> "repaired"
      [] OTHER -> "refused"

FloodsAccepted(warnings, areas) ==
    /\ Distinct(areas) /\ Reviewed(areas)
    /\ \A a \in Members(areas) : FloodGeometry(a.geometry) # "refused"
    /\ Distinct(warnings) /\ Reviewed(warnings)
    /\ \A w \in Members(warnings) : w.area \in IdsOf(areas)

\* A classification is absent, or has a year.
BathingAccepted(waters, hasNext) ==
    /\ ~ hasNext /\ waters # <<>> /\ Distinct(waters) /\ Reviewed(waters)
    /\ \A w \in Members(waters) : w.assessment \in {"none", "dated"}

\* A missing figure has no value; it never becomes zero.
CompaniesAccepted(facts) ==
    /\ facts # <<>> /\ Distinct(facts) /\ Reviewed(facts)
    /\ \A f \in Members(facts) : f.state = "reported" <=> f.valued

-----------------------------------------------------------------------------
(* Catchments: the hierarchy as pages of links, the geometry per district. *)

Roots(tree) == tree.root
Below(tree, level, ids) == UNION {tree[level][i].children : i \in ids}

\* Nobody has two parents, and every page names the parents it was reached by.
OnlyChild(tree, level, ids) ==
    \A i, j \in ids : tree[level][i].children \cap tree[level][j].children # {} => i = j

Managements(tree) == Below(tree, "district", Roots(tree))
Operationals(tree) == Below(tree, "management", Managements(tree))
BodiesOf(tree) == Below(tree, "operational", Operationals(tree))

Parent(tree, level, ids, child) == CHOOSE i \in ids : child \in tree[level][i].children
DistrictOf(tree, m) == Parent(tree, "district", Roots(tree), m)
ManagementOf(tree, o) == Parent(tree, "management", Managements(tree), o)

DistrictsComplete(tree) ==
    /\ Roots(tree) # {} /\ DOMAIN tree.district = Roots(tree) /\ DOMAIN tree.geometry = Roots(tree)
    /\ \A d \in Roots(tree) : tree.district[d].children # {}
    /\ OnlyChild(tree, "district", Roots(tree))

ManagementsComplete(tree) ==
    /\ DOMAIN tree.management = Managements(tree)
    /\ \A m \in Managements(tree) :
         /\ tree.management[m].parents = <<{DistrictOf(tree, m)}>>
         /\ tree.management[m].children # {}
    /\ OnlyChild(tree, "management", Managements(tree))

OperationalsComplete(tree) ==
    /\ DOMAIN tree.operational = Operationals(tree)
    /\ \A o \in Operationals(tree) :
         LET m == ManagementOf(tree, o) IN
         tree.operational[o].parents = <<{DistrictOf(tree, m)}, {m}>>
    /\ OnlyChild(tree, "operational", Operationals(tree))

\* Fault: a water body may be drawn in any district.
BodiesAnywhere(tree) ==
    /\ BodiesOf(tree) # {}
    /\ UNION {tree.geometry[d] : d \in Roots(tree)} = BodiesOf(tree)

\* The water bodies drawn in a district are those the hierarchy has there.
BodiesDrawn(tree) ==
    /\ BodiesOf(tree) # {}
    /\ \A d \in Roots(tree) : \A w \in tree.geometry[d] :
         /\ w \in BodiesOf(tree)
         /\ LET o == Parent(tree, "operational", Operationals(tree), w)
            IN  DistrictOf(tree, ManagementOf(tree, o)) = d
    /\ UNION {tree.geometry[d] : d \in Roots(tree)} = BodiesOf(tree)

CatchmentsAccepted(tree) ==
    /\ DistrictsComplete(tree) /\ ManagementsComplete(tree)
    /\ OperationalsComplete(tree) /\ BodiesDrawn(tree)
=============================================================================
