------------------------------ MODULE StaticSite ------------------------------
(***************************************************************************)
(* What a static publication holds and what the explorer reads from it:    *)
(* the API's answers (db/water_supply.py, db/phase15.py), the files that   *)
(* build_publication makes of them with the checks between, the size its   *)
(* report states (static_publication.py), and the answers that             *)
(* staticData.ts computes from the files in place of the API.              *)
(*                                                                         *)
(* The snapshots are those the publication names; what moves on meanwhile  *)
(* is in StaticPublication.  "points" stands for one of the located        *)
(* products.  A page is the set of its items and the next cursor.          *)
(***************************************************************************)
EXTENDS OrderedRows, Sequences

CONSTANTS
    Databases,    \* what the database may hold
    PageSize,     \* the largest page that may be asked for
    PointPages,   \* page limit of the builder's page loop
    AreaPages,    \* page limit of its loops over areas
    CompanyLimit, \* MAX_COMPANY_AREAS
    Powers,       \* the powers of ten a size may reach
    SiteLimit,    \* site_limit_bytes
    Rounds        \* attempts to find the size of the report

ASSUME PagesAssumption ==
    /\ PageSize \in Nat \ {0} /\ PointPages \in Nat /\ AreaPages \in Nat
    /\ CompanyLimit \in Nat \ {0}

\* Sizes below ten thousand million bytes.
ASSUME SizesAssumption ==
    /\ Powers \subseteq Nat /\ IsFiniteSet(Powers) /\ Cardinality(Powers) <= 9
    /\ {10, 100, 1000} \subseteq Powers
    /\ SiteLimit \in Nat
    /\ Rounds \in Nat /\ Rounds >= 10

None == 0

\* distance is the database's, sphere the one that staticData.ts computes.
PointRows == [located : BOOLEAN, distance : Nat, sphere : Nat]
AreaRows  == [acronym : STRING, label : STRING, drawn : BOOLEAN]

ASSUME DatabasesAssumption ==
    \A d \in Databases :
        /\ DOMAIN d.points \subseteq Nat \ {None} /\ IsFiniteSet(DOMAIN d.points)
        /\ \A p \in DOMAIN d.points : d.points[p] \in PointRows
        /\ DOMAIN d.areas \subseteq Nat \ {None} /\ IsFiniteSet(DOMAIN d.areas)
        /\ \A a \in DOMAIN d.areas : d.areas[a] \in AreaRows
        \* A flood area has any number of warnings, a warning one area.
        /\ \A a \in DOMAIN d.floods : d.floods[a] \subseteq Nat \ {None}
        \* Everything that is written, but the two values of the report below.
        /\ d.bytes \in Nat /\ d.bytes >= 1000

VARIABLES
    contents, \* what the database holds
    siteAt,   \* where the builder is
    site,     \* the files
    report    \* total_publication_bytes, data_bundle_within_site_limit, attempts

siteVars == <<contents, siteAt, site, report>>

-----------------------------------------------------------------------------
(* The API. *)

\* WHERE id > :after ORDER BY id LIMIT limit + 1
ApiPage(ids, after, limit) ==
    LET found == {id \in ids : id > after}
        items == Foremost(found, limit)
    IN  [items |-> items,
         next  |-> IF Cardinality(found) > limit THEN Greatest(items) ELSE None]

ApiPoints(after, limit) == ApiPage(DOMAIN contents.points, after, limit)

PointsWithin(radius) ==
    {p \in DOMAIN contents.points :
        contents.points[p].located /\ contents.points[p].distance <= radius}

\* The near routes of rainfall and bathing waters are ordered like the lists.
NationalNear(radius, limit) == Foremost(PointsWithin(radius), limit)

\* ORDER BY distance_m, id: the near routes of the four other products.
ApiNear(radius, limit) ==
    LET found == PointsWithin(radius)
        Before(y, x) ==
            \/ contents.points[y].distance < contents.points[x].distance
            \/ contents.points[y].distance = contents.points[x].distance /\ y < x
    IN  {x \in found : Cardinality({y \in found : Before(y, x)}) < limit}

Areas == DOMAIN contents.areas

\* The areas that the company index counts.
Counted == {a \in Areas : contents.areas[a].acronym # "" /\ contents.areas[a].label # ""}

CountedOf(company) == {a \in Counted : contents.areas[a].acronym = company}

Acronyms == {contents.areas[a].acronym : a \in Counted}

\* GROUP BY company_acronym
ApiCompany(company) ==
    [company_acronym  |-> company,
     publisher_labels |-> {contents.areas[a].label : a \in CountedOf(company)},
     area_count       |-> Cardinality(CountedOf(company))]

ApiCompanies == {ApiCompany(company) : company \in Acronyms}

\* The areas that a request for a company's areas finds.
AreasOf(company) == {a \in Areas : contents.areas[a].acronym = company}

ApiCompanyAreas(company, after, limit) ==
    [company |-> ApiCompany(company), page |-> ApiPage(AreasOf(company), after, limit)]

\* feature: GeometryTooLarge, or a geometry that is not the reviewed one
Drawn(areas) == \A a \in areas : contents.areas[a].drawn

\* company_feature_collection answers
DrawsCompany(company) ==
    LET page == ApiPage(AreasOf(company), None, CompanyLimit) IN
    /\ page.next = None
    /\ Cardinality(page.items) = Cardinality(CountedOf(company))
    /\ Drawn(page.items)

ApiCompanyGeometry(company) ==
    [company  |-> ApiCompany(company),
     features |-> ApiPage(AreasOf(company), None, CompanyLimit).items]

\* flood_area LEFT JOIN flood_warning
FloodRows ==
    UNION {{[area |-> a, warning |-> w] :
                w \in IF contents.floods[a] = {} THEN {None} ELSE contents.floods[a]} :
           a \in DOMAIN contents.floods}

ApiFloods(warningsOnly) == {row \in FloodRows : warningsOnly => row.warning # None}

-----------------------------------------------------------------------------
(* The builder. *)

\* The items of at most so many full pages.
Collected(ids, pages) == Ascending(Foremost(ids, PageSize * pages))

Entries(list) == {list[i] : i \in DOMAIN list}

AreaList == Collected(Areas, AreaPages)

CompanyList(company) == Collected(AreasOf(company), AreaPages)

\* Fault: the company index is not compared with the areas.
CompleteWithoutIndex ==
    /\ Cardinality(DOMAIN contents.points) <= PageSize * PointPages
    /\ Len(AreaList) = Cardinality(Areas)
    /\ \A company \in Acronyms : Len(CompanyList(company)) = Cardinality(CountedOf(company))
    /\ Drawn(Entries(AreaList))

\* Everything build_publication insists on: its page limit, the dataset's count of
\* areas, the sum of the companies' counts, each company's count, each geometry.
Complete ==
    /\ Cardinality(DOMAIN contents.points) <= PageSize * PointPages
    /\ Len(AreaList) = Cardinality(Areas)
    /\ Cardinality(Counted) = Len(AreaList)
    /\ \A company \in Acronyms : Len(CompanyList(company)) = Cardinality(CountedOf(company))
    /\ Drawn(Entries(AreaList))

\* feature_collection: the rows with a location.
LocatedPoints == {p \in DOMAIN contents.points : contents.points[p].located}

\* items.json and items.geojson, the flood areas.geojson, areas.json,
\* companies.json with the inventories, a drawing of each area and of each company,
\* and the two flood tables of the analytics.
SiteFiles ==
    [points     |-> Collected(DOMAIN contents.points, PointPages),
     rows       |-> contents.points,
     markers    |-> LocatedPoints,
     floods     |-> FloodRows,
     areas      |-> AreaList,
     companies  |-> [company \in Acronyms |->
                        [summary    |-> ApiCompany(company), areas |-> CompanyList(company)]],
     drawings   |-> Entries(AreaList),
     outlines   |-> [company \in Acronyms |-> Entries(CompanyList(company))],
     floodAreas |-> {row.area : row \in FloodRows},
     warnings   |-> {row \in FloodRows : row.warning # None}]

Building(at) == siteAt = "reading" /\ siteAt' = at /\ UNCHANGED <<contents, report>>

WriteSite == Building("written") /\ Complete /\ site' = SiteFiles

\* StaticPublicationError; nothing is left.
RefuseSite == Building("refused") /\ ~Complete /\ UNCHANGED site

\* The digits of a number, the letters of a truth value.
Digits(n) == 1 + Cardinality({p \in Powers : p <= n})
ReportSize == Digits(report.total) + IF report.within THEN 4 ELSE 5

\* The report states the size of a bundle that it is itself a part of: one attempt,
\* and "Publication report size did not stabilize" after the last.
SizeReport ==
    /\ siteAt = "written"
    /\ LET total == contents.bytes + ReportSize IN
         \/ /\ report.total = total
            /\ siteAt' = "published"
            /\ UNCHANGED report
         \/ /\ report.total # total
            /\ report' = [total |-> total, within |-> total <= SiteLimit,
                          round |-> report.round + 1]
            /\ siteAt' = IF report.round + 1 = Rounds THEN "unstable" ELSE siteAt
    /\ UNCHANGED <<contents, site>>

SiteInit ==
    /\ contents \in Databases
    /\ siteAt = "reading"
    /\ site = <<>>
    /\ report = [total |-> 0, within |-> FALSE, round |-> 0]

SiteNext == WriteSite \/ RefuseSite \/ SizeReport

SiteSpec == SiteInit /\ [][SiteNext]_siteVars

-----------------------------------------------------------------------------
(* The answers of a static site. *)

\* Fault: the item of the cursor is given again.
PageFromCursor(list, after, limit) ==
    LET found  == {i \in DOMAIN list : list[i] >= after}
        chosen == Foremost(found, limit)
    IN  [items |-> {list[i] : i \in chosen},
         next  |-> IF Cardinality(found) > limit THEN list[Greatest(chosen)] ELSE None]

\* boundedPage, and the route of a company's areas: items.slice(0, limit), and the
\* last of them if there are more.
SitePage(list, after, limit) ==
    LET found  == {i \in DOMAIN list : list[i] > after}
        chosen == Foremost(found, limit)
    IN  [items |-> {list[i] : i \in chosen},
         next  |-> IF Cardinality(found) > limit THEN list[Greatest(chosen)] ELSE None]

\* boundedPage for a near route: a stable sort by the distance on a sphere.
SiteNear(radius, limit) ==
    LET Row(i) == site.rows[site.points[i]]
        found  == {i \in DOMAIN site.points : Row(i).located /\ Row(i).sphere <= radius}
        Before(j, i) ==
            Row(j).sphere < Row(i).sphere \/ (Row(j).sphere = Row(i).sphere /\ j < i)
    IN  {site.points[i] : i \in {k \in found : Cardinality({j \in found : Before(j, k)}) < limit}}

SiteCompanies == {site.companies[company].summary : company \in DOMAIN site.companies}

SiteCompanyAreas(company, after, limit) ==
    [company |-> site.companies[company].summary,
     page    |-> SitePage(site.companies[company].areas, after, limit)]

SiteCompanyGeometry(company) ==
    [company |-> site.companies[company].summary, features |-> site.outlines[company]]

\* The filter of the request is ignored; filterFloods shows what has a warning.
FloodsShown(rows) == {row \in rows : row.warning # None}

-----------------------------------------------------------------------------
(* Safety. *)

Limits == 1 .. PageSize

\* The explorer gets from the files what it would get from the API on the snapshots
\* that the publication names, page by page and company by company, although
\* staticData.ts pages, joins and filters with code of its own.  (The API refuses to
\* draw companies with more than CompanyLimit areas, the files draw them.)
SiteAnswersAsTheApi ==
    siteAt = "published" =>
        /\ \A limit \in Limits, after \in {None} \cup DOMAIN contents.points :
              SitePage(site.points, after, limit) = ApiPoints(after, limit)
        /\ SiteCompanies = ApiCompanies
        /\ \A company \in Acronyms, limit \in Limits, after \in {None} \cup Areas :
              SiteCompanyAreas(company, after, limit) = ApiCompanyAreas(company, after, limit)
        /\ \A company \in Acronyms :
              DrawsCompany(company) => SiteCompanyGeometry(company) = ApiCompanyGeometry(company)
        /\ \A warningsOnly \in BOOLEAN :
              FloodsShown(site.floods) = FloodsShown(ApiFloods(warningsOnly))

\* Each area of the supply data can be reached through one company and no other, in
\* the list and in the drawing, and has a drawing of its own.
AreasAreFound ==
    \A area \in Areas :
        /\ area \in site.drawings
        /\ \E company \in DOMAIN site.companies :
             /\ area \in site.outlines[company]
             /\ \A other \in DOMAIN site.companies :
                  area \in Entries(site.companies[other].areas) <=> other = company

\* Each flood area and each warning has a row in one of the two tables.
FloodsAreTabled ==
    /\ site.floodAreas = DOMAIN contents.floods
    /\ {row.warning : row \in site.warnings} = UNION {contents.floods[a] : a \in site.floodAreas}

\* The report counts itself in, digit by digit, and says so truthfully.
ReportIsExact ==
    /\ report.total = contents.bytes + ReportSize
    /\ report.within = (report.total <= SiteLimit)

\* A site is published only when nothing of the database is missing and its report is
\* exact; and the search for the report's size always ends in time.
SiteIsAccountedFor ==
    /\ siteAt # "unstable"
    /\ siteAt = "published" => AreasAreFound /\ FloodsAreTabled /\ ReportIsExact

\* As many as asked for, or all; and what is left out is not nearer than what is given.
IsNearest(given, within, distance, limit) ==
    /\ given \subseteq within
    /\ given = within \/ Cardinality(given) = limit
    /\ \A x \in given, y \in within \ given : distance[x] <= distance[y]

Radii == UNION {{contents.points[p].distance, contents.points[p].sphere} :
                p \in DOMAIN contents.points}

\* "Nearby point layers show at most the nearest 100 records within the route's
\* supported radius" (docs/guides/explorer-data-interpretation.md, line 36): true of
\* the four routes that order by distance and of a static site, each by its own
\* measure of distance.
NearestAreServed ==
    \A limit \in Limits, radius \in Radii :
        /\ IsNearest(ApiNear(radius, limit), PointsWithin(radius),
                     [p \in DOMAIN contents.points |-> contents.points[p].distance], limit)
        /\ siteAt = "published" =>
             IsNearest(SiteNear(radius, limit),
                       {p \in LocatedPoints : contents.points[p].sphere <= radius},
                       [p \in DOMAIN contents.points |-> contents.points[p].sphere], limit)
=============================================================================
