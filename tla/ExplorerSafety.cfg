\* Two snapshots, two places, one layer that is pinned and one that is not; the user
\* decides three or four times.
CONSTANTS
    MaxSnapshot = 2
    Places = {home, away}
    NoPlace = NoPlace
    PlainLayers = {hydrology}
    PinnedLayers = {quality}
    SupplyLayer = supply
    WaterBody = WaterBody
    SupplyArea = SupplyArea
    NoShare = NoShare
    Home = home
    Terms = {river}
    NoTerm = NoTerm
    Points = {here}
    NoPoint = NoPoint
    Stations = {gauge, weir}
    NoStation = NoStation
    MaxChoices = 3
    Companies = {"anglian", "bristol"}
    NoCompany = "none"
    AreasOf <- CompanyAreasIn
    AreaPage = 2
    MaxPages = 3
    MaxCompanyActs = 3
    BodiesOf <- BodiesIn
    BodyPage = 2
    MaxBodyActs = 4
    MaxChanges = 4
SPECIFICATION Spec
\* The user has decided often enough, and everything has been answered.
CHECK_DEADLOCK FALSE
INVARIANTS
    NearbyIsCurrent
    SelectionIsOneSnapshot
    CompanyShownIsComplete
    BodiesAreConsecutive
    MapShowsState
PROPERTIES
    SnapshotNeverSwitches
    LastChoiceWins
