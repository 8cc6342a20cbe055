\* The browser of Water Bodies over a static publication.
CONSTANTS
    MaxSnapshot = 2
    Places = {home, away}
    NoPlace = NoPlace
    PlainLayers = {hydrology}
    PinnedLayers = {quality}
    SupplyLayer = supply
    WaterBody = WaterBody
    SupplyArea = SupplyArea
    NoShare = NoShare
    Home = home
    Terms = {river}
    NoTerm = NoTerm
    Points = {here}
    NoPoint = NoPoint
    Stations = {gauge, weir}
    NoStation = NoStation
    MaxChoices = 3
    Companies = {"anglian", "bristol"}
    NoCompany = "none"
    AreasOf <- CompanyAreasIn
    AreaPage = 2
    MaxPages = 3
    MaxCompanyActs = 3
    BodiesOf <- BodiesIn
    BodyPage = 2
    MaxBodyActs = 4
    MaxChanges = 4
SPECIFICATION Spec
CHECK_DEADLOCK FALSE
INVARIANTS
    ListedBodyIsDisplayed
