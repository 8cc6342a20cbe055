\* The parts of the pipeline, each over its own small instance.
CONSTANTS
    \* Every source, two pages of two records, a publisher that changes twice.
    Sources <- SourceSet
    Worlds <- WorldsDef
    PageLimit = 2
    PagesOfCollection = 2
    ResponseLimit = 3
    MaxMeasures = 2
    MaxUnits = 2
    RecordsOfRetrieval = 4
    MaxChanges = 2
    Window <- WindowDef
    Scope <- ScopeDef
    Measure <- MeasureDef
    \* Three local writers of two files, one of them nested; one power failure.
    Writers = {w_1, w_2, w_3}
    Files = {f1, f2}
    Nested = {f2}
    Ancestors = {}
    Index = Index
    MaxPowerLosses = 1
    \* Two uploaders with two retries each of two files.
    Uploaders = {u1, u2}
    ItemCount = 2
    MaxRestarts = 2
    \* Every consumer, lists of up to four entities, a publication during the read.
    Consumers <- AllConsumers
    SnapshotCount = 2
    MaxId = 4
    MaxLimit = 2
    MaxPages = 2
    MaxRecords = 3
    \* Three exports to one destination.
    Builders = {b1, b2, b3}
    PartCount = 2
    Method = "rename"
    \* Two package commands with one output, two sources, one edit.
    Packagers = {p1, p2}
    RequiredCount = 2
    Evidence = {e1, e2, torn}
    Readable = {e1, e2}
    MaxEdits = 1
    Nobody = Nobody
    \* Two snapshots of every product.
    MaxSnapshots = 2
    \* Pages of up to two, three of them; sizes up to five digits.
    Databases <- DatabasesDef
    PageSize = 2
    PointPages = 3
    AreaPages = 3
    CompanyLimit = 2
    Powers <- PowersDef
    SiteLimit = 10000
    Rounds = 10
SPECIFICATION PipelineSpec
CHECK_DEADLOCK FALSE
INVARIANTS
    QuietPublisherIsReadWhole
    BundleBelongsTogether
    ReservoirsAreOneMoment
    AcknowledgedReads
    ManifestMeansReadable
    TargetIsWhole
    CreatorSurvives
    UploadsAgree
    ReplayIsPackaged
    ReadIsOneSnapshot
    PinnedIsUndisturbed
    PublishedIsWhatItNames
    SiteAnswersAsTheApi
    SiteIsAccountedFor
    NearestAreServed
    DestinationIsOneBundle
PROPERTIES
    RetrievalPartEnds
    LocalImplementsArchive
    BucketImplementsArchive
