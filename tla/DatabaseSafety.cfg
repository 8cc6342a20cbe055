\* Both families of loaders, each over its own small instance.
CONSTANTS
    \* Three loads of two national sources, contents and times.
    JobCount = 3
    Sources = {src1, src2}
    Contents = {c1, c2}
    MaxTime = 2
    MaxDamages = 1
    \* Two loaders, every other source, up to three loads.
    Loaders = {l1, l2}
    LoadContents <- ContentSet
    Source <- SourceDef
    Located <- LocatedDef
    Members <- MembersDef
    Parent <- ParentDef
    Uuid <- UuidDef
    LoadBundles <- BundleSet
    MaxCalls = 3
    MaxRowDamages = 1
    NoLoad = NoLoad
    h1 = h1
    h2 = h2
    h3 = h3
    y1 = y1
    w1 = w1
    w2 = w2
    o1 = o1
    k1 = k1
    r1 = r1
    t1 = t1
    ma = ma
    mb = mb
SPECIFICATION DatabaseSpec
SYMMETRY DatabaseSymmetry
CHECK_DEADLOCK FALSE
INVARIANTS
    PublicationStands
    ChildrenHaveParents
    ReportIsConsistent
PROPERTIES
    ServesLatest
    ServedCompleteness
    ExistingWasVerified
