\* Two package commands with one output.
CONSTANTS
    Packagers = {p1, p2}
    RequiredCount = 1
    Evidence = {e1, torn}
    Readable = {e1}
    MaxEdits = 1
    Nobody = Nobody
SPECIFICATION PackageSpec
CHECK_DEADLOCK FALSE
INVARIANTS
    ReportedPackageStays
