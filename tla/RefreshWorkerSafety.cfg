CONSTANTS
    Jobs = {j1, j2}
    Contents = {c1, c2, bad}
    Valid = {c1, c2}
    NoJob = NoJob
    NoBundle = NoBundle
SPECIFICATION Spec
SYMMETRY JobSymmetry
INVARIANTS
    EvidenceBeforePublication
    RejectedStaysOut
    BodyExclusion
    LockFreedOnExit
PROPERTIES
    ImplementsStore
