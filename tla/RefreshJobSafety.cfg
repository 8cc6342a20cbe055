\* Two jobs with supervisors, which compete for the lock and for the one content.
CONSTANTS
    Jobs = {j1, j2}
    Contents = {c1}
    Valid = {c1}
    NoJob = NoJob
    NoBundle = NoBundle
SPECIFICATION JobSpec
SYMMETRY JobSymmetry
INVARIANTS
    StatusIsTruthful
    ReturnedMeansReaped
