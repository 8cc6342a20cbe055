\* One job: its supervisor, its worker and the server; no other job is needed for
\* it to end.
CONSTANTS
    Jobs = {j1}
    Contents = {c1, bad}
    Valid = {c1}
    NoJob = NoJob
    NoBundle = NoBundle
SPECIFICATION FairJobSpec
PROPERTIES
    SourceFreed
