\* The comment of refresh.py, line 372, against the code below it.
CONSTANTS
    Jobs = {j1}
    Contents = {c1}
    Valid = {c1}
    NoJob = NoJob
    NoBundle = NoBundle
SPECIFICATION JobSpec
INVARIANTS
    SecondInterruptKeepsReaping
