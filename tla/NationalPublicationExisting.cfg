\* Two loads of the same content, damaged in between.
CONSTANTS
    JobCount = 2
    Sources = {src1}
    Contents = {c1}
    MaxTime = 1
    MaxDamages = 1
SPECIFICATION Spec
PROPERTIES
    ExistingIsVerified
