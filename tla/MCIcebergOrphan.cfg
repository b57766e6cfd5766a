SPECIFICATION Spec
CONSTANTS
    SeedSnapshot = seed
    NoSnapshot = none
    SeedFile = {s0, s1}
    Threshold = {0, 2}
    FileSize <- MCFileSize
    Request = {r1, r2}
    RetainChoice = {0, 1}
    AgeChoice = {0}
    MaxInFlight = 2
    MaxClock = 2
CHECK_DEADLOCK FALSE
PROPERTY DeletesOnlyOrphans
