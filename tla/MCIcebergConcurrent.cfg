SPECIFICATION Spec
CONSTANTS
    SeedSnapshot = seed
    NoSnapshot = none
    SeedFile = {s0, s1}
    Threshold = {2}
    FileSize <- MCFileSize
    Request = {r1, r2, r3}
    RetainChoice = {0, 1}
    AgeChoice = {0}
    MaxInFlight = 3
    MaxClock = 1
SYMMETRY Symmetry
CHECK_DEADLOCK FALSE
INVARIANTS
    LinearHistory
    TimeOrdered
    ReadSeesItsSnapshot
    MissingManifestWasExpired
    OverlapLossExplained
