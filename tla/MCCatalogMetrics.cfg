SPECIFICATION MetricsSpec
CONSTANTS
    SeedSnapshot = seed
    NoSnapshot = none
    SeedFile = {s0, s1}
    Threshold = {0, 2}
    FileSize <- MCFileSize
    Request = {r1, r2, r3}
    RetainChoice = {0, 1, 2}
    AgeChoice = {0, 1}
    MaxInFlight = 1
    MaxClock = 2
SYMMETRY Symmetry
CHECK_DEADLOCK FALSE
INVARIANTS
    ManifestsExact
    MetadataMatchesCatalog
    LostDataExplained
    GaugesExplained
PROPERTIES
    CleanupLeavesNoOrphan
    ExpiresOnlyOld
    ImplementsAtomicTable
