SPECIFICATION FairSpec
CONSTANTS
    Issuer = {i1, i2}
    Revoker = {q1}
    Purger = purger
    Free = free
    TtlChoice <- MCTtl
    MaxTtl = 1
    MaxClock = 1
CHECK_DEADLOCK FALSE
INVARIANTS
    LeaseHasUser
    LeaselessUserExplained
    OnlyThisCycleBlocks
PROPERTIES
    PurgesOnlyExpired
    ExpiredPurgedUnlessCycle
