SPECIFICATION FairSpec
CONSTANTS
    Issuer = {i1, i2}
    Revoker = {q1}
    Purger = purger
    Free = free
    TtlChoice = {0}
    MaxTtl = 0
    MaxClock = 1
CHECK_DEADLOCK FALSE
PROPERTY ExpiredPurged
