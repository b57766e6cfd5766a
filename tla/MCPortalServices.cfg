SPECIFICATION Spec
CONSTANTS
    Request = {q1, q2}
    Executors = {4, 33}
    User = {"jdoe"}
    Password = {"old", "new", "bad"}
    Group = {"analytics", "guests"}
    Allowed = {"analytics"}
    Mock <- MCMock
    LiveEntry <- MCLiveEntry
    NoEntry = none
    MaxChanges = 1
    MaxPoints = 2
    SeedPoints = 1
    MaxClock = 1
    MaxSamples = 2
CHECK_DEADLOCK FALSE
INVARIANTS
    TypeOK
    SeriesRecent
    QueriesExplained
    AppsExplained
    GrantExplained
PROPERTY
    RequestEnds
