SPECIFICATION FairSpec
CONSTANTS
    TaskId = {a, b, c}
    Unknown = {x}
INVARIANTS
    UpstreamFirst
    VerdictExact
PROPERTIES
    ExecutesOnce
    ImplementsGraphRun
    RunReturns
