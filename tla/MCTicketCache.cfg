SPECIFICATION Spec
CONSTANTS
    Boot = Boot
    Renewer = {r1, r2}
    None = None
    Keytabs <- MCKeytabs
    BootLifetime = 2
    RenewLifetime = 3
    MaxClock = 3
SYMMETRY Symmetry
CHECK_DEADLOCK FALSE
INVARIANTS
    TypeOK
    KeytabReadsBack
    GaugeExplained
PROPERTY
    ShortenedOnlyByStale
