SPECIFICATION Spec
CONSTANTS
    Writer = {w1, w2}
    Reader = {r1}
    Deleter = {d1}
    Reencrypter = {e1}
    Path = {inside, outside}
    Zone = {inside}
    None = none
    Garbage = garbage
    MaxVersion = 2
CHECK_DEADLOCK FALSE
INVARIANTS
    KeysRecoverable
    DekMatchesBytes
    LocksNeverBlock
    GarbageReadExplained
PROPERTY SweepReachesTarget
