SPECIFICATION Spec
CONSTANTS
    Writer = {w1}
    Reader = {}
    Deleter = {}
    Reencrypter = {e1}
    Path = {inside, outside}
    Zone = {inside}
    None = none
    Garbage = garbage
    MaxVersion = 2
CHECK_DEADLOCK FALSE
INVARIANT SettledReadable
