SPECIFICATION Spec
CONSTANTS
    Command <- MCCommand
    Whole <- MCWhole
    MaxCommands = 3
CHECK_DEADLOCK FALSE
INVARIANTS
    InStep
PROPERTIES
    Answered
    HandlerEnds
