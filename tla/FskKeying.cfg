SPECIFICATION Spec
CONSTANTS
    Divisor = 8
    MaxLatency = 5
INVARIANTS
    TypeOK
    LfsrNeverLocks
    SymbolIsKeyed
    EdgeNotLost
PROPERTIES
    SequenceRecurs
CHECK_DEADLOCK TRUE
