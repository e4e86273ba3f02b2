SPECIFICATION Spec
CONSTANTS
    Divisor = 5
INVARIANTS
    TypeOK
    SettledInTime
PROPERTIES
    TornForOneCycle
    DeliversTheBits
CHECK_DEADLOCK TRUE
