SPECIFICATION Spec
CONSTANTS
    Taps = 3
    Bits = 3
    Bounce = 2
    Hold = 7
    Long = 7
INVARIANTS
    TypeOK
PROPERTIES
    DeliversBytes
CHECK_DEADLOCK TRUE
