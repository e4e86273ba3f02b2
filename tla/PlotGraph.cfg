SPECIFICATION Spec
CONSTANTS
    Witdh = 10
    Modulus = 16
INVARIANTS
    TypeOK
    NewestIsVisible
    OverpaintShowsHistory
    ScrollShowsHistory
PROPERTIES
    ScrollsByOne
CHECK_DEADLOCK TRUE
