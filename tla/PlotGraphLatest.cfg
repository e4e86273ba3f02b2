SPECIFICATION Spec
CONSTANTS
    Witdh = 10
    Modulus = 16
INVARIANTS
    ShowsTheLatest
CHECK_DEADLOCK TRUE
