SPECIFICATION Spec
CONSTANTS
    Size = 4
    Period = 4
    StartX = 2
    StartY = 1
    FastX = 2
    FastY = 3
    Together = 2
    MinPress = 7
    Turns = 1
INVARIANTS
    TypeOK
    HoldMoves
    ClickWhereCursorIs
    ResetCentres
    ReleasesMatchPresses
CHECK_DEADLOCK TRUE
