SPECIFICATION Spec
CONSTANT NColours = 8
INVARIANTS
    TypeOK
    GraphShowsPressed
    LampsTellTruth
    PressedUnderCursor
CHECK_DEADLOCK TRUE
