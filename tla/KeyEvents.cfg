SPECIFICATION Spec
\* E06B left arrow, 6B number pad 4, E012 PrtScr
CONSTANTS
    Keys = {57451, 107, 57362}
    MaxPlugs = 1
    MaxPauses = 1
    MaxWaiting = 1
INVARIANTS
    TypeOK
    HoldingFollows
    BackInStep
PROPERTIES
    EventsInOrder
CHECK_DEADLOCK TRUE
