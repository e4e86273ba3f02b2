SPECIFICATION Spec
\* E06B left arrow, 29 space
CONSTANTS
    Keys = {57451, 41}
    MaxPlugs = 0
    MaxPauses = 1
    MaxWaiting = 0
INVARIANTS
    HeldOnlyIfDown
CHECK_DEADLOCK TRUE
