SPECIFICATION Spec
CONSTANTS
    WIDTH = 5
    HEIGHT = 3
    Blank = 3
    BlankLines = 1
    Witdh = 3
    Modulus = 6
    Pos_Y = 1
    Height = 2
    Largest = 5
INVARIANTS
    TypeOK
    PixelCoordinates
    TraceUnbroken
CHECK_DEADLOCK TRUE
