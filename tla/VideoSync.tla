----------------------------- MODULE VideoSync -----------------------------
(***************************************************************************)
(* The pixel counters: hack_ltm_sincronization.v recovers the coordinates  *)
(* of a pixel from the data-enable signal of the video output alone.  It   *)
(* knows neither the frame nor the line that the video output is at; it    *)
(* counts clocks and ends of lines, from the first frame on.               *)
(*                                                                         *)
(* The video output changes at the rising edge of the video clock, the     *)
(* counters at the falling edge: a pixel is put on the screen with the     *)
(* values that they have while the clock is high.                          *)
(***************************************************************************)
EXTENDS Integers

CONSTANTS
    WIDTH, HEIGHT,       \* 800 and 599
    Blank,               \* clocks of a line without data
    BlankLines           \* lines of a frame without data

ASSUME VideoAssumption ==
    /\ WIDTH \in Nat /\ WIDTH >= 2
    /\ HEIGHT \in Nat
    /\ Blank \in Nat /\ Blank >= 3
    /\ BlankLines \in Nat

VARIABLES
    high,                \* level of the video clock
    col, row,            \* clock and line that the video output is at
    count_x, count_y,
    line_rdy             \* the data-enable signal at the last falling edge

videoVars == <<high, col, row, count_x, count_y, line_rdy>>

den == col < WIDTH /\ row <= HEIGHT

VideoInit ==             \* the video output begins with a frame
    /\ high = FALSE
    /\ col = WIDTH + Blank - 1 /\ row = HEIGHT + BlankLines
    /\ count_x = 0 /\ count_y = 0 /\ line_rdy = FALSE

VideoRise ==
    /\ ~high /\ high' = TRUE
    /\ IF col < WIDTH + Blank - 1
       THEN col' = col + 1 /\ row' = row
       ELSE col' = 0 /\ row' = IF row < HEIGHT + BlankLines THEN row + 1 ELSE 0
    /\ UNCHANGED <<count_x, count_y, line_rdy>>

Fault_OneMore == IF count_y <= HEIGHT THEN count_y + 1 ELSE 0
NextLine == IF count_y < HEIGHT THEN count_y + 1 ELSE 0

Fault_NeverCleared == IF den /\ count_x < WIDTH THEN count_x + 1 ELSE count_x
NextPixel == IF den /\ count_x < WIDTH THEN count_x + 1 ELSE 0

VideoFall ==             \* negedge of clk_lcd
    /\ high /\ high' = FALSE
    /\ count_x' = NextPixel
    /\ line_rdy' = den
    /\ count_y' = IF line_rdy /\ ~den THEN NextLine ELSE count_y
    /\ UNCHANGED <<col, row>>

VideoTypeOK ==
    /\ high \in BOOLEAN
    /\ col \in 0..(WIDTH + Blank - 1) /\ row \in 0..(HEIGHT + BlankLines)
    /\ count_x \in 0..WIDTH /\ count_y \in 0..HEIGHT
    /\ line_rdy \in BOOLEAN

=============================================================================
