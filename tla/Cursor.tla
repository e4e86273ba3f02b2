------------------------------- MODULE Cursor -------------------------------
(***************************************************************************)
(* Cursor.v: the position of the cursor, clocked by the video clock.  The  *)
(* first cycle of an arrow moves it, and then one cycle in Period: that is *)
(* the time a counter takes to wrap, which is cleared only in a cycle in   *)
(* which no arrow is held.  When several are, the chain of else-if decides.*)
(***************************************************************************)
EXTENDS Integers

CONSTANTS
    Size,                \* values of a coordinate, 2^10
    Period,              \* values of debounce, 2^21
    StartX, StartY,      \* 400 and 300
    FastX, FastY         \* 15 and 12, the speeds without M

ASSUME CursorAssumption ==
    /\ Size \in Nat \ {0} /\ Period \in Nat \ {0}
    /\ StartX \in 0..(Size - 1) /\ StartY \in 0..(Size - 1)
    /\ FastX \in Nat /\ FastY \in Nat

VARIABLES cur, debounce  \* <<cur_X, cur_Y>>, and the counter

cursorVars == <<cur, debounce>>

Arrows == {"left", "right", "up", "down"}
Coordinates == 0..(Size - 1)
Centre == <<StartX, StartY>>

\* The arrow that the chain of else-if picks among those that are held.
First(held) ==
    IF "left" \in held THEN "left" ELSE IF "right" \in held THEN "right"
    ELSE IF "up" \in held THEN "up" ELSE "down"

speed_x(slow) == IF slow THEN 1 ELSE FastX
speed_y(slow) == IF slow THEN 1 ELSE FastY

\* k steps along an arrow; a coordinate wraps like the register it is.
Fault_Eleven(p, arrow, slow, k) ==      \* one bit more than the register has
    CASE arrow = "left"  -> <<(p[1] - k * speed_x(slow)) % (2 * Size), p[2]>>
      [] arrow = "right" -> <<(p[1] + k * speed_x(slow)) % (2 * Size), p[2]>>
      [] arrow = "up"    -> <<p[1], (p[2] - k * speed_y(slow)) % (2 * Size)>>
      [] arrow = "down"  -> <<p[1], (p[2] + k * speed_y(slow)) % (2 * Size)>>
Moved(p, arrow, slow, k) ==
    CASE arrow = "left"  -> <<(p[1] - k * speed_x(slow)) % Size, p[2]>>
      [] arrow = "right" -> <<(p[1] + k * speed_x(slow)) % Size, p[2]>>
      [] arrow = "up"    -> <<p[1], (p[2] - k * speed_y(slow)) % Size>>
      [] arrow = "down"  -> <<p[1], (p[2] + k * speed_y(slow)) % Size>>

CursorInit == cur = <<0, 0>> /\ debounce = 0

\* A rising edge of the video clock; held is what the synchronizers show.
CursorReset ==
    cur' = Centre /\ debounce' = 0

Fault_NoClear(held) ==   \* no last else
    /\ held \cap Arrows = {}
    /\ debounce' = debounce /\ cur' = cur

Still(held) ==
    /\ held \cap Arrows = {}
    /\ debounce' = 0 /\ cur' = cur

Steer(held) ==
    /\ held \cap Arrows # {}
    /\ cur' = IF debounce = 0 THEN Moved(cur, First(held), "M" \in held, 1) ELSE cur
    /\ debounce' = (debounce + 1) % Period

CursorTypeOK ==
    /\ cur \in Coordinates \X Coordinates
    /\ debounce \in 0..(Period - 1)

=============================================================================
