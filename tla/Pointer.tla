------------------------------ MODULE Pointer ------------------------------
(***************************************************************************)
(* From a key to a click: the HOLDING registers of top.sv (key clock) pass *)
(* through two flip-flops each into the cursor (video clock), and task2    *)
(* reads position and space bar with mouse_pos (processor clock).  KEY[0]  *)
(* clears the registers and centres the cursor, through a synchronizer in  *)
(* each clock domain.                                                      *)
(*                                                                         *)
(* The clocks are unrelated: Cycle is an edge of the video clock, KeyTick  *)
(* one of the key clock (with one or two Cycles from one to the next, 40   *)
(* to 25 MHz), a step of mouse_pos one access of the processor.  A flip-   *)
(* flop that samples a bit of another domain in the cycle of its change    *)
(* takes its old or its new value, each bit for itself.                    *)
(***************************************************************************)
EXTENDS Cursor, FiniteSets

CONSTANTS
    Together,            \* bound: keys held down at the same time
    MinPress,            \* the shortest press of KEY[0], in Cycles: with seven
                         \* (175 ns) both resets are through
    Turns                \* bound: periods of a press that HoldMoves looks at

Key == Arrows \cup {"M", "space"}

ASSUME PointerAssumption ==
    Together \in Nat /\ MinPress \in Nat /\ MinPress >= 7 /\ Turns \in Nat

VARIABLES
    HOLDING, before,     \* the registers, now and at the last Cycle
    q1, q2,              \* their synchronizers
    key0, since,         \* KEY[0] is down; Cycles since the last KeyTick
    key_reset, reset,    \* <<first, second>> of the synchronizers of KEY[0]
    was,                 \* the position before the last Cycle
    pc, event,           \* mouse_pos: next access, last result
    space, space_last,   \* its static variables
    here,                \* *x and *y are (still) the cursor's position
    pressed,             \* history: Cycles that KEY[0] is down
    quiet,               \* history: Cycles without arrow or reset
    trust,               \* history: no arrow or reset since before the read
    centred,             \* history: no arrow since the last reset
    hold,                \* history: the arrow held alone since when and where
    seen,                \* history: the last call found the space bar down
    owed                 \* history: presses that calls found, less releases
                         \* that calls reported

inputs == <<HOLDING, before, q1, q2>>
resets == <<key0, since, key_reset, reset, pressed>>
mouse == <<pc, event, space, space_last, seen, owed>>
vars == <<cursorVars, inputs, resets, was, mouse, here, quiet, trust, centred, hold>>

NoHold == [arrow |-> "none", n |-> 0, origin |-> <<0, 0>>]
EndOfHold == 3 + Turns * Period

-----------------------------------------------------------------------------
(* The video clock *)

\* The edge takes each register at its old or its new value.
Taken(s) == HOLDING \cap before \subseteq s /\ s \subseteq HOLDING \cup before

KeyDue ==                \* the next KeyTick changes something
    key_reset # <<key0, key0>> \/ (key0 /\ HOLDING # {})

ShiftInputs ==
    /\ \E s \in SUBSET Key : Taken(s) /\ q1' = s
    /\ q2' = q1
    /\ before' = HOLDING

Fault_KeyClock == key_reset[2]       \* .iRST(reset_from_key)
VideoReset == reset[2]

Cycle ==
    /\ KeyDue => since < 2
    /\ since' = IF KeyDue THEN since + 1 ELSE 1
    /\ ShiftInputs
    /\ reset' = <<key0, reset[1]>>
    /\ IF VideoReset THEN CursorReset ELSE Still(q2) \/ Steer(q2)
    /\ was' = cur
    /\ here' = (here /\ cur' = cur)
    /\ pressed' = IF key0 /\ pressed < MinPress THEN pressed + 1 ELSE pressed
    /\ quiet' = IF HOLDING \cap Arrows # {} \/ key0 \/ reset[1] \/ reset[2] THEN 0
                ELSE IF quiet < 4 THEN quiet + 1 ELSE 4
    /\ hold' = IF hold.arrow = "none" \/ hold.n = EndOfHold THEN NoHold
               ELSE [hold EXCEPT !.n = @ + 1]
    /\ UNCHANGED <<HOLDING, key0, key_reset, mouse, trust, centred>>

-----------------------------------------------------------------------------
(* The key clock and the two kinds of keys *)

KeyTick ==
    /\ KeyDue /\ since > 0
    /\ since' = 0
    /\ key_reset' = <<key0, key_reset[1]>>
    /\ HOLDING' = IF key_reset[2] THEN {} ELSE HOLDING
    /\ UNCHANGED <<cursorVars, before, q1, q2, key0, reset, pressed, was, mouse,
                   here, quiet, trust, centred, hold>>

\* Codes are at least half a millisecond apart: the last change is through.
Settled ==
    before = HOLDING /\ q1 = HOLDING /\ q2 = HOLDING

KeyEvent(k) ==           \* a make or a break code
    /\ Settled /\ ~key_reset[2]
    /\ HOLDING' = IF k \in HOLDING THEN HOLDING \ {k} ELSE HOLDING \cup {k}
    /\ Cardinality(HOLDING') <= Together
    /\ hold' = IF k = "space" THEN hold
               ELSE IF k \in Arrows /\ HOLDING \cap Arrows = {} /\ ~key0 /\ quiet = 4
               THEN [arrow |-> k, n |-> 0, origin |-> cur]
               ELSE NoHold
    /\ trust' = (trust /\ k \notin Arrows)
    /\ centred' = (centred /\ k \notin Arrows)
    /\ quiet' = IF k \in Arrows THEN 0 ELSE quiet
    /\ UNCHANGED <<cursorVars, before, q1, q2, resets, was, mouse, here>>

PressKey0 ==
    /\ ~key0 /\ key_reset = <<FALSE, FALSE>> /\ reset = <<FALSE, FALSE>>
    /\ key0' = TRUE /\ pressed' = 0
    /\ trust' = FALSE /\ quiet' = 0 /\ hold' = NoHold
    /\ UNCHANGED <<cursorVars, inputs, since, key_reset, reset, was, mouse, here,
                   centred>>

ReleaseKey0 ==
    /\ key0 /\ pressed = MinPress
    /\ key0' = FALSE /\ pressed' = 0
    /\ centred' = TRUE
    /\ UNCHANGED <<cursorVars, inputs, since, key_reset, reset, was, mouse, here,
                   quiet, trust, hold>>

-----------------------------------------------------------------------------
(* mouse_pos *)

\* Each bit of the register is taken before or after the last Cycle.  The
\* weights are the powers of two: they have no odd divisor but 1.
Weights == {w \in 1..Size : \A d \in 2..w : w % d = 0 => d % 2 = 0}
Bit(v, w) == (v \div w) % 2
Mixtures(old, new) ==
    {v \in Coordinates : \A w \in Weights : Bit(v, w) \in {Bit(old, w), Bit(new, w)}}

Fault_SwappedFields(x, y) == <<y, x>>      \* the masks without the shift
Fields(x, y) == <<x, y>>

ReadPosition ==          \* IORD(MOUSE_POS_BASE, 0)
    /\ pc = "position"
    /\ \E x \in Mixtures(was[1], cur[1]), y \in Mixtures(was[2], cur[2]) :
          here' = (Fields(x, y) = cur)
    /\ trust' = (quiet = 4)
    /\ pc' = "keys"
    /\ UNCHANGED <<cursorVars, inputs, resets, was, event, space, space_last,
                   seen, owed, quiet, centred, hold>>

space_key == IF "space" \in HOLDING THEN 1 ELSE 0

\* The statics: first saved, then compared with what was saved.
Fault_ComparedFirst ==
    /\ space' = IF space_last # space_key THEN space_key ELSE space
    /\ space_last' = space
KeepStatics ==
    /\ space_last' = space
    /\ space' = IF space_last' # space_key THEN space_key ELSE space

Result(last, now, key) ==
    IF (last = 0 /\ now = 1) \/ key = 1 THEN 1
    ELSE IF last = 1 /\ now = 0 THEN 2
    ELSE 0

\* read_keyboard, and the result
ReadKeys ==
    /\ pc = "keys"
    /\ KeepStatics
    /\ event' = Result(space_last', space', space_key)
    /\ seen' = (space_key = 1)
    /\ owed' = owed + (IF ~seen /\ seen' THEN 1 ELSE 0)
                    - (IF event' = 2 THEN 1 ELSE 0)
    /\ pc' = "position"
    /\ here' = FALSE /\ trust' = FALSE
    /\ UNCHANGED <<cursorVars, inputs, resets, was, quiet, centred, hold>>

-----------------------------------------------------------------------------

Init ==
    /\ CursorInit
    /\ HOLDING = {} /\ before = {} /\ q1 = {} /\ q2 = {}
    /\ key0 = FALSE /\ since = 1
    /\ key_reset = <<FALSE, FALSE>> /\ reset = <<FALSE, FALSE>>
    /\ was = <<0, 0>>
    /\ pc = "position" /\ event = 0 /\ here = FALSE
    /\ space = 0 /\ space_last = 0 /\ seen = FALSE /\ owed = 0
    /\ pressed = 0 /\ quiet = 0 /\ trust = FALSE /\ centred = FALSE
    /\ hold = NoHold

Next ==
    \/ Cycle \/ KeyTick \/ PressKey0 \/ ReleaseKey0
    \/ \E k \in Key : KeyEvent(k)
    \/ ReadPosition \/ ReadKeys

Spec == Init /\ [][Next]_vars

-----------------------------------------------------------------------------

TypeOK ==
    /\ CursorTypeOK
    /\ HOLDING \subseteq Key /\ before \subseteq Key
    /\ q1 \subseteq Key /\ q2 \subseteq Key
    /\ key0 \in BOOLEAN /\ since \in 0..2
    /\ key_reset \in BOOLEAN \X BOOLEAN /\ reset \in BOOLEAN \X BOOLEAN
    /\ was \in Coordinates \X Coordinates
    /\ pc \in {"position", "keys"}
    /\ event \in 0..2 /\ here \in BOOLEAN
    /\ space \in 0..1 /\ space_last \in 0..1
    /\ seen \in BOOLEAN /\ owed \in Int
    /\ pressed \in 0..MinPress /\ quiet \in 0..4
    /\ trust \in BOOLEAN /\ centred \in BOOLEAN
    /\ hold \in [arrow : Arrows \cup {"none"}, n : 0..EndOfHold,
                 origin : Coordinates \X Coordinates]

\* An arrow held alone, after a pause, moves the cursor along its own axis:
\* one step three video cycles after its register, and one more every Period
\* (the register may be taken a cycle late).
StepsAfter(n) == IF n < 3 THEN 0 ELSE 1 + (n - 3) \div Period
HoldMoves ==
    hold.arrow # "none" =>
      \E k \in {StepsAfter(hold.n - 1), StepsAfter(hold.n)} :
         cur = Moved(hold.origin, hold.arrow, "M" \in HOLDING, k)

\* A press of the space bar acts where the cursor is, when the last arrow was
\* released four cycles before the position was read and none is pressed
\* before the space bar is: synchronizers and register have come to rest.
ClickWhereCursorIs == pc = "keys" /\ trust => here

\* Over any number of calls of mouse_pos the releases it has reported match
\* the presses it has found, whatever keys, KEY[0] and the cursor do between
\* the calls and between the two reads of a call: a press is reported by every
\* call that finds the bar down, its release by the first call that finds it up
\* and by no later one, and no release is reported without a press.
ReleasesMatchPresses ==
    /\ owed = IF seen THEN 1 ELSE 0
    /\ event = 1 <=> seen

\* KEY[0] reaches registers and cursor at different times, and the registers
\* reach the cursor later still; all the same, once it is released and its
\* reset is over, the cursor is in the centre and stays there until the next
\* code of an arrow.
ResetCentres == centred => cur = Centre

=============================================================================
