----------------------------- MODULE Ps2Reader -----------------------------
(***************************************************************************)
(* PS2_ScanCodeReader: it debounces the clock line of the keyboard, shifts *)
(* a frame in at the rising edges and reports its byte for one cycle (top  *)
(* ties iRESET to 0, and Keyboard_Controller ties iRead to oScanReady).    *)
(*                                                                         *)
(* The keyboard is part of the model.  It sends frames of a start bit, the *)
(* data, a parity bit and a stop bit; each level of its clock lasts at     *)
(* least Long cycles of iCLK and bounces for less than Taps cycles; a bit  *)
(* stays on the data line for at least Hold cycles after the rising edge.  *)
(***************************************************************************)
EXTENDS Integers, Sequences, FiniteSets

CONSTANTS
    Taps,                    \* bits of PS2_CLK_buffer, 8 in the source
    Bits,                    \* data bits of a frame, 8 in the source
    Bounce, Hold, Long       \* see above

ASSUME Ps2Assumption ==
    /\ Taps \in Nat \ {0} /\ Bits \in Nat \ {0} /\ Bounce \in Nat
    /\ Bounce < Taps
    /\ Hold \in Nat /\ Hold > Bounce + Taps + 1
    /\ Long \in Nat /\ Long >= Hold

VARIABLES
    PS2_CLK_buffer,          \* the newest sample first
    PS2_CLK_debounced, PS2_CLK_debounced_prev,
    ReadingChar, BitCntr,
    ShiftIn,                 \* the newest bit last
    oScanReady, oScanByte,
    clk, age,                \* keyboard: level of the clock, cycles it has lasted
    bit, word,               \* keyboard: number of the bit, data of the frame
    unread                   \* history: the frame has not been reported

debouncer == <<PS2_CLK_buffer, PS2_CLK_debounced, PS2_CLK_debounced_prev>>
frame == <<ReadingChar, BitCntr, ShiftIn, oScanByte>>
keyboard == <<clk, age, bit, word>>
vars == <<debouncer, frame, oScanReady, keyboard, unread>>

Words == [1..Bits -> 0..1]
Stop == Bits + 2
Parity(w) == (1 + Cardinality({n \in 1..Bits : w[n] = 1})) % 2
Level(n) ==                  \* the data line during bit n
    IF n = 0 THEN 0
    ELSE IF n <= Bits THEN word[n]
    ELSE IF n = Bits + 1 THEN Parity(word)
    ELSE 1

-----------------------------------------------------------------------------
(* PS2_ScanCodeReader *)

Constant(level) == \A n \in 1..Taps : PS2_CLK_buffer[n] = level
PS2_CLK_POSEDGE == PS2_CLK_debounced = 1 /\ PS2_CLK_debounced_prev = 0

Fault_NoDebounce(line) ==
    /\ PS2_CLK_buffer' = <<line>> \o SubSeq(PS2_CLK_buffer, 1, Taps - 1)
    /\ PS2_CLK_debounced' = PS2_CLK_buffer[1]
    /\ PS2_CLK_debounced_prev' = PS2_CLK_debounced

Debounce(line) ==
    /\ PS2_CLK_buffer' = <<line>> \o SubSeq(PS2_CLK_buffer, 1, Taps - 1)
    /\ PS2_CLK_debounced' = IF Constant(1) THEN 1
                            ELSE IF Constant(0) THEN 0
                            ELSE PS2_CLK_debounced
    /\ PS2_CLK_debounced_prev' = PS2_CLK_debounced

Fault_TwoStopBits == PS2_CLK_POSEDGE /\ ReadingChar /\ BitCntr = Bits + 2
LastEdge == PS2_CLK_POSEDGE /\ ReadingChar /\ BitCntr = Bits + 1

Assemble(dat) ==
    CASE LastEdge ->
           /\ BitCntr' = 0 /\ ReadingChar' = FALSE
           /\ oScanByte' = [n \in 1..Bits |-> ShiftIn[n]]
           /\ UNCHANGED ShiftIn
      [] PS2_CLK_POSEDGE /\ ReadingChar /\ ~LastEdge ->
           /\ BitCntr' = BitCntr + 1
           /\ ShiftIn' = Append(Tail(ShiftIn), dat)
           /\ UNCHANGED <<ReadingChar, oScanByte>>
      [] PS2_CLK_POSEDGE /\ ~ReadingChar ->
           /\ ReadingChar' = (dat = 0)
           /\ UNCHANGED <<BitCntr, ShiftIn, oScanByte>>
      [] OTHER -> UNCHANGED frame

Ready == LastEdge            \* otherwise iRead clears it in the next cycle

Clock(line, dat) ==          \* posedge of iCLK
    /\ Debounce(line)
    /\ Assemble(dat)
    /\ oScanReady' = Ready

-----------------------------------------------------------------------------
(* The keyboard *)

ClockLine == IF age < Bounce THEN 0..1 ELSE {clk}
DataLine == IF clk = 1 /\ age >= Hold /\ bit # Stop THEN 0..1 ELSE {Level(bit)}

Sample == \E line \in ClockLine, dat \in DataLine : Clock(line, dat)
Reported == unread' = (unread /\ ~oScanReady')

Same ==                      \* the level of the clock stays
    /\ Sample /\ Reported
    /\ age' = IF age < Long THEN age + 1 ELSE Long
    /\ UNCHANGED <<clk, bit, word>>

Rise ==
    /\ clk = 0 /\ age = Long
    /\ Sample /\ Reported
    /\ clk' = 1 /\ age' = 0
    /\ UNCHANGED <<bit, word>>

Fall ==                      \* to the next bit
    /\ clk = 1 /\ age = Long /\ bit # Stop
    /\ Sample /\ Reported
    /\ clk' = 0 /\ age' = 0
    /\ bit' = bit + 1
    /\ UNCHANGED word

Start ==                     \* a new frame
    /\ clk = 1 /\ age = Long /\ bit = Stop
    /\ Sample
    /\ clk' = 0 /\ age' = 0
    /\ bit' = 0 /\ word' \in Words
    /\ unread' = TRUE

Init ==
    /\ PS2_CLK_buffer = [n \in 1..Taps |-> 0]
    /\ PS2_CLK_debounced = 0 /\ PS2_CLK_debounced_prev = 0
    /\ ReadingChar = FALSE /\ BitCntr = 0
    /\ ShiftIn = [n \in 1..Bits + 1 |-> 0]
    /\ oScanReady = FALSE /\ oScanByte = [n \in 1..Bits |-> 0]
    /\ clk = 1 /\ age = 0 /\ bit = Stop       \* no frame right at power-up
    /\ word = [n \in 1..Bits |-> 0] /\ unread = FALSE

Next == Same \/ Rise \/ Fall \/ Start

\* iCLK never stops, and a keyboard that has begun a frame ends it.
Spec == Init /\ [][Next]_vars /\ WF_vars(Same) /\ WF_vars(Rise) /\ WF_vars(Fall)

-----------------------------------------------------------------------------

TypeOK ==
    /\ PS2_CLK_buffer \in [1..Taps -> 0..1]
    /\ PS2_CLK_debounced \in 0..1 /\ PS2_CLK_debounced_prev \in 0..1
    /\ ReadingChar \in BOOLEAN /\ BitCntr \in 0..(Bits + 1)
    /\ ShiftIn \in [1..Bits + 1 -> 0..1]
    /\ oScanReady \in BOOLEAN /\ oScanByte \in Words
    /\ clk \in 0..1 /\ age \in 0..Long /\ bit \in 0..Stop /\ word \in Words
    /\ unread \in BOOLEAN

\* However the clock line bounces, the bytes of the frames are reported
\* unchanged, each once, before the next frame begins, and none is left behind.
Channel == INSTANCE ByteChannel WITH sent <- IF unread THEN {word} ELSE {}
DeliversBytes == Channel!Spec

=============================================================================
