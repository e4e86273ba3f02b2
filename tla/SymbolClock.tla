---------------------------- MODULE SymbolClock ----------------------------
(***************************************************************************)
(* The symbol source of the visualizer: my_Clk_divider divides CLOCK_50    *)
(* down to the symbol clock LFSR_clk, and every rising edge of LFSR_clk    *)
(* shifts the five-bit LFSR whose bits are transmitted.  KEY[0] resets the *)
(* LFSR asynchronously and leaves the divider alone.                       *)
(*                                                                         *)
(* A step of this module is one rising edge of CLOCK_50 (SymbolTick) or an *)
(* edge of the push button.  LFSR_clk is a register of the CLOCK_50        *)
(* domain, so its rising edge, and the shift that it causes, belong to the *)
(* CLOCK_50 edge that sets it.                                             *)
(***************************************************************************)
EXTENDS Integers

CONSTANT Divisor      \* CLOCK_50 cycles per symbol; 50000000 in top.sv

ASSUME DivisorAssumption == Divisor \in Nat /\ Divisor >= 4

VARIABLES
    counter,          \* my_Clk_divider.counter
    clk_out,          \* my_Clk_divider.clk_out, that is LFSR_clk
    lfsr,             \* lfsr[4:0]; lfsr[0] is the bit that is sent
    rst               \* KEY[0], active low

clockVars == <<counter, clk_out, lfsr, rst>>

Bit == {0, 1}
Stages == 0..4

-----------------------------------------------------------------------------

\* The value the five flip-flops power up with, and the value of the reset.
Seed == [i \in Stages |-> IF i = 0 THEN 1 ELSE 0]

\* A fault that a test bench would be late to show: the feedback tap is off.
Fault_SwappedTap(l) == [i \in Stages |-> IF i = 4 THEN (l[1] + l[2]) % 2 ELSE l[i + 1]]

\* feedback = lfsr[0] ^ lfsr[2] enters at stage 4, the others move down.
ShiftLfsr(l) == [i \in Stages |-> IF i = 4 THEN (l[0] + l[2]) % 2 ELSE l[i + 1]]

\* The next CLOCK_50 edge sets clk_out, which was low.
Rises == clk_out = 0 /\ Divisor \div 2 > counter

\* CLOCK_50 cycles since the divider last began a symbol period: 0 in the
\* state that the rising edge leads to, Divisor - 1 just before the next one.
Age == IF counter = 0 THEN Divisor - 1 ELSE counter - 1

DivideClock ==
    /\ counter' = IF counter >= Divisor - 1 THEN 0 ELSE counter + 1
    /\ clk_out' = IF Divisor \div 2 > counter THEN 1 ELSE 0

ClockLfsr ==
    lfsr' = IF Rises /\ rst = 1 THEN ShiftLfsr(lfsr) ELSE lfsr

-----------------------------------------------------------------------------

\* clk_out has no initial value in the source: it powers up either way.
SymbolInit ==
    /\ counter = 0
    /\ clk_out \in Bit
    /\ lfsr = Seed
    /\ rst \in Bit

SymbolTick ==
    /\ DivideClock
    /\ ClockLfsr
    /\ UNCHANGED rst

Fault_ResetClears ==
    /\ rst = 1
    /\ rst' = 0
    /\ lfsr' = [i \in Stages |-> 0]
    /\ UNCHANGED <<counter, clk_out>>

PressReset ==
    /\ rst = 1
    /\ rst' = 0
    /\ lfsr' = Seed
    /\ UNCHANGED <<counter, clk_out>>

ReleaseReset ==
    /\ rst = 0
    /\ rst' = 1
    /\ UNCHANGED <<counter, clk_out, lfsr>>

-----------------------------------------------------------------------------

SymbolTypeOK ==
    /\ counter \in 0..(Divisor - 1)
    /\ clk_out \in Bit
    /\ lfsr \in [Stages -> Bit]
    /\ rst \in Bit

=============================================================================
