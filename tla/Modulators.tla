----------------------------- MODULE Modulators -----------------------------
(***************************************************************************)
(* Two bits of the LFSR, lfsr[0] and lfsr[4], go through a synchronizer of *)
(* their own into the CLOCK_50 domain, where the modulators turn them into *)
(* a carrier: ASK, BPSK and the plain LFSR trace use the first, QPSK both. *)
(*                                                                         *)
(* The first flip-flop of a synchronizer is clocked by LFSR_clk, the other *)
(* two by CLOCK_50.  LFSR_clk is made of logic, so the edge of CLOCK_50    *)
(* after its rise may find the first flip-flop still changing: what the    *)
(* second one takes then is the old or the new bit, for each synchronizer  *)
(* by itself.                                                              *)
(***************************************************************************)
EXTENDS SymbolClock

Taps == {0, 4}

VARIABLES
    q1, q2, sync,                          \* the flip-flops, for each tap
    ASK_sig, BPSK_sig, LFSR_sig, QPSK_sig, \* the modulators' registers
    before, started                        \* history: the dibit taken before
                                           \* q1; two edges have been seen

syncVars == <<q1, q2, sync>>
sigVars == <<ASK_sig, BPSK_sig, LFSR_sig, QPSK_sig>>
vars == <<clockVars, syncVars, sigVars, before, started>>

\* Carriers: a wave of waveform_gen, its two's complement, or a level.
Waves == {"sin", "cos", "-sin", "-cos"}
Levels == {"zero", "minimum"}

-----------------------------------------------------------------------------
(* Synchronizers *)

Fault_OneClock == q1' = [t \in Taps |-> lfsr[t]]          \* clk_A is CLOCK_50
TakeBits == q1' = IF Rises THEN [t \in Taps |-> lfsr[t]] ELSE q1

\* The edge of CLOCK_50 that follows the rise of LFSR_clk.
Fault_SlowClock == Age <= 1
Unsettled == Age = 0

Resolve ==
    \E late \in SUBSET Taps :
        /\ late # {} => Unsettled
        /\ q2' = [t \in Taps |-> IF t \in late THEN q2[t] ELSE q1[t]]

Fault_WrongClock == sync' = IF Rises THEN q2 ELSE sync    \* .clk(clk_A)
PassOn == sync' = q2

-----------------------------------------------------------------------------
(* Modulators *)

ASK(bit) == IF bit = 1 THEN "sin" ELSE "zero"
BPSK(bit) == IF bit = 1 THEN "-sin" ELSE "sin"
Fault_Maximum(bit) == IF bit = 1 THEN "zero" ELSE "maximum"
LFSR(bit) == IF bit = 1 THEN "zero" ELSE "minimum"

QPSK(bits) ==
    CASE bits[4] = 0 /\ bits[0] = 0 -> "-cos"
      [] bits[4] = 0 /\ bits[0] = 1 -> "-sin"
      [] bits[4] = 1 /\ bits[0] = 0 -> "cos"
      [] OTHER                      -> "sin"

Modulate ==
    /\ ASK_sig' = ASK(sync[0])
    /\ BPSK_sig' = BPSK(sync[0])
    /\ LFSR_sig' = LFSR(sync[0])
    /\ QPSK_sig' = QPSK(sync)

-----------------------------------------------------------------------------

Init ==
    /\ SymbolInit
    /\ q1 \in [Taps -> Bit] /\ q2 \in [Taps -> Bit] /\ sync \in [Taps -> Bit]
    /\ ASK_sig = "zero" /\ BPSK_sig = "zero"
    /\ LFSR_sig = "zero" /\ QPSK_sig = "zero"
    /\ before = q1
    /\ started = 0

Cycle ==                 \* a rising edge of CLOCK_50
    /\ SymbolTick
    /\ TakeBits /\ Resolve /\ PassOn
    /\ Modulate
    /\ before' = IF Rises THEN q1 ELSE before
    /\ started' = IF Rises /\ started < 2 THEN started + 1 ELSE started

Button ==
    /\ PressReset \/ ReleaseReset
    /\ UNCHANGED <<syncVars, sigVars, before, started>>

Next == Cycle \/ Button

Spec == Init /\ [][Next]_vars /\ WF_vars(Cycle)

-----------------------------------------------------------------------------

TypeOK ==
    /\ SymbolTypeOK
    /\ q1 \in [Taps -> Bit] /\ q2 \in [Taps -> Bit] /\ sync \in [Taps -> Bit]
    /\ ASK_sig \in Waves \cup Levels /\ BPSK_sig \in Waves \cup Levels
    /\ LFSR_sig \in Waves \cup Levels /\ QPSK_sig \in Waves \cup Levels
    /\ before \in [Taps -> Bit]
    /\ started \in 0..2

\* Three cycles after a rise of the symbol clock both modulator inputs show
\* the bits that were taken with it, whichever way each of them resolved.
SettledInTime == started > 0 /\ Age >= 3 => sync = q1

\* While the two synchronizers disagree about the symbol, QPSK sends a point
\* that belongs to neither dibit: for one cycle of CLOCK_50 at the most.
Torn == started = 2 /\ QPSK_sig \notin {QPSK(q1), QPSK(before)}
TornForOneCycle == [][Torn /\ counter' # counter => ~Torn']_vars

\* Each synchronizer delivers every bit once and in order, and no other bit,
\* even when KEY[0] changes the LFSR between two edges.
Low == INSTANCE SymbolChannel
          WITH taken <- q1[0], delivered <- sync[0], started <- started = 2
High == INSTANCE SymbolChannel
          WITH taken <- q1[4], delivered <- sync[4], started <- started = 2
DeliversTheLow == Low!ChannelSpec
DeliversTheHigh == High!ChannelSpec
DeliversTheBits == DeliversTheLow /\ DeliversTheHigh

=============================================================================
