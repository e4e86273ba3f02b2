-------------------------- MODULE ModulatorsProofs --------------------------
(***************************************************************************)
(* Proofs, for every symbol length that DivisorAssumption allows, that the *)
(* synchronizers settle in time, that a torn dibit lasts one cycle and     *)
(* that each synchronizer implements SymbolChannel.                        *)
(***************************************************************************)
EXTENDS Modulators, TLAPS

\* LFSR_clk is high in the first half of a period and rises only when the
\* counter is 0.  (It may power up high: then the first edge is a period late.)
ClockPhase ==
    /\ counter # 0 => (clk_out = 1 <=> counter <= Divisor \div 2)
    /\ counter = 0 /\ clk_out = 1 => started = 0

\* How far the bits have come, by the cycles since the last rise.
Pipeline ==
    /\ counter = 1 /\ started = 2 => q2 = before /\ sync = before
    /\ counter = 2 /\ started = 2 =>
         /\ \A t \in Taps : q2[t] \in {q1[t], before[t]}
         /\ sync = before
    /\ counter = 3 /\ started > 0 => q2 = q1
    /\ (counter = 0 \/ counter >= 4) /\ started > 0 => q2 = q1 /\ sync = q1

\* A torn point is on its way out: the modulator's inputs have settled.
TornSettles ==
    /\ counter \in 1..3 /\ started = 2 => QPSK_sig = QPSK(before)
    /\ Torn => sync = q1

IInv == TypeOK /\ ClockPhase /\ Pipeline /\ TornSettles

-----------------------------------------------------------------------------

\* Half a period leaves the clock low for at least two cycles.
LEMMA HalfPeriod ==
    Divisor \div 2 \in Nat /\ Divisor \div 2 >= 2 /\ Divisor \div 2 + 2 <= Divisor
BY DivisorAssumption, SMT

\* The modulators' tables yield carriers for any bits.
LEMMA Tables ==
    /\ \A b \in Bit : ASK(b) \in Waves \cup Levels /\ BPSK(b) \in Waves \cup Levels
                      /\ LFSR(b) \in Waves \cup Levels
    /\ \A bits \in [Taps -> Bit] : QPSK(bits) \in Waves \cup Levels
BY DEF ASK, BPSK, LFSR, QPSK, Waves, Levels, Bit, Taps

\* LFSR_clk rises in the cycle that finds the counter at 0 and the clock low.
LEMMA RiseAtZero == IInv => (Rises <=> counter = 0 /\ clk_out = 0)
BY HalfPeriod, DivisorAssumption DEF IInv, ClockPhase, Rises, TypeOK, SymbolTypeOK, Bit

LEMMA InitIInv == Init => IInv
<1> SUFFICES ASSUME Init PROVE IInv
  OBVIOUS
<1>1. Seed \in [Stages -> Bit]
  BY DEF Seed, Stages, Bit
<1>2. TypeOK
  BY <1>1, DivisorAssumption DEF Init, SymbolInit, TypeOK, SymbolTypeOK, Waves, Levels
<1>3. ClockPhase /\ Pipeline /\ TornSettles
  BY DEF Init, SymbolInit, ClockPhase, Pipeline, TornSettles, Torn
<1> QED BY <1>2, <1>3 DEF IInv

\* A shift keeps the register's type.
LEMMA ShiftType == \A l \in [Stages -> Bit] : ShiftLfsr(l) \in [Stages -> Bit]
BY DEF ShiftLfsr, Stages, Bit

LEMMA CycleType == IInv /\ Cycle => TypeOK'
<1> SUFFICES ASSUME IInv, Cycle PROVE TypeOK'
  OBVIOUS
<1> USE DEF IInv, TypeOK, Cycle
<1>1. SymbolTypeOK'
  BY ShiftType, DivisorAssumption
     DEF SymbolTypeOK, SymbolTick, DivideClock, ClockLfsr, Bit
<1>2. q1' \in [Taps -> Bit] /\ sync' \in [Taps -> Bit]
  BY DEF TakeBits, PassOn, SymbolTypeOK, Taps, Stages
<1>3. q2' \in [Taps -> Bit]
  BY DEF Resolve
<1>4. /\ ASK_sig' \in Waves \cup Levels /\ BPSK_sig' \in Waves \cup Levels
      /\ LFSR_sig' \in Waves \cup Levels /\ QPSK_sig' \in Waves \cup Levels
  <2>1. sync[0] \in Bit
    BY DEF Taps
  <2> QED BY <2>1, Tables DEF Modulate
<1>5. before' \in [Taps -> Bit] /\ started' \in 0..2
  OBVIOUS
<1> QED BY <1>1, <1>2, <1>3, <1>4, <1>5

\* What a cycle does to the flip-flops, as equations between functions.
LEMMA CycleSteps ==
    ASSUME IInv, Cycle
    PROVE  /\ counter' = IF counter >= Divisor - 1 THEN 0 ELSE counter + 1
           /\ counter # 1 => q2' = q1
           /\ \A t \in Taps : q2'[t] \in {q1[t], q2[t]}
           /\ sync' = q2
           /\ QPSK_sig' = QPSK(sync)
           /\ ~Rises => q1' = q1 /\ before' = before /\ started' = started
           /\ Rises => before' = q1 /\ started' \in {1, 2} /\ (started > 0 => started' = 2)
<1>1. counter \in 0..(Divisor - 1) /\ started \in 0..2
  BY DEF IInv, TypeOK, SymbolTypeOK
<1>2. PICK late \in SUBSET Taps :
         /\ late # {} => Unsettled
         /\ q2' = [t \in Taps |-> IF t \in late THEN q2[t] ELSE q1[t]]
  BY DEF Cycle, Resolve
<1>3. counter # 1 => q2' = q1
  <2> SUFFICES ASSUME counter # 1 PROVE q2' = q1
    OBVIOUS
  <2>1. ~Unsettled
    BY <1>1, DivisorAssumption DEF Unsettled, Age
  <2>2. q2' = [t \in Taps |-> q1[t]]
    BY <1>2, <2>1
  <2> QED BY <2>2 DEF IInv, TypeOK
<1>4. \A t \in Taps : q2'[t] \in {q1[t], q2[t]}
  BY <1>2
<1>5. /\ counter' = IF counter >= Divisor - 1 THEN 0 ELSE counter + 1
      /\ sync' = q2 /\ QPSK_sig' = QPSK(sync)
  BY DEF Cycle, SymbolTick, DivideClock, PassOn, Modulate
<1>6. ~Rises => q1' = q1 /\ before' = before /\ started' = started
  BY DEF Cycle, TakeBits
<1>7. Rises => before' = q1 /\ started' \in {1, 2} /\ (started > 0 => started' = 2)
  BY <1>1 DEF Cycle
<1> QED BY <1>3, <1>4, <1>5, <1>6, <1>7

LEMMA CyclePhase == IInv /\ Cycle => ClockPhase'
<1> SUFFICES ASSUME IInv, Cycle PROVE ClockPhase'
  OBVIOUS
<1>1. /\ counter \in 0..(Divisor - 1) /\ clk_out \in {0, 1} /\ started \in 0..2
      /\ counter' = IF counter >= Divisor - 1 THEN 0 ELSE counter + 1
      /\ clk_out' = IF Divisor \div 2 > counter THEN 1 ELSE 0
  BY DEF IInv, TypeOK, SymbolTypeOK, Bit, Cycle, SymbolTick, DivideClock
<1>2. counter' # 0 => (clk_out' = 1 <=> counter' <= Divisor \div 2)
  BY <1>1, HalfPeriod, DivisorAssumption
<1>3. counter' = 0 => clk_out' = 0
  BY <1>1, HalfPeriod, DivisorAssumption
<1> QED BY <1>2, <1>3 DEF ClockPhase

LEMMA CyclePipeline == IInv /\ Cycle => Pipeline' /\ TornSettles'
<1> SUFFICES ASSUME IInv, Cycle PROVE Pipeline' /\ TornSettles'
  OBVIOUS
<1>t. /\ counter \in 0..(Divisor - 1) /\ started \in 0..2 /\ clk_out \in {0, 1}
      /\ counter' = IF counter >= Divisor - 1 THEN 0 ELSE counter + 1
  BY CycleSteps DEF IInv, TypeOK, SymbolTypeOK, Bit
<1>r. Rises <=> counter = 0 /\ clk_out = 0
  BY RiseAtZero
<1>1. CASE Rises
  <2>1. counter = 0 /\ counter' = 1
    BY <1>1, <1>r, <1>t, DivisorAssumption
  <2>2. started' = 2 => started > 0
    BY <1>1, <1>t DEF Cycle
  <2>3. started > 0 => q2' = before' /\ sync' = before' /\ QPSK_sig' = QPSK(before')
    BY <1>1, <2>1, CycleSteps DEF IInv, Pipeline
  <2>4. started' = 2 => ~Torn'
    BY <2>2, <2>3 DEF Torn
  <2> QED BY <2>1, <2>2, <2>3, <2>4 DEF Pipeline, TornSettles, Torn
<1>2. CASE ~Rises
  <2>1. q1' = q1 /\ before' = before /\ started' = started /\ sync' = q2
        /\ QPSK_sig' = QPSK(sync)
    BY <1>2, CycleSteps
  <2>2. CASE started = 0
    BY <2>1, <2>2 DEF Pipeline, TornSettles, Torn
  <2>3. CASE started > 0 /\ counter = 1
    <3>1. counter' = 2
      BY <2>3, <1>t, DivisorAssumption
    <3>2. started = 2 => q2 = before /\ sync = before
      BY <2>3 DEF IInv, Pipeline
    <3>3. started = 2 => \A t \in Taps : q2'[t] \in {q1[t], before[t]}
      BY <3>2, CycleSteps
    <3>4. started = 2 => QPSK_sig' = QPSK(before) /\ sync' = before
      BY <3>2, <2>1
    <3> QED BY <2>1, <3>1, <3>3, <3>4 DEF Pipeline, TornSettles, Torn
  <2>4. CASE started > 0 /\ counter = 2
    <3>1. counter' = 3
      BY <2>4, <1>t, DivisorAssumption
    <3>2. q2' = q1
      BY <2>4, CycleSteps
    <3>3. started = 2 => QPSK_sig' = QPSK(before)
      BY <2>4, <2>1 DEF IInv, Pipeline
    <3> QED BY <2>1, <3>1, <3>2, <3>3 DEF Pipeline, TornSettles, Torn
  <2>5. CASE started > 0 /\ counter \notin {1, 2}
    <3>1. q2 = q1
      BY <2>5, <1>t DEF IInv, Pipeline
    <3>2. q2' = q1 /\ sync' = q1
      BY <2>5, <2>1, <3>1, CycleSteps
    <3>3. counter # 0
      BY <2>5, <1>2, <1>r, <1>t DEF IInv, ClockPhase
    <3>4. counter' \notin 1..3
      BY <2>5, <3>3, <1>t, DivisorAssumption
    <3> QED BY <2>1, <3>2, <3>4 DEF Pipeline, TornSettles, Torn
  <2> QED BY <1>t, <2>2, <2>3, <2>4, <2>5
<1> QED BY <1>1, <1>2

LEMMA StepIInv == IInv /\ [Next]_vars => IInv'
<1> SUFFICES ASSUME IInv, [Next]_vars PROVE IInv'
  OBVIOUS
<1>1. CASE Cycle
  BY <1>1, CycleType, CyclePhase, CyclePipeline DEF IInv
<1>2. CASE Button
  <2>1. lfsr' \in [Stages -> Bit] /\ rst' \in Bit /\ UNCHANGED <<counter, clk_out>>
    BY <1>2 DEF Button, PressReset, ReleaseReset, Seed, IInv, TypeOK, SymbolTypeOK,
                Stages, Bit
  <2>2. UNCHANGED <<q1, q2, sync, ASK_sig, BPSK_sig, LFSR_sig, QPSK_sig, before, started>>
    BY <1>2 DEF Button, syncVars, sigVars
  <2> QED BY <2>1, <2>2 DEF IInv, TypeOK, SymbolTypeOK, ClockPhase, Pipeline,
                           TornSettles, Torn
<1>3. CASE UNCHANGED vars
  BY <1>3 DEF vars, clockVars, syncVars, sigVars, IInv, TypeOK, SymbolTypeOK, ClockPhase,
              Pipeline, TornSettles, Torn
<1> QED BY <1>1, <1>2, <1>3 DEF Next

LEMMA Invariance == Spec => []IInv
BY InitIInv, StepIInv, PTL DEF Spec

-----------------------------------------------------------------------------

\* The synchronizers and modulators keep to their types.
THEOREM TypeCorrect == Spec => []TypeOK
<1>1. IInv => TypeOK
  BY DEF IInv
<1> QED BY <1>1, Invariance, PTL

\* Both modulator inputs have settled three cycles after a rise of LFSR_clk,
\* whatever each synchronizer's first CLOCK_50 flip-flop made of it.
THEOREM Settled == Spec => []SettledInTime
<1>1. IInv => SettledInTime
  BY DivisorAssumption
     DEF IInv, TypeOK, SymbolTypeOK, Pipeline, SettledInTime, Age
<1> QED BY <1>1, Invariance, PTL

\* QPSK sends a point of neither dibit for one CLOCK_50 cycle at the most.
THEOREM TornBriefly == Spec => TornForOneCycle
<1>1. IInv /\ [Next]_vars => [Torn /\ counter' # counter => ~Torn']_vars
  <2> SUFFICES ASSUME IInv, Next, Torn, counter' # counter PROVE ~Torn'
    BY DEF vars
  <2>1. Cycle
    BY DEF Next, Button, PressReset, ReleaseReset
  <2>2. sync = q1
    BY DEF IInv, TornSettles
  <2>3. QPSK_sig' = QPSK(q1)
    BY <2>1, <2>2, CycleSteps
  <2>4. q1' = q1 \/ before' = q1
    BY <2>1, CycleSteps
  <2> QED BY <2>3, <2>4 DEF Torn
<1> QED BY <1>1, Invariance, PTL DEF Spec, TornForOneCycle

-----------------------------------------------------------------------------

\* The flip-flop before the output holds the bit taken or the one shown.
LEMMA NothingElseOnTheWay ==
    IInv /\ started = 2 => \A t \in Taps : q2[t] \in {q1[t], sync[t]}
<1> SUFFICES ASSUME IInv, started = 2, NEW t \in Taps PROVE q2[t] \in {q1[t], sync[t]}
  OBVIOUS
<1>1. counter \in 0..(Divisor - 1)
  BY DEF IInv, TypeOK, SymbolTypeOK
<1>2. counter \in {1, 2} \/ q2 = q1
  BY <1>1 DEF IInv, Pipeline
<1> QED BY <1>2 DEF IInv, Pipeline

\* A step of the chain is a step of the channel of either tap, or none.
LEMMA ChannelStep ==
    ASSUME IInv, [Next]_vars, NEW t \in Taps
    PROVE  \/ started = 2 /\ sync[t] = q1[t] /\ q1'[t] \in {0, 1}
              /\ sync'[t] = sync[t] /\ started' = 2
           \/ sync'[t] = q1[t] /\ q1'[t] = q1[t] /\ started' = started
           \/ started # 2 /\ q1'[t] \in {0, 1} /\ sync'[t] \in {0, 1}
           \/ q1'[t] = q1[t] /\ sync'[t] = sync[t] /\ started' = started
<1>1. TypeOK'
  BY StepIInv DEF IInv
<1>2. q1'[t] \in {0, 1} /\ sync'[t] \in {0, 1}
  BY <1>1 DEF TypeOK, Bit
<1>3. CASE started # 2
  BY <1>2, <1>3
<1>4. CASE started = 2 /\ Cycle /\ Rises
  <2>1. counter = 0
    BY <1>4, RiseAtZero
  <2>2. q2 = q1 /\ sync = q1
    BY <1>4, <2>1 DEF IInv, Pipeline
  <2>3. sync' = q2 /\ started' = 2
    BY <1>4, CycleSteps
  <2> QED BY <1>2, <1>4, <2>2, <2>3
<1>5. CASE started = 2 /\ Cycle /\ ~Rises
  <2>1. q1' = q1 /\ started' = started /\ sync' = q2
    BY <1>5, CycleSteps
  <2>2. q2[t] \in {q1[t], sync[t]}
    BY <1>5, NothingElseOnTheWay
  <2> QED BY <2>1, <2>2
<1>6. CASE Button \/ UNCHANGED vars
  BY <1>6 DEF Button, vars, syncVars
<1> QED BY <1>3, <1>4, <1>5, <1>6 DEF Next

\* The synchronizer of lfsr[0] delivers each bit once and in order.
LEMMA LowImplementsChannel == Spec => DeliversTheLow
<1>1. Init => Low!ChannelInit
  BY DEF Init, Low!ChannelInit, Taps, Bit
<1>2. IInv /\ [Next]_vars
        => [Low!Take \/ Low!Deliver \/ Low!PowerUp]_(Low!channelVars)
  <2> SUFFICES ASSUME IInv, [Next]_vars
               PROVE  [Low!Take \/ Low!Deliver \/ Low!PowerUp]_(Low!channelVars)
    OBVIOUS
  <2>1. 0 \in Taps
    BY DEF Taps
  <2> QED BY <2>1, ChannelStep DEF Low!Take, Low!Deliver, Low!PowerUp, Low!channelVars
<1> QED BY <1>1, <1>2, Invariance, PTL DEF Spec, DeliversTheLow, Low!ChannelSpec

\* The synchronizer of lfsr[4] delivers each bit once and in order.
LEMMA HighImplementsChannel == Spec => DeliversTheHigh
<1>1. Init => High!ChannelInit
  BY DEF Init, High!ChannelInit, Taps, Bit
<1>2. IInv /\ [Next]_vars
        => [High!Take \/ High!Deliver \/ High!PowerUp]_(High!channelVars)
  <2> SUFFICES ASSUME IInv, [Next]_vars
               PROVE  [High!Take \/ High!Deliver \/ High!PowerUp]_(High!channelVars)
    OBVIOUS
  <2>1. 4 \in Taps
    BY DEF Taps
  <2> QED BY <2>1, ChannelStep DEF High!Take, High!Deliver, High!PowerUp, High!channelVars
<1> QED BY <1>1, <1>2, Invariance, PTL DEF Spec, DeliversTheHigh, High!ChannelSpec

\* Both synchronizers implement SymbolChannel: no bit is lost, repeated or made
\* up, whichever way the flip-flops resolve and whenever KEY[0] is pressed.
THEOREM SynchronizersImplementChannel == Spec => DeliversTheBits
BY LowImplementsChannel, HighImplementsChannel, PTL DEF DeliversTheBits

=============================================================================
