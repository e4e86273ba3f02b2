-------------------------- MODULE FskKeyingProofs --------------------------
(***************************************************************************)
(* Proofs, for every symbol length and every handler latency that the      *)
(* assumptions of FskKeying allow, that the shift register never locks up, *)
(* that no edge is lost and that every symbol is keyed in time.            *)
(***************************************************************************)
EXTENDS FskKeying, TLAPS

Armed == pc \notin {"mask", "clear"}

\* LFSR_clk is high in the first half of a period and rises only at its
\* start.  (It may power up high, before the firmware has done anything.)
ClockPhase ==
    /\ counter # 0 => (clk_out = 1 <=> counter <= Divisor \div 2)
    /\ counter = 0 /\ clk_out = 1 => pc = "mask" /\ ~clean

\* The two flip-flops of the port follow LFSR_clk one and two cycles late,
\* so an edge shows when counter is 2, and earlier only at power-up.
Pipeline ==
    /\ counter # 1 => (d1_data_in = 1 <=> counter \in 2..(Divisor \div 2 + 1))
    /\ counter = 1 /\ d1_data_in = 1 => ~Armed /\ ~clean
    /\ counter \in 3..(Divisor \div 2 + 1) => d2_data_in = 1
    /\ counter = 2 /\ clean => d2_data_in = 0

\* A latched edge is handled within the symbol that began with it.
Deadline ==
    /\ Owed => counter >= 3 /\ counter - 1 + AccessesLeft <= MaxLatency + 2
    /\ pc \in {"read", "write", "ack"} => edge_capture = 1

\* What the handler carries is the bit on the LFSR.
HandlerData ==
    /\ clean => Armed
    /\ clean /\ pc = "write" => sample = lfsr[0]
    /\ clean /\ pc = "ack" => dds_increment = Tone(lfsr[0])

IInv ==
    /\ TypeOK
    /\ LfsrNeverLocks
    /\ ClockPhase
    /\ Pipeline
    /\ Deadline
    /\ HandlerData
    /\ EdgeNotLost

-----------------------------------------------------------------------------

\* Half a period leaves the clock low for at least two cycles.
LEMMA HalfPeriod ==
    Divisor \div 2 \in Nat /\ Divisor \div 2 >= 2 /\ Divisor \div 2 + 2 <= Divisor
BY DivisorAssumption, SMT

\* A shift of a register that holds a one leaves a one in it.
LEMMA ShiftKeepsAOne ==
    ASSUME NEW l \in [Stages -> Bit], \E i \in Stages : l[i] = 1
    PROVE  /\ ShiftLfsr(l) \in [Stages -> Bit]
           /\ \E i \in Stages : ShiftLfsr(l)[i] = 1
<1>1. ShiftLfsr(l) \in [Stages -> Bit]
  BY DEF ShiftLfsr, Stages, Bit
<1>2. PICK i \in Stages : l[i] = 1
  OBVIOUS
<1>3. CASE i # 0
  <2>1. i - 1 \in Stages /\ i - 1 # 4 /\ (i - 1) + 1 = i
    BY <1>3 DEF Stages
  <2>2. ShiftLfsr(l)[i - 1] = 1
    BY <1>2, <2>1 DEF ShiftLfsr
  <2> QED BY <1>1, <2>1, <2>2
<1>4. CASE i = 0 /\ l[2] = 0
  <2>1. ShiftLfsr(l)[4] = 1
    BY <1>2, <1>4 DEF ShiftLfsr, Stages, Bit
  <2> QED BY <1>1, <2>1 DEF Stages
<1>5. CASE i = 0 /\ l[2] = 1
  <2>1. ShiftLfsr(l)[1] = 1
    BY <1>5 DEF ShiftLfsr, Stages
  <2> QED BY <1>1, <2>1 DEF Stages
<1> QED BY <1>3, <1>4, <1>5 DEF Stages, Bit

-----------------------------------------------------------------------------

LEMMA InitIInv == Init => IInv
<1> SUFFICES ASSUME Init PROVE IInv
  OBVIOUS
<1> USE DEF Init, SymbolInit, PioInit
<1>1. TypeOK
  <2>1. Seed \in [Stages -> Bit]
    BY DEF Seed, Stages, Bit
  <2>2. SymbolTypeOK
    BY <2>1, DivisorAssumption DEF SymbolTypeOK
  <2>3. PioTypeOK
    BY DEF PioTypeOK
  <2>4. pc \in Booting \cup Handling /\ sample \in Bit
    BY DEF Booting, Bit
  <2>5. dds_increment \in {0, LowTone, HighTone} /\ clean \in BOOLEAN
    OBVIOUS
  <2> QED BY <2>2, <2>3, <2>4, <2>5 DEF TypeOK
<1>2. LfsrNeverLocks
  BY DEF LfsrNeverLocks, Seed, Stages
<1>3. ClockPhase /\ Pipeline
  BY HalfPeriod DEF ClockPhase, Pipeline
<1>4. Deadline /\ HandlerData /\ EdgeNotLost
  BY DEF Deadline, HandlerData, EdgeNotLost, Owed
<1> QED BY <1>1, <1>2, <1>3, <1>4 DEF IInv

\* What one CLOCK_50 cycle does to the hardware, whatever the processor does
\* in it, as long as the firmware does not skip a step of its set-up.
LEMMA HardwareStep ==
    ASSUME IInv, NEW write \in BusWrite, Hardware(write),
           pc = "mask" => pc' \in {"mask", "clear"}
    PROVE  /\ SymbolTypeOK' /\ PioTypeOK' /\ clean' \in BOOLEAN
           /\ LfsrNeverLocks'
           /\ ClockPhase'
           /\ Pipeline'
           /\ counter # 0 => lfsr' = lfsr /\ clean' = clean
           /\ clean' /\ counter # 0 => clean
           /\ clean' => counter # 0 \/ Armed
           /\ counter' = IF counter = Divisor - 1 THEN 0 ELSE counter + 1
<1> USE DivisorAssumption, HalfPeriod
<1> DEFINE Half == Divisor \div 2
<1>1. /\ counter \in 0..(Divisor - 1) /\ clk_out \in Bit /\ rst \in Bit
      /\ lfsr \in [Stages -> Bit] /\ clean \in BOOLEAN
      /\ d1_data_in \in Bit /\ d2_data_in \in Bit
      /\ edge_capture \in Bit /\ irq_mask \in Bit
  BY DEF IInv, TypeOK, SymbolTypeOK, PioTypeOK, Bit
<1>2. /\ counter' = IF counter >= Divisor - 1 THEN 0 ELSE counter + 1
      /\ clk_out' = IF Half > counter THEN 1 ELSE 0
      /\ lfsr' = IF Rises /\ rst = 1 THEN ShiftLfsr(lfsr) ELSE lfsr
      /\ rst' = rst
      /\ d1_data_in' = clk_out /\ d2_data_in' = d1_data_in
      /\ irq_mask' = IF write = "mask" THEN 1 ELSE irq_mask
      /\ edge_capture' = IF write = "edge_cap" THEN 0
                         ELSE IF edge_detect THEN 1 ELSE edge_capture
      /\ clean' = IF Rises THEN Armed ELSE clean
  BY DEF Hardware, SymbolTick, DivideClock, ClockLfsr, PioTick, CaptureEdge, Armed
<1>3. Rises => counter = 0
  BY <1>1 DEF IInv, ClockPhase, Rises, Bit
<1>4. ShiftLfsr(lfsr) \in [Stages -> Bit] /\ \E i \in Stages : ShiftLfsr(lfsr)[i] = 1
  BY <1>1, ShiftKeepsAOne DEF IInv, LfsrNeverLocks
<1>5. SymbolTypeOK' /\ PioTypeOK' /\ clean' \in BOOLEAN
  <2>1. counter' \in 0..(Divisor - 1) /\ clk_out' \in Bit
    BY <1>1, <1>2 DEF Bit
  <2>2. lfsr' \in [Stages -> Bit] /\ rst' \in Bit
    BY <1>1, <1>2, <1>4
  <2>3. PioTypeOK'
    BY <1>1, <1>2 DEF PioTypeOK, Bit
  <2>4. clean' \in BOOLEAN
    BY <1>1, <1>2 DEF Armed
  <2> QED BY <2>1, <2>2, <2>3, <2>4 DEF SymbolTypeOK
<1>6. LfsrNeverLocks'
  BY <1>2, <1>4 DEF IInv, LfsrNeverLocks
<1>7. ClockPhase'
  BY <1>1, <1>2 DEF ClockPhase
<1>8. Pipeline'
  <2>1. counter' # 1 => (d1_data_in' = 1 <=> counter' \in 2..(Half + 1))
    BY <1>1, <1>2 DEF IInv, ClockPhase, Bit
  <2>2. counter' = 1 /\ d1_data_in' = 1 => ~Armed' /\ ~clean'
    BY <1>1, <1>2 DEF IInv, ClockPhase, Armed, Rises
  <2>3. counter' \in 3..(Half + 1) => d2_data_in' = 1
    BY <1>1, <1>2 DEF IInv, Pipeline
  <2>4. counter' = 2 /\ clean' => d2_data_in' = 0
    <3>1. SUFFICES ASSUME counter' = 2, clean' PROVE d1_data_in = 0
      BY <1>2
    <3>2. counter = 1
      BY <1>1, <1>2, <3>1
    <3>3. ~Rises
      BY <1>3, <3>2
    <3>4. clean
      BY <1>2, <3>1, <3>3
    <3> QED BY <1>1, <3>2, <3>4 DEF IInv, Pipeline, Bit
  <2> QED BY <2>1, <2>2, <2>3, <2>4 DEF Pipeline
<1>9. /\ counter # 0 => lfsr' = lfsr /\ clean' = clean
      /\ clean' /\ counter # 0 => clean
      /\ clean' => counter # 0 \/ Armed
      /\ counter' = IF counter = Divisor - 1 THEN 0 ELSE counter + 1
  BY <1>1, <1>2, <1>3 DEF IInv, HandlerData, Rises
<1> QED BY <1>5, <1>6, <1>7, <1>8, <1>9

\* A latched edge lets no cycle pass that the deadline needs.
LEMMA CaptureStep ==
    ASSUME IInv, NEW write \in {"none", "mask"}, Hardware(write),
           pc = "mask" => pc' \in {"mask", "clear"}, Armed <=> Armed'
    PROVE  /\ edge_capture = 1 => edge_capture' = 1
           /\ edge_capture = 0 /\ edge_capture' = 1 /\ Armed => counter = 2
           /\ clean /\ counter = 2 => edge_capture' = 1
<1>1. /\ d1_data_in \in Bit /\ d2_data_in \in Bit /\ edge_capture \in Bit
      /\ counter \in 0..(Divisor - 1)
  BY DEF IInv, TypeOK, SymbolTypeOK, PioTypeOK, Bit
<1>2. edge_capture' = IF edge_detect THEN 1 ELSE edge_capture
  BY DEF Hardware, PioTick, CaptureEdge
<1>3. edge_capture = 0 /\ edge_capture' = 1 /\ Armed => counter = 2
  <2>1. SUFFICES ASSUME edge_detect, Armed PROVE counter = 2
    BY <1>2
  <2>2. d1_data_in = 1 /\ d2_data_in = 0
    BY <2>1 DEF edge_detect
  <2>3. counter # 1
    BY <2>1, <2>2 DEF IInv, Pipeline
  <2>4. counter \in 2..(Divisor \div 2 + 1)
    BY <2>2, <2>3 DEF IInv, Pipeline
  <2>5. counter \notin 3..(Divisor \div 2 + 1)
    BY <2>2 DEF IInv, Pipeline
  <2> QED BY <2>4, <2>5, HalfPeriod
<1>4. clean /\ counter = 2 => edge_capture' = 1
  <2>1. SUFFICES ASSUME clean, counter = 2 PROVE edge_detect
    BY <1>2
  <2>2. d1_data_in = 1
    BY <2>1, HalfPeriod DEF IInv, Pipeline
  <2>3. d2_data_in = 0
    BY <2>1 DEF IInv, Pipeline
  <2> QED BY <2>2, <2>3 DEF edge_detect
<1> QED BY <1>2, <1>3, <1>4

\* The deadline holds after a cycle without a clear that brings the firmware
\* one access closer to the next clear, or that it can afford to wait.
LEMMA DeadlineStep ==
    ASSUME IInv, NEW write \in {"none", "mask"}, Hardware(write),
           pc = "mask" => pc' \in {"mask", "clear"}, Armed <=> Armed',
           pc \in Booting \cup Handling, pc' \in Booting \cup Handling,
           \/ AccessesLeft' = AccessesLeft - 1
           \/ AccessesLeft' = AccessesLeft /\ MayWait,
           AccessesLeft' > 0
    PROVE  Owed' => /\ counter' >= 3
                    /\ counter' - 1 + AccessesLeft' <= MaxLatency + 2
<1> USE DivisorAssumption, LatencyAssumption
<1>1. SUFFICES ASSUME edge_capture' = 1
               PROVE  /\ counter' >= 3
                      /\ counter' - 1 + AccessesLeft' <= MaxLatency + 2
  BY DEF Owed
<1>2. /\ edge_capture \in Bit /\ counter \in 0..(Divisor - 1)
      /\ counter' = IF counter = Divisor - 1 THEN 0 ELSE counter + 1
  BY HardwareStep DEF IInv, TypeOK, SymbolTypeOK, PioTypeOK, Bit, BusWrite
<1>3. AccessesLeft \in 0..5 /\ AccessesLeft' \in 0..5
  BY DEF AccessesLeft
<1>4. CASE edge_capture = 1
  <2>1. Owed
    BY <1>3, <1>4 DEF Owed
  <2>2. counter >= 3 /\ counter - 1 + AccessesLeft <= MaxLatency + 2
    BY <2>1 DEF IInv, Deadline
  <2>3. CASE AccessesLeft' = AccessesLeft - 1
    <3>1. AccessesLeft >= 2
      BY <1>3, <2>3
    <3>2. counter' = counter + 1
      BY <1>2, <1>3, <2>2, <3>1
    <3> QED BY <1>2, <1>3, <2>2, <2>3, <3>2
  <2>4. CASE AccessesLeft' = AccessesLeft /\ MayWait
    <3>1. counter - 1 + AccessesLeft < MaxLatency + 2
      BY <1>2, <2>1, <2>2, <2>4 DEF MayWait, Age
    <3>2. counter' = counter + 1
      BY <1>2, <1>3, <2>2, <2>4, <3>1
    <3> QED BY <1>2, <1>3, <2>2, <2>4, <3>1, <3>2
  <2> QED BY <2>3, <2>4
<1>5. CASE edge_capture = 0
  <2>1. AccessesLeft > 0 \/ AccessesLeft' = AccessesLeft
    BY <1>3
  <2>2. Armed
    BY <1>3 DEF Armed, AccessesLeft
  <2>3. counter = 2
    BY <1>1, <1>5, <2>2, CaptureStep
  <2>4. counter' = 3
    BY <1>2, <2>3
  <2>5. PICK left \in 0..5 : AccessesLeft' = left
    BY <1>3
  <2>6. 3 - 1 + left <= MaxLatency + 2
    OBVIOUS
  <2> QED BY <2>4, <2>5, <2>6
<1> QED BY <1>2, <1>4, <1>5 DEF Bit

\* The part of the invariant that a cycle without a clear and without a
\* new tone preserves.
LEMMA QuietStep ==
    ASSUME IInv, NEW write \in {"none", "mask"}, Hardware(write),
           pc = "mask" => pc' \in {"mask", "clear"}, Armed <=> Armed',
           dds_increment' = dds_increment
    PROVE  EdgeNotLost' /\ (clean' => Armed')
<1> USE DivisorAssumption, LatencyAssumption
<1>1. /\ edge_capture \in Bit /\ counter \in 0..(Divisor - 1)
      /\ counter' = IF counter = Divisor - 1 THEN 0 ELSE counter + 1
      /\ counter # 0 => lfsr' = lfsr
      /\ clean' /\ counter # 0 => clean
      /\ clean' => counter # 0 \/ Armed
  BY HardwareStep DEF IInv, TypeOK, SymbolTypeOK, PioTypeOK, Bit, BusWrite
<1>2. clean' => Armed'
  BY <1>1 DEF IInv, HandlerData
<1>3. EdgeNotLost'
  <2>1. SUFFICES ASSUME clean', Age' >= 2
                 PROVE  edge_capture' = 1 \/ dds_increment' = Tone(lfsr[0])'
    BY DEF EdgeNotLost, Tone
  <2>2. counter' = 0 \/ counter' >= 3
    BY <1>1, <2>1 DEF Age
  <2>3. counter >= 2 /\ clean /\ lfsr' = lfsr
    BY <1>1, <2>1, <2>2
  <2>4. CASE counter = 2
    BY <2>3, <2>4, CaptureStep
  <2>5. CASE counter > 2
    <3>1. Age >= 2
      BY <1>1, <2>5 DEF Age
    <3>2. edge_capture = 1 \/ dds_increment = Tone(lfsr[0])
      BY <2>3, <3>1 DEF IInv, EdgeNotLost
    <3> QED BY <2>3, <3>2, CaptureStep
  <2> QED BY <1>1, <2>3, <2>4, <2>5
<1> QED BY <1>2, <1>3

\* A latched edge means that LFSR_clk rose at least two cycles ago: no shift
\* happens while the handler is between its entry and its clear.
LEMMA HandlerHoldsSymbol ==
    ASSUME IInv, pc \in {"read", "write", "ack"}
    PROVE  edge_capture = 1 /\ counter >= 3
BY DEF IInv, Deadline, Owed, AccessesLeft

\* Actions that neither clear the capture register nor write a tone.
LEMMA QuietAction ==
    ASSUME IInv, NEW write \in {"none", "mask"}, Hardware(write),
           pc = "mask" => pc' \in {"mask", "clear"}, Armed <=> Armed',
           pc \in Booting \cup Handling, pc' \in Booting \cup Handling,
           dds_increment' = dds_increment, sample' \in Bit,
           \/ AccessesLeft' = AccessesLeft - 1
           \/ AccessesLeft' = AccessesLeft /\ MayWait,
           pc' \in {"read", "write", "ack"} => edge_capture = 1,
           pc' = "ack" => pc = "ack",
           pc' = "write" => \/ pc = "write" /\ sample' = sample
                            \/ pc = "read" /\ sample' = lfsr[0]
    PROVE  IInv'
<1>1. /\ SymbolTypeOK' /\ PioTypeOK' /\ clean' \in BOOLEAN
      /\ LfsrNeverLocks' /\ ClockPhase' /\ Pipeline'
      /\ counter # 0 => lfsr' = lfsr /\ clean' = clean
  BY HardwareStep DEF BusWrite
<1>2. TypeOK'
  BY <1>1 DEF IInv, TypeOK
<1>3. Deadline'
  <2>1. Owed' => AccessesLeft' > 0
    BY DEF Owed
  <2>2. Owed' => counter' >= 3 /\ counter' - 1 + AccessesLeft' <= MaxLatency + 2
    BY <2>1, DeadlineStep
  <2>3. edge_capture = 1 => edge_capture' = 1
    BY CaptureStep
  <2> QED BY <2>2, <2>3 DEF Deadline
<1>4. EdgeNotLost' /\ (clean' => Armed')
  BY QuietStep
<1>5. HandlerData'
  <2>1. ASSUME clean', pc' = "write" PROVE sample' = lfsr[0]'
    <3>1. pc \in {"read", "write"}
      BY <2>1
    <3>2. counter # 0
      BY <3>1, HandlerHoldsSymbol
    <3>3. clean /\ lfsr' = lfsr
      BY <1>1, <2>1, <3>2
    <3> QED BY <2>1, <3>3 DEF IInv, HandlerData
  <2>2. ASSUME clean', pc' = "ack" PROVE dds_increment' = Tone(lfsr[0])'
    <3>1. counter # 0
      BY <2>2, HandlerHoldsSymbol
    <3>2. clean /\ lfsr' = lfsr
      BY <1>1, <2>2, <3>1
    <3> QED BY <2>2, <3>2 DEF IInv, HandlerData, Tone
  <2> QED BY <1>4, <2>1, <2>2 DEF HandlerData
<1> QED BY <1>1, <1>2, <1>3, <1>4, <1>5 DEF IInv

LEMMA HandlerTypes ==
    ASSUME IInv
    PROVE  /\ pc \in Booting \cup Handling
           /\ sample \in Bit /\ lfsr[0] \in Bit
           /\ dds_increment \in {0, LowTone, HighTone}
BY DEF IInv, TypeOK, SymbolTypeOK, Stages

\* Each action preserves the invariant; the push button is the only one that
\* is not a cycle of the clock.
LEMMA StepIInv == IInv /\ [Next]_vars => IInv'
<1> SUFFICES ASSUME IInv, [Next]_vars PROVE IInv'
  OBVIOUS
<1> USE HandlerTypes DEF Armed, Booting, Handling, AccessesLeft
<1>1. CASE Compute
  <2>1. Hardware("none") /\ MayWait /\ UNCHANGED <<pc, sample, dds_increment>>
    BY <1>1 DEF Compute
  <2>2. pc \in {"read", "write", "ack"} => edge_capture = 1
    BY HandlerHoldsSymbol
  <2> QED BY <2>1, <2>2, QuietAction
<1>2. CASE EnableInterrupt
  <2>1. Hardware("mask") /\ pc = "mask" /\ pc' = "clear" /\ UNCHANGED <<sample, dds_increment>>
    BY <1>2 DEF EnableInterrupt
  <2>2. AccessesLeft' = AccessesLeft /\ MayWait
    BY <2>1 DEF MayWait, Owed
  <2> QED BY <2>1, <2>2, QuietAction
<1>3. CASE ClearStaleEdge
  <2>1. Hardware("edge_cap") /\ pc = "clear" /\ pc' = "register" /\ UNCHANGED <<sample, dds_increment>>
    BY <1>3 DEF ClearStaleEdge
  <2>2. /\ SymbolTypeOK' /\ PioTypeOK' /\ clean' \in BOOLEAN
        /\ LfsrNeverLocks' /\ ClockPhase' /\ Pipeline' /\ ~clean'
    BY <2>1, HardwareStep DEF BusWrite, IInv, HandlerData
  <2>3. edge_capture' = 0
    BY <2>1 DEF Hardware, PioTick, CaptureEdge
  <2> QED BY <2>1, <2>2, <2>3 DEF IInv, TypeOK, Deadline, Owed, HandlerData, EdgeNotLost
<1>4. CASE RegisterHandler
  BY <1>4, QuietAction DEF RegisterHandler
<1>5. CASE EnterHandler
  BY <1>5, QuietAction DEF EnterHandler, irq
<1>6. CASE ReadSymbol
  BY <1>6, QuietAction, HandlerHoldsSymbol DEF ReadSymbol
<1>7. CASE WriteIncrement
  <2>1. Hardware("none") /\ pc = "write" /\ pc' = "ack" /\ dds_increment' = Tone(sample) /\ sample' = sample
    BY <1>7 DEF WriteIncrement
  <2>2. edge_capture = 1 /\ counter >= 3
    BY <2>1, HandlerHoldsSymbol
  <2>3. /\ SymbolTypeOK' /\ PioTypeOK' /\ clean' \in BOOLEAN
        /\ LfsrNeverLocks' /\ ClockPhase' /\ Pipeline'
        /\ lfsr' = lfsr /\ clean' = clean
    BY <2>1, <2>2, HardwareStep DEF BusWrite
  <2>4. edge_capture' = 1
    BY <2>1, <2>2, CaptureStep
  <2>5. TypeOK'
    BY <2>1, <2>3 DEF TypeOK, Tone
  <2>6. Deadline'
    BY <2>1, <2>4, DeadlineStep DEF Deadline
  <2>7. HandlerData'
    BY <2>1, <2>3 DEF IInv, HandlerData, Tone
  <2> QED BY <2>3, <2>4, <2>5, <2>6, <2>7 DEF IInv, EdgeNotLost
<1>8. CASE ClearEdgeCapture
  <2>1. Hardware("edge_cap") /\ pc = "ack" /\ pc' = "flush" /\ UNCHANGED <<sample, dds_increment>>
    BY <1>8 DEF ClearEdgeCapture
  <2>2. counter >= 3
    BY <2>1, HandlerHoldsSymbol
  <2>3. /\ SymbolTypeOK' /\ PioTypeOK' /\ clean' \in BOOLEAN
        /\ LfsrNeverLocks' /\ ClockPhase' /\ Pipeline'
        /\ lfsr' = lfsr /\ clean' = clean
    BY <2>1, <2>2, HardwareStep DEF BusWrite
  <2>4. edge_capture' = 0
    BY <2>1 DEF Hardware, PioTick, CaptureEdge
  <2>5. clean' => dds_increment' = Tone(lfsr[0])'
    BY <2>1, <2>3 DEF IInv, HandlerData, Tone
  <2>6. TypeOK'
    BY <2>1, <2>3 DEF TypeOK
  <2> QED BY <2>1, <2>3, <2>4, <2>5, <2>6 DEF IInv, Deadline, Owed, HandlerData, EdgeNotLost
<1>9. CASE ReadBack
  BY <1>9, QuietAction DEF ReadBack
<1>10. CASE Button
  <2>1. /\ UNCHANGED <<counter, clk_out, pioVars, pc, sample, dds_increment>>
        /\ rst' \in Bit /\ (lfsr' = lfsr \/ lfsr' = Seed)
        /\ clean' \in BOOLEAN /\ (clean' => clean /\ lfsr' = lfsr)
    <3>1. CASE PressReset
      <4>1. rst' = 0 /\ lfsr' = Seed /\ UNCHANGED <<counter, clk_out, pioVars, pc, sample, dds_increment>>
        BY <1>10, <3>1 DEF Button, PressReset
      <4>2. clean' = FALSE
        <5>1. rst' # 1
          BY <4>1
        <5> QED BY <1>10, <5>1, Zenon DEF Button
      <4> QED BY <4>1, <4>2 DEF Bit
    <3>2. CASE ReleaseReset
      BY <1>10, <3>2 DEF Button, ReleaseReset, Bit, IInv, TypeOK
    <3> QED BY <1>10, <3>1, <3>2 DEF Button
  <2>2. lfsr' \in [Stages -> Bit] /\ LfsrNeverLocks'
    <3>1. Seed \in [Stages -> Bit] /\ Seed[0] = 1 /\ 0 \in Stages
      BY DEF Seed, Stages, Bit
    <3> QED BY <2>1, <3>1 DEF IInv, TypeOK, SymbolTypeOK, LfsrNeverLocks
  <2>3. TypeOK'
    BY <2>1, <2>2 DEF IInv, TypeOK, SymbolTypeOK, PioTypeOK, pioVars
  <2>4. ClockPhase' /\ Pipeline'
    BY <2>1 DEF IInv, ClockPhase, Pipeline, pioVars
  <2>5. Deadline'
    BY <2>1 DEF IInv, Deadline, Owed, pioVars
  <2>6. HandlerData'
    BY <2>1 DEF IInv, HandlerData, Tone
  <2>7. EdgeNotLost'
    BY <2>1 DEF IInv, EdgeNotLost, Tone, Age, pioVars
  <2> QED BY <2>2, <2>3, <2>4, <2>5, <2>6, <2>7 DEF IInv
<1>11. CASE UNCHANGED vars
  BY <1>11 DEF vars, clockVars, pioVars, IInv, TypeOK, SymbolTypeOK, PioTypeOK,
     LfsrNeverLocks, ClockPhase, Pipeline, Deadline, Owed, HandlerData,
     EdgeNotLost, Tone, Age
<1> QED
  BY <1>1, <1>2, <1>3, <1>4, <1>5, <1>6, <1>7, <1>8, <1>9, <1>10, <1>11
  DEF Next, Cycle, Boot, Handler

THEOREM Invariance == Spec => []IInv
BY InitIInv, StepIInv, PTL DEF Spec

\* The state of the chain keeps to its types.
THEOREM TypeCorrect == Spec => []TypeOK
BY Invariance, PTL DEF IInv

\* The LFSR never reaches the all-zero word, whenever KEY[0] is pressed.
THEOREM NeverLocks == Spec => []LfsrNeverLocks
BY Invariance, PTL DEF IInv

\* No edge of LFSR_clk is swallowed between the port and the handler.
THEOREM NoEdgeLost == Spec => []EdgeNotLost
BY Invariance, PTL DEF IInv

\* Once the handler's time is over, the tone is that of the current bit.
THEOREM Keyed == Spec => []SymbolIsKeyed
<1>1. IInv => SymbolIsKeyed
  <2> SUFFICES ASSUME IInv, clean, Age >= MaxLatency + 2
               PROVE  dds_increment = Tone(lfsr[0])
    BY DEF SymbolIsKeyed
  <2>1. counter \in 0..(Divisor - 1) /\ Age >= 2
    <3>1. counter \in 0..(Divisor - 1)
      BY DEF IInv, TypeOK, SymbolTypeOK
    <3>2. Age \in Int
      BY <3>1, DivisorAssumption DEF Age
    <3> QED BY <3>1, <3>2, LatencyAssumption
  <2>2. AccessesLeft \in 1..5
    BY HandlerTypes DEF IInv, HandlerData, Armed, AccessesLeft, Booting, Handling
  <2>3. ~Owed
    BY <2>1, <2>2, DivisorAssumption, LatencyAssumption DEF IInv, Deadline, Age
  <2>4. edge_capture # 1
    BY <2>2, <2>3 DEF Owed
  <2> QED BY <2>1, <2>4 DEF IInv, EdgeNotLost
<1> QED BY <1>1, Invariance, PTL

\* Any tone the handler sets during an undisturbed symbol is the symbol's.
THEOREM KeysCorrectly == Spec => KeysOnlyTheSymbol
<1>1. ASSUME IInv, Next, clean, dds_increment' # dds_increment
      PROVE  dds_increment' = Tone(lfsr'[0])
  <2>1. WriteIncrement
    BY <1>1 DEF Next, Cycle, Boot, Handler, Compute, EnableInterrupt, ClearStaleEdge,
       RegisterHandler, EnterHandler, ReadSymbol, ClearEdgeCapture, ReadBack, Button
  <2>2. Hardware("none") /\ pc = "write" /\ dds_increment' = Tone(sample) /\ pc' = "ack"
    BY <2>1 DEF WriteIncrement
  <2>3. lfsr' = lfsr
    <3>1. counter >= 3
      BY <1>1, <2>2, HandlerHoldsSymbol
    <3>2. counter # 0 => lfsr' = lfsr
      <4>1. IInv /\ "none" \in BusWrite /\ Hardware("none") /\ pc # "mask"
        BY <1>1, <2>2 DEF BusWrite
      <4> QED BY <4>1, HardwareStep
    <3> QED BY <1>1, <3>1, <3>2 DEF IInv, TypeOK, SymbolTypeOK
  <2> QED BY <1>1, <2>2, <2>3 DEF IInv, HandlerData
<1>2. IInv /\ [Next]_vars
        => [clean /\ dds_increment' # dds_increment
              => dds_increment' = Tone(lfsr'[0])]_vars
  BY <1>1
<1> QED BY <1>2, Invariance, PTL DEF Spec, KeysOnlyTheSymbol

=============================================================================
