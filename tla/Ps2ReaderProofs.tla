-------------------------- MODULE Ps2ReaderProofs --------------------------
(***************************************************************************)
(* Proofs about Ps2Reader for every length of the debouncer and of a       *)
(* frame, and every keyboard whose clock bounces for less than that        *)
(* length: the registers keep their widths, and every step of the reader   *)
(* is a step of ByteChannel or none.                                       *)
(***************************************************************************)
EXTENDS Ps2Reader, TLAPS, SequenceTheorems, FiniteSetTheorems

\* The sample in buffer[n] was taken n cycles ago: at the present level of the
\* clock, past its bouncing; or at the level before.
BufferInv ==
    \A n \in 1..Taps :
      /\ n <= age - Bounce => PS2_CLK_buffer[n] = clk
      /\ n > age => PS2_CLK_buffer[n] = 1 - clk

\* The debounced clock follows once in each level, after the bouncing.
DebouncedInv ==
    /\ age <= Taps => PS2_CLK_debounced = 1 - clk
    /\ age > Taps + Bounce => PS2_CLK_debounced = clk
    /\ age > Taps + Bounce + 1 => PS2_CLK_debounced_prev = clk
    /\ PS2_CLK_debounced = 1 - clk => PS2_CLK_debounced_prev = 1 - clk

Passed == clk = 1 /\ PS2_CLK_debounced_prev = 1
Taken == IF Passed THEN bit + 1 ELSE bit     \* bits of the frame taken in

Idle == ~ReadingChar /\ BitCntr = 0 /\ ~unread

\* With every rising edge one more bit of the frame is in the shift register.
FrameInv ==
    \/ Taken \in {Stop, Stop + 1} /\ Idle
    \/ Taken = 0 /\ ~ReadingChar /\ BitCntr = 0 /\ unread
    \/ /\ Taken \in 1..Stop /\ ReadingChar /\ BitCntr = Taken - 1 /\ unread
       /\ \A j \in 1..BitCntr : ShiftIn[Bits + 1 - BitCntr + j] = Level(j)

IInv == TypeOK /\ BufferInv /\ DebouncedInv /\ FrameInv

-----------------------------------------------------------------------------
(* The two shift registers *)

Pushed(x, s, n) == <<x>> \o SubSeq(s, 1, n - 1)
Pulled(s, x) == Append(Tail(s), x)

\* A sample enters the clock's register at the front and moves the rest on.
LEMMA ShiftedIn ==
  ASSUME NEW n \in Nat \ {0}, NEW s \in [1..n -> 0..1], NEW x \in 0..1
  PROVE  /\ Pushed(x, s, n) \in [1..n -> 0..1]
         /\ Pushed(x, s, n)[1] = x
         /\ \A i \in 2..n : Pushed(x, s, n)[i] = s[i - 1]
PROOF
<1> DEFINE t == Pushed(x, s, n)
<1> DEFINE r == SubSeq(s, 1, n - 1)
<1>1. /\ r \in Seq(0..1)
      /\ Len(r) = n - 1
      /\ \A i \in 1..n - 1 : r[i] = s[i]
  <2>1. \A i \in 1..n - 1 : s[i] \in 0..1
    OBVIOUS
  <2>2. /\ r \in Seq(0..1)
        /\ Len(r) = IF 1 <= n - 1 THEN n - 1 - 1 + 1 ELSE 0
        /\ \A i \in 1..n - 1 - 1 + 1 : r[i] = s[1 + i - 1]
    BY <2>1, SubSeqProperties
  <2> HIDE DEF r
  <2> QED
    BY <2>2
<1>2. <<x>> \in Seq(0..1) /\ Len(<<x>>) = 1 /\ <<x>>[1] = x
  OBVIOUS
<1>3. /\ t \in Seq(0..1)
      /\ Len(t) = 1 + Len(r)
      /\ \A i \in 1..1 + Len(r) : t[i] = IF i <= 1 THEN <<x>>[i] ELSE r[i - 1]
  <2>1. t = <<x>> \o r
    BY DEF Pushed
  <2> HIDE DEF r, t
  <2> QED
    BY <1>1, <1>2, <2>1, ConcatProperties
<1> HIDE DEF r, t
<1>4. t \in [1..n -> 0..1]
  <2>1. Len(t) = n
    BY <1>1, <1>3
  <2> QED
    BY <1>3, <2>1, LenProperties
<1>5. t[1] = x
  BY <1>1, <1>2, <1>3
<1>6. ASSUME NEW i \in 2..n PROVE t[i] = s[i - 1]
  <2>1. t[i] = r[i - 1] /\ i - 1 \in 1..n - 1
    BY <1>1, <1>3
  <2> QED
    BY <2>1, <1>1
<1> QED
  BY <1>4, <1>5, <1>6 DEF t

\* A bit of the frame enters its register at the back.
LEMMA ShiftedOut ==
  ASSUME NEW n \in Nat \ {0}, NEW s \in [1..n -> 0..1], NEW x \in 0..1
  PROVE  /\ Pulled(s, x) \in [1..n -> 0..1]
         /\ Pulled(s, x)[n] = x
         /\ \A i \in 1..n - 1 : Pulled(s, x)[i] = s[i + 1]
PROOF
<1> DEFINE t == Pulled(s, x)
<1> DEFINE r == Tail(s)
<1>1. s \in Seq(0..1) /\ Len(s) = n /\ s # <<>>
  OBVIOUS
<1>2. /\ r \in Seq(0..1)
      /\ Len(r) = n - 1
      /\ \A i \in 1..n - 1 : r[i] = s[i + 1]
  BY <1>1, HeadTailProperties
<1> HIDE DEF r
<1>3. /\ t \in Seq(0..1)
      /\ Len(t) = n
      /\ \A i \in 1..n - 1 : t[i] = r[i]
      /\ t[n] = x
  <2>1. t = Append(r, x)
    BY DEF Pulled, r
  <2> HIDE DEF t
  <2> QED
    BY <1>2, <2>1, AppendProperties
<1> HIDE DEF t
<1>4. t \in [1..n -> 0..1]
  BY <1>3, LenProperties
<1> QED
  BY <1>2, <1>3, <1>4 DEF t

\* Every bit of a frame is a level.
LEMMA Levels ==
  ASSUME Ps2Assumption, TypeOK, NEW n \in 0..Stop
  PROVE  Level(n) \in 0..1
PROOF
<1> DEFINE ones == {i \in 1..Bits : word[i] = 1}
<1>1. Cardinality(ones) \in Nat
  <2>1. IsFiniteSet(1..Bits)
    BY FS_Interval DEF Ps2Assumption
  <2> QED
    BY <2>1, FS_Subset, FS_CardinalityType
<1>2. Parity(word) \in 0..1
  <2> HIDE DEF ones
  <2>1. (1 + Cardinality(ones)) % 2 \in 0..1
    BY <1>1
  <2> QED
    BY <2>1 DEF Parity, ones
<1> QED
  BY <1>2 DEF Level, Stop, TypeOK, Words, Ps2Assumption

-----------------------------------------------------------------------------
(* One cycle of the clock *)

\* The reader takes a sample in every cycle; the keyboard's clock stays at its
\* level or leaves it when it has lasted Long cycles.
LEMMA Cycle ==
  ASSUME TypeOK, Next
  PROVE  /\ Sample
         /\ \/ clk' = clk /\ age' = IF age < Long THEN age + 1 ELSE Long
            \/ clk' = 1 - clk /\ age = Long /\ age' = 0
BY DEF TypeOK, Next, Same, Rise, Fall, Start

\* The edge is seen before the data bit can change.
LEMMA SeenInTime ==
  ASSUME Ps2Assumption, IInv, PS2_CLK_POSEDGE
  PROVE  clk = 1 /\ age < Hold /\ age < Long /\ DataLine = {Level(bit)}
BY DEF Ps2Assumption, IInv, TypeOK, DebouncedInv, PS2_CLK_POSEDGE, DataLine

\* The lines carry levels.
LEMMA Lines ==
  ASSUME Ps2Assumption, TypeOK
  PROVE  ClockLine \subseteq 0..1 /\ DataLine \subseteq 0..1
<1>1. Level(bit) \in 0..1
  BY Levels DEF TypeOK
<1> QED
  BY <1>1 DEF ClockLine, DataLine, TypeOK

LEMMA BufferStep ==
  ASSUME Ps2Assumption, IInv, Next
  PROVE  PS2_CLK_buffer' \in [1..Taps -> 0..1] /\ BufferInv'
PROOF
<1>1. PICK line \in ClockLine :
        PS2_CLK_buffer' = Pushed(line, PS2_CLK_buffer, Taps)
  BY Cycle DEF IInv, Sample, Clock, Debounce, Pushed
<1>2. line \in 0..1
  BY <1>1, Lines DEF IInv
<1>3. /\ PS2_CLK_buffer' \in [1..Taps -> 0..1]
      /\ PS2_CLK_buffer'[1] = line
      /\ \A i \in 2..Taps : PS2_CLK_buffer'[i] = PS2_CLK_buffer[i - 1]
  <2>1. Taps \in Nat \ {0} /\ PS2_CLK_buffer \in [1..Taps -> 0..1]
    BY DEF Ps2Assumption, IInv, TypeOK
  <2> QED
    BY <1>1, <1>2, <2>1, ShiftedIn
<1>4. age >= Bounce => line = clk
  BY <1>1 DEF Ps2Assumption, IInv, TypeOK, ClockLine
<1>5. ASSUME NEW n \in 1..Taps
      PROVE  /\ n <= age' - Bounce => PS2_CLK_buffer'[n] = clk'
             /\ n > age' => PS2_CLK_buffer'[n] = 1 - clk'
  <2>1. CASE n = 1
    BY <1>3, <1>4, <2>1, Cycle DEF Ps2Assumption, IInv, TypeOK
  <2>2. CASE n > 1
    <3>1. n - 1 \in 1..Taps /\ PS2_CLK_buffer'[n] = PS2_CLK_buffer[n - 1]
      BY <1>3, <2>2
    <3>2. /\ n - 1 <= age - Bounce => PS2_CLK_buffer[n - 1] = clk
          /\ n - 1 > age => PS2_CLK_buffer[n - 1] = 1 - clk
      BY <3>1 DEF IInv, BufferInv
    <3> QED
      BY <3>1, <3>2, Cycle DEF Ps2Assumption, IInv, TypeOK
  <2> QED
    BY <2>1, <2>2
<1> QED
  BY <1>3, <1>5 DEF BufferInv

\* Until the oldest sample is of this level the buffer cannot be constant at
\* it; then the newest is of this level too, and it cannot be at the other.
LEMMA DebouncedStep ==
  ASSUME Ps2Assumption, IInv, Next
  PROVE  /\ PS2_CLK_debounced' \in 0..1
         /\ PS2_CLK_debounced_prev' = PS2_CLK_debounced
         /\ DebouncedInv'
PROOF
<1>1. /\ PS2_CLK_debounced' = IF Constant(1) THEN 1
                              ELSE IF Constant(0) THEN 0
                              ELSE PS2_CLK_debounced
      /\ PS2_CLK_debounced_prev' = PS2_CLK_debounced
  BY Cycle DEF IInv, Sample, Clock, Debounce
<1>2. age < Taps => ~Constant(clk)
  <2>1. Taps \in 1..Taps
    BY DEF Ps2Assumption
  <2> QED
    BY <2>1 DEF IInv, TypeOK, BufferInv, Constant, Ps2Assumption
<1>3. age >= Taps => ~Constant(1 - clk)
  <2>1. 1 \in 1..Taps
    BY DEF Ps2Assumption
  <2> QED
    BY <2>1 DEF IInv, TypeOK, BufferInv, Constant, Ps2Assumption
<1>4. age >= Taps + Bounce => Constant(clk)
  BY DEF IInv, TypeOK, BufferInv, Constant, Ps2Assumption
<1>5. /\ age < Taps => PS2_CLK_debounced' = 1 - clk
      /\ age >= Taps + Bounce => PS2_CLK_debounced' = clk
      /\ PS2_CLK_debounced = clk => PS2_CLK_debounced' = clk
  <2>1. clk \in {0, 1} /\ PS2_CLK_debounced \in {0, 1}
    BY DEF IInv, TypeOK
  <2>2. CASE age < Taps
    <3>1. PS2_CLK_debounced = 1 - clk
      BY <2>2 DEF IInv, TypeOK, DebouncedInv, Ps2Assumption
    <3> QED
      BY <1>1, <1>2, <2>1, <2>2, <3>1 DEF IInv, TypeOK, Ps2Assumption
  <2>3. CASE age >= Taps
    BY <1>1, <1>3, <1>4, <2>1, <2>3 DEF IInv, TypeOK, Ps2Assumption
  <2> QED
    BY <2>2, <2>3 DEF IInv, TypeOK, Ps2Assumption
<1>6. DebouncedInv'
  <2>1. PS2_CLK_debounced' \in 0..1
    BY <1>1 DEF IInv, TypeOK
  <2>2. CASE clk' = clk /\ age' = IF age < Long THEN age + 1 ELSE Long
    BY <1>1, <1>5, <2>1, <2>2 DEF IInv, TypeOK, DebouncedInv, Ps2Assumption
  <2>3. CASE clk' = 1 - clk /\ age = Long /\ age' = 0
    BY <1>1, <1>5, <2>1, <2>3 DEF IInv, TypeOK, DebouncedInv, Ps2Assumption
  <2> QED
    BY <2>2, <2>3, Cycle DEF IInv
<1> QED
  BY <1>1, <1>6 DEF IInv, TypeOK

-----------------------------------------------------------------------------
(* The frame *)

\* No edge in this cycle: the frame's registers keep still, and so does the
\* number of bits taken in, whatever the keyboard does but begin a new frame.
LEMMA NoEdge ==
  ASSUME Ps2Assumption, IInv, Next, ~PS2_CLK_POSEDGE
  PROVE  /\ UNCHANGED frame
         /\ oScanReady' = FALSE
         /\ \/ Start /\ Taken = Stop + 1 /\ Taken' = 0
            \/ Taken' = Taken /\ UNCHANGED <<word, unread>>
PROOF
<1>1. UNCHANGED frame /\ oScanReady' = FALSE
  BY Cycle, Zenon DEF IInv, Sample, Clock, Assemble, Ready, LastEdge
<1>2. PS2_CLK_debounced_prev' = PS2_CLK_debounced
  BY DebouncedStep
<1>3. PS2_CLK_debounced_prev = 1 => PS2_CLK_debounced = 1 \/ clk = 0
  BY DEF IInv, TypeOK, DebouncedInv
<1>4. age = Long => PS2_CLK_debounced = clk /\ PS2_CLK_debounced_prev = clk
  BY DEF Ps2Assumption, IInv, TypeOK, DebouncedInv
<1>5. Reported => unread' = unread
  BY <1>1 DEF Reported, IInv, TypeOK
<1>6. CASE Same
  <2>1. clk' = clk /\ bit' = bit /\ word' = word
    BY <1>6 DEF Same
  <2>2. Passed' <=> Passed
    BY <1>2, <1>3, <2>1 DEF Passed, IInv, TypeOK, PS2_CLK_POSEDGE
  <2> QED
    BY <1>1, <1>5, <1>6, <2>1, <2>2 DEF Same, Taken
<1>7. CASE Rise
  BY <1>1, <1>2, <1>4, <1>5, <1>7 DEF Rise, Taken, Passed
<1>8. CASE Fall
  BY <1>1, <1>2, <1>4, <1>5, <1>8 DEF Fall, Taken, Passed
<1>9. CASE Start
  <2>1. Taken = Stop + 1 /\ Taken' = 0
    BY <1>2, <1>4, <1>9 DEF Start, Taken, Passed
  <2> QED
    BY <1>1, <1>9, <2>1
<1> QED
  BY <1>6, <1>7, <1>8, <1>9 DEF Next

\* An edge: the keyboard stands still, and its bit is taken in.
LEMMA Edge ==
  ASSUME Ps2Assumption, IInv, Next, PS2_CLK_POSEDGE
  PROVE  /\ Assemble(Level(bit))
         /\ oScanReady' = LastEdge
         /\ UNCHANGED <<bit, word>>
         /\ unread' = (unread /\ ~LastEdge)
         /\ Taken = bit /\ Taken' = bit + 1
PROOF
<1>1. Assemble(Level(bit)) /\ oScanReady' = LastEdge
  BY SeenInTime, Cycle DEF IInv, Sample, Clock, Ready
<1>2. Same
  BY SeenInTime DEF Next, Rise, Fall, Start, Ps2Assumption
<1>3. UNCHANGED <<clk, bit, word>> /\ unread' = (unread /\ ~LastEdge)
  BY <1>1, <1>2 DEF Same, Reported
<1>4. PS2_CLK_debounced_prev' = 1
  BY DebouncedStep DEF PS2_CLK_POSEDGE
<1> QED
  BY <1>1, <1>3, <1>4, SeenInTime DEF Taken, Passed, PS2_CLK_POSEDGE

FrameTypes ==
    /\ ReadingChar \in BOOLEAN /\ BitCntr \in 0..(Bits + 1)
    /\ ShiftIn \in [1..Bits + 1 -> 0..1]
    /\ oScanReady \in BOOLEAN /\ oScanByte \in Words
    /\ unread \in BOOLEAN

\* The last edge of a frame finds the whole of it in the register.
LEMMA WholeFrame ==
  ASSUME Ps2Assumption, IInv, LastEdge
  PROVE  unread /\ Taken = Stop /\ [n \in 1..Bits |-> ShiftIn[n]] = word
PROOF
<1>1. /\ Taken = Stop /\ unread
      /\ \A j \in 1..BitCntr : ShiftIn[Bits + 1 - BitCntr + j] = Level(j)
  BY DEF LastEdge, IInv, TypeOK, FrameInv, Idle, Ps2Assumption, Stop
<1>2. ASSUME NEW n \in 1..Bits PROVE ShiftIn[n] = word[n]
  <2>1. n \in 1..BitCntr /\ Bits + 1 - BitCntr + n = n
    BY DEF LastEdge, Ps2Assumption
  <2>2. Level(n) = word[n]
    BY DEF Level, Ps2Assumption
  <2> QED
    BY <1>1, <2>1, <2>2
<1> QED
  BY <1>1, <1>2 DEF IInv, TypeOK, Words

LEMMA FrameStep ==
  ASSUME Ps2Assumption, IInv, Next
  PROVE  FrameTypes' /\ FrameInv'
PROOF
<1>1. CASE ~PS2_CLK_POSEDGE
  <2>1. /\ UNCHANGED <<ReadingChar, BitCntr, ShiftIn, oScanByte>>
        /\ oScanReady' = FALSE
    BY <1>1, NoEdge DEF frame
  <2>2. CASE Start /\ Taken = Stop + 1 /\ Taken' = 0
    <3>1. unread' = TRUE
      BY <2>2 DEF Start
    <3>2. Idle
      BY <2>2 DEF IInv, FrameInv, Stop, Ps2Assumption
    <3> QED
      BY <2>1, <2>2, <3>1, <3>2 DEF Idle, FrameTypes, FrameInv, IInv, TypeOK
  <2>3. CASE Taken' = Taken /\ UNCHANGED <<word, unread>>
    <3>1. \A j \in 1..BitCntr : Level(j)' = Level(j)
      BY <2>3 DEF Level, Parity
    <3>2. FrameInv'
      <4>1. Idle' <=> Idle
        BY <2>1, <2>3 DEF Idle
      <4> QED
        BY <2>1, <2>3, <3>1, <4>1 DEF FrameInv, IInv
    <3> QED
      BY <2>1, <2>3, <3>2 DEF FrameTypes, IInv, TypeOK
  <2> QED
    BY <1>1, <2>2, <2>3, NoEdge
<1>2. CASE PS2_CLK_POSEDGE /\ ~ReadingChar
  <2>1. /\ ReadingChar' = (Level(bit) = 0)
        /\ UNCHANGED <<BitCntr, ShiftIn, oScanByte>>
        /\ oScanReady' = FALSE /\ UNCHANGED <<bit, word, unread>>
        /\ Taken = bit /\ Taken' = bit + 1
    BY <1>2, Edge DEF Assemble, LastEdge, IInv, TypeOK
  <2>2. CASE bit = 0
    <3>1. BitCntr = 0 /\ unread
      BY <1>2, <2>1, <2>2 DEF FrameInv, IInv, Stop, Ps2Assumption
    <3>2. ReadingChar' = TRUE /\ BitCntr' = 0 /\ unread' /\ Taken' = 1
      <4>1. (Level(bit) = 0) = TRUE
        BY <2>2 DEF Level
      <4>2. ReadingChar' = TRUE
        BY <2>1, <4>1
      <4> QED
        BY <2>1, <2>2, <3>1, <4>2
    <3>3. Taken' \in 1..Stop /\ BitCntr' = Taken' - 1 /\ 1..BitCntr' = {}
      BY <3>2 DEF Stop, Ps2Assumption
    <3>4. FrameInv'
      BY <3>2, <3>3 DEF FrameInv
    <3> QED
      BY <2>1, <3>2, <3>4 DEF FrameTypes, IInv, TypeOK
  <2>3. CASE bit # 0
    <3>1. bit = Stop /\ Idle
      BY <1>2, <2>1, <2>3 DEF FrameInv, IInv, TypeOK, Stop, Ps2Assumption
    <3>2. Level(bit) = 1
      BY <3>1 DEF Level, Stop, Ps2Assumption
    <3>3. ReadingChar' = FALSE
      <4>1. (Level(bit) = 0) = FALSE
        BY <3>2
      <4> QED
        BY <2>1, <4>1
    <3>4. FrameInv'
      BY <2>1, <3>1, <3>3 DEF FrameInv, Idle
    <3> QED
      BY <2>1, <3>3, <3>4 DEF FrameTypes, IInv, TypeOK
  <2> QED
    BY <2>2, <2>3
<1>3. CASE LastEdge
  <2>1. /\ BitCntr' = 0 /\ ReadingChar' = FALSE
        /\ oScanByte' = word
        /\ UNCHANGED ShiftIn
    BY <1>3, Edge, WholeFrame DEF Assemble, LastEdge
  <2>2. oScanReady' = TRUE /\ unread' = FALSE /\ Taken' = Stop + 1
    BY <1>3, Edge, WholeFrame DEF LastEdge
  <2> QED
    <3>1. FrameInv'
      BY <2>1, <2>2 DEF FrameInv, Idle
    <3>2. 0 \in 0..(Bits + 1)
      BY DEF Ps2Assumption
    <3> QED
      BY <2>1, <2>2, <3>1, <3>2, Zenon DEF FrameTypes, IInv, TypeOK
<1>4. CASE PS2_CLK_POSEDGE /\ ReadingChar /\ ~LastEdge
  <2>1. /\ BitCntr' = BitCntr + 1
        /\ ShiftIn' = Pulled(ShiftIn, Level(bit))
        /\ UNCHANGED <<ReadingChar, oScanByte, bit, word, unread>>
        /\ oScanReady' = FALSE
        /\ Taken = bit /\ Taken' = bit + 1
    <3>1. LastEdge = FALSE
      BY <1>4 DEF LastEdge
    <3>2. unread' = unread
      BY <3>1, <1>4, Edge, Zenon DEF IInv, TypeOK
    <3> QED
      BY <1>4, <3>1, <3>2, Edge, Zenon DEF Assemble, Pulled
  <2>2. /\ Taken \in 1..Stop /\ BitCntr = Taken - 1 /\ unread
        /\ \A j \in 1..BitCntr : ShiftIn[Bits + 1 - BitCntr + j] = Level(j)
    BY <1>4 DEF IInv, FrameInv, Idle
  <2>3. BitCntr \in 0..Bits /\ bit = BitCntr + 1
    BY <1>4, <2>1, <2>2 DEF LastEdge, IInv, TypeOK, Stop, Ps2Assumption
  <2>4. /\ ShiftIn' \in [1..Bits + 1 -> 0..1]
        /\ ShiftIn'[Bits + 1] = Level(bit)
        /\ \A i \in 1..Bits : ShiftIn'[i] = ShiftIn[i + 1]
    <3>1. /\ Bits + 1 \in Nat \ {0} /\ Bits + 1 - 1 = Bits
          /\ ShiftIn \in [1..Bits + 1 -> 0..1]
      BY DEF Ps2Assumption, IInv, TypeOK
    <3>2. Level(bit) \in 0..1
      BY Levels DEF IInv, TypeOK
    <3> QED
      BY <2>1, <3>1, <3>2, ShiftedOut
  <2>5. ASSUME NEW j \in 1..BitCntr'
        PROVE  ShiftIn'[Bits + 1 - BitCntr' + j] = Level(j)
    <3>1. CASE j = BitCntr + 1
      BY <2>1, <2>3, <2>4, <3>1 DEF Ps2Assumption
    <3>2. CASE j \in 1..BitCntr
      <4>1. Bits - BitCntr + j \in 1..Bits
        BY <2>3, <3>2 DEF Ps2Assumption
      <4>2. ShiftIn'[Bits - BitCntr + j] = ShiftIn[Bits - BitCntr + j + 1]
        BY <2>4, <4>1
      <4>3. /\ Bits + 1 - BitCntr' + j = Bits - BitCntr + j
            /\ Bits + 1 - BitCntr + j = Bits - BitCntr + j + 1
        BY <2>1, <2>3, <3>2 DEF Ps2Assumption
      <4> QED
        BY <2>2, <3>2, <4>2, <4>3
    <3> QED
      BY <2>1, <2>3, <3>1, <3>2 DEF Ps2Assumption
  <2>6. \A j \in 1..BitCntr' : Level(j)' = Level(j)
    BY <2>1 DEF Level, Parity
  <2>7. FrameInv'
    <3>1. Taken' \in 1..Stop /\ BitCntr' = Taken' - 1
      BY <2>1, <2>2, <2>3 DEF Stop, Ps2Assumption
    <3> QED
      BY <1>4, <2>1, <2>2, <2>5, <2>6, <3>1 DEF FrameInv, IInv, TypeOK, Stop
  <2> QED
    <3>1. BitCntr' \in 0..(Bits + 1)
      BY <2>1, <2>3 DEF Ps2Assumption
    <3> QED
      BY <2>1, <2>4, <2>7, <3>1, Zenon DEF FrameTypes, IInv, TypeOK
<1> QED
  BY <1>1, <1>2, <1>3, <1>4 DEF IInv, TypeOK

-----------------------------------------------------------------------------
(* The invariant *)

LEMMA Initially ==
  ASSUME Ps2Assumption, Init
  PROVE  IInv
<1>1. TypeOK
  <2>1. /\ PS2_CLK_buffer \in [1..Taps -> 0..1]
        /\ ShiftIn \in [1..Bits + 1 -> 0..1]
        /\ oScanByte \in Words /\ word \in Words
    BY DEF Init, Words
  <2>2. /\ PS2_CLK_debounced \in 0..1 /\ PS2_CLK_debounced_prev \in 0..1
        /\ BitCntr \in 0..(Bits + 1)
        /\ clk \in 0..1 /\ age \in 0..Long /\ bit \in 0..Stop
    BY DEF Ps2Assumption, Init, Stop
  <2>3. ReadingChar \in BOOLEAN /\ oScanReady \in BOOLEAN /\ unread \in BOOLEAN
    BY DEF Init
  <2> QED
    BY <2>1, <2>2, <2>3 DEF TypeOK
<1>2. BufferInv /\ DebouncedInv
  BY DEF Ps2Assumption, Init, BufferInv, DebouncedInv
<1>3. FrameInv
  BY DEF Init, FrameInv, Idle, Taken, Passed
<1> QED
  BY <1>1, <1>2, <1>3 DEF IInv

\* What the keyboard does keeps its own variables in their ranges.
LEMMA KeyboardStep ==
  ASSUME Ps2Assumption, TypeOK, Next
  PROVE  /\ clk' \in 0..1 /\ age' \in 0..Long
         /\ bit' \in 0..Stop /\ word' \in Words
<1>1. CASE Same
  BY <1>1 DEF Same, TypeOK, Ps2Assumption
<1>2. CASE Rise
  BY <1>2 DEF Rise, TypeOK, Ps2Assumption
<1>3. CASE Fall
  BY <1>3 DEF Fall, TypeOK, Ps2Assumption, Stop
<1>4. CASE Start
  BY <1>4 DEF Start, TypeOK, Ps2Assumption, Stop
<1> QED
  BY <1>1, <1>2, <1>3, <1>4 DEF Next

LEMMA Inductive ==
  ASSUME Ps2Assumption, IInv, [Next]_vars
  PROVE  IInv'
<1>1. CASE Next
  <2>1. PS2_CLK_debounced_prev' \in 0..1
    BY <1>1, DebouncedStep DEF IInv, TypeOK
  <2>2. TypeOK'
    BY <1>1, <2>1, BufferStep, DebouncedStep, FrameStep, KeyboardStep
       DEF IInv, TypeOK, FrameTypes, Words, Stop
  <2> QED
    BY <1>1, <2>2, BufferStep, DebouncedStep, FrameStep DEF IInv
<1>2. CASE UNCHANGED vars
  <2>1. \A n : Level(n)' = Level(n)
    BY <1>2 DEF vars, keyboard, Level, Parity
  <2>2. FrameInv'
    BY <1>2, <2>1 DEF vars, debouncer, frame, keyboard, IInv, FrameInv, Idle,
                      Taken, Passed
  <2>3. TypeOK' /\ BufferInv' /\ DebouncedInv'
    BY <1>2 DEF vars, debouncer, frame, keyboard, IInv, TypeOK, Words, Stop,
                BufferInv, DebouncedInv
  <2> QED
    BY <2>2, <2>3 DEF IInv
<1> QED
  BY <1>1, <1>2

THEOREM Invariant == Spec => []IInv
<1>1. Ps2Assumption
  BY Ps2Assumption
<1> QED
  BY <1>1, Initially, Inductive, PTL DEF Spec

\* The counter of bits stays below its limit, the shift register keeps its
\* length, and the registers their widths, whatever the lines do.
THEOREM TypeCorrect == Spec => []TypeOK
BY Invariant, PTL DEF IInv

-----------------------------------------------------------------------------
(* The reader implements the channel *)

LEMMA Refines ==
  ASSUME Ps2Assumption, IInv, [Next]_vars
  PROVE  [Channel!Next]_(Channel!vars)
<1> DEFINE sent == IF unread THEN {word} ELSE {}
<1>1. CASE Next /\ ~PS2_CLK_POSEDGE
  <2>1. oScanReady' = FALSE /\ oScanByte' = oScanByte
    BY <1>1, NoEdge DEF frame
  <2>2. CASE Start /\ Taken = Stop + 1
    <3>1. unread = FALSE
      BY <2>2 DEF IInv, TypeOK, FrameInv, Idle, Stop, Ps2Assumption
    <3>2. unread' = TRUE /\ word' \in Words
      BY <2>2 DEF Start
    <3>3. Channel!Send
      BY <2>1, <3>1, <3>2 DEF Channel!Send
    <3> QED
      BY <3>3 DEF Channel!Next
  <2>3. CASE UNCHANGED <<word, unread>>
    <3>1. Channel!Clear
      BY <2>1, <2>3 DEF Channel!Clear
    <3> QED
      BY <3>1 DEF Channel!Next
  <2> QED
    BY <1>1, <2>2, <2>3, NoEdge
<1>2. CASE Next /\ PS2_CLK_POSEDGE /\ ~LastEdge
  <2>1. oScanReady' = FALSE /\ oScanByte' = oScanByte
    BY <1>2, Edge DEF Assemble, frame
  <2>2. unread' = unread /\ word' = word
    BY <1>2, Edge DEF IInv, TypeOK
  <2>3. Channel!Clear
    BY <2>1, <2>2 DEF Channel!Clear
  <2> QED
    BY <2>3 DEF Channel!Next
<1>3. CASE Next /\ LastEdge
  <2>1. unread /\ ~unread' /\ oScanReady' = TRUE /\ oScanByte' = word
    BY <1>3, Edge, WholeFrame DEF Assemble, LastEdge
  <2>2. Channel!Deliver
    BY <2>1 DEF Channel!Deliver
  <2> QED
    BY <2>2 DEF Channel!Next
<1>4. CASE UNCHANGED vars
  BY <1>4 DEF vars, frame, keyboard, Channel!vars
<1> QED
  BY <1>1, <1>2, <1>3, <1>4

\* However the clock line bounces, every step of the reader is a step of the
\* channel or none: a byte is reported once, unchanged, before the next frame
\* begins, and nothing is reported that was not sent.
THEOREM Ps2ImplementsChannel ==
  Spec => Channel!Init /\ [][Channel!Next]_(Channel!vars)
<1>1. Ps2Assumption
  BY Ps2Assumption
<1>2. Init => Channel!Init
  BY <1>1 DEF Init, Channel!Init, Words
<1> QED
  BY <1>1, <1>2, Invariant, Refines, PTL DEF Spec

=============================================================================
