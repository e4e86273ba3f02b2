---------------------------- MODULE ScopeProofs ----------------------------
(***************************************************************************)
(* Proofs, for every size of the screen, of its blanking (three clocks at  *)
(* least), of the graph and of the samples, that the pixel counters stay   *)
(* with the video output, that the trace is drawn without a gap, and, with *)
(* the theorems of PlotGraph, that it shows the samples in their order.    *)
(***************************************************************************)
EXTENDS Scope, TLAPS

\* The value that count_x had while the clock was high, k columns ago.
Back(k) == IF row <= HEIGHT /\ k <= col /\ col <= WIDTH + k THEN col - k ELSE 0

\* The line that the counter is at once the present one has ended.
RowAfter == IF row < HEIGHT THEN row + 1 ELSE 0

\* The counters follow the video output in both halves of a clock.
PixelInv == count_x = IF high THEN Back(0) ELSE IF den THEN col + 1 ELSE 0
ReadyInv == /\ high  => (line_rdy <=> row <= HEIGHT /\ 1 <= col /\ col <= WIDTH)
            /\ ~high => (line_rdy <=> den)
OnLine == row <= HEIGHT /\ (col < WIDTH \/ (high /\ col = WIDTH))
LineInv == count_y = IF OnLine THEN row ELSE RowAfter
CountInv == PixelInv /\ ReadyInv /\ LineInv

\* What each register holds, once the edges since the last sample reach it.
ReadInv ==
    /\ calm >= 2 => address = Plot!Shown(Back(0))
    /\ calm >= 3 => SDRAM_OUT = age[Plot!Shown(Back(1))]
    /\ calm >= 4 => SDRAM_OUT_ANT = age[Plot!Shown(Back(2))]

IInv == TypeOK /\ CountInv /\ ReadInv

-----------------------------------------------------------------------------

LEMMA Sizes ==
    /\ WIDTH \in Nat /\ WIDTH >= 2 /\ HEIGHT \in Nat
    /\ Blank \in Nat /\ Blank >= 3 /\ BlankLines \in Nat
    /\ Witdh \in Nat /\ Modulus \in Nat
    /\ Witdh >= 2 /\ Witdh + 1 < WIDTH /\ WIDTH < Modulus
BY VideoAssumption, ScopeAssumption

LEMMA InitIInv == Init => IInv
<1> SUFFICES ASSUME Init PROVE IInv
  OBVIOUS
<1>1. VideoTypeOK
  <2>1. high \in BOOLEAN /\ line_rdy \in BOOLEAN
    BY Zenon DEF Init, VideoInit
  <2> QED BY <2>1, Sizes DEF Init, VideoInit, VideoTypeOK
<1>2. Plot!TypeOK
  <2>1. /\ Witdh \in Plot!Addresses /\ 0 \in Plot!Addresses
        /\ 0 \in 0..Modulus /\ Modulus \in 0..Modulus
    BY Sizes DEF Plot!Addresses
  <2>2. age \in [Plot!Addresses -> 0..Modulus]
    BY <2>1 DEF Init, Plot!Init
  <2>3. Bandera_Scroll_FX \in BOOLEAN /\ scroll_en \in BOOLEAN
    BY Zenon DEF Init, Plot!Init
  <2> QED BY <2>1, <2>2, <2>3 DEF Init, Plot!Init, Plot!TypeOK
<1>3. address \in Plot!Addresses /\ SDRAM_OUT \in Ages /\ SDRAM_OUT_ANT \in Ages
      /\ calm \in 0..Calm /\ calm = 0
  BY Sizes DEF Init, Plot!Addresses, Ages, Calm
<1>4. CountInv
  BY Sizes DEF Init, VideoInit, CountInv, PixelInv, ReadyInv, LineInv, OnLine, RowAfter, den
<1> QED BY <1>1, <1>2, <1>3, <1>4 DEF IInv, TypeOK, ReadInv

-----------------------------------------------------------------------------
(* The counters *)

LEMMA RiseCount ==
    ASSUME VideoTypeOK, CountInv, VideoRise
    PROVE  VideoTypeOK' /\ CountInv'
<1>t. /\ col \in 0..(WIDTH + Blank - 1) /\ row \in 0..(HEIGHT + BlankLines)
      /\ count_x \in 0..WIDTH /\ count_y \in 0..HEIGHT /\ line_rdy \in BOOLEAN
  BY DEF VideoTypeOK
<1>1. high' /\ ~high /\ count_x' = count_x /\ count_y' = count_y /\ line_rdy' = line_rdy
  BY DEF VideoRise
<1>2. /\ count_x = IF den THEN col + 1 ELSE 0
      /\ line_rdy <=> den
      /\ count_y = IF den THEN row ELSE RowAfter
  BY <1>1 DEF CountInv, PixelInv, ReadyInv, LineInv, OnLine, den
<1>3. CASE col < WIDTH + Blank - 1
  <2>1. col' = col + 1 /\ row' = row
    BY <1>3 DEF VideoRise
  <2>2. col' \in 0..(WIDTH + Blank - 1) /\ row' \in 0..(HEIGHT + BlankLines)
    BY <1>t, <1>3, <2>1, Sizes
  <2>3. den <=> row' <= HEIGHT /\ 1 <= col' /\ col' <= WIDTH
    BY <1>t, <2>1, Sizes DEF den
  <2>4. count_x' = Back(0)'
    BY <1>t, <1>1, <1>2, <2>1, <2>3, Sizes DEF Back
  <2>5. OnLine' <=> den
    BY <1>t, <1>1, <2>1, <2>3, Sizes DEF OnLine, den
  <2>6. RowAfter' = RowAfter
    BY <2>1 DEF RowAfter
  <2>7. count_y' = IF OnLine' THEN row' ELSE RowAfter'
    BY <1>1, <1>2, <2>1, <2>5, <2>6
  <2>8. PixelInv' /\ ReadyInv' /\ LineInv'
    BY <1>1, <1>2, <2>3, <2>4, <2>7 DEF PixelInv, ReadyInv, LineInv
  <2> QED BY <1>1, <1>t, <2>2, <2>8 DEF CountInv, VideoTypeOK
<1>4. CASE ~(col < WIDTH + Blank - 1)
  <2>1. col' = 0 /\ row' = IF row < HEIGHT + BlankLines THEN row + 1 ELSE 0
    BY <1>4 DEF VideoRise
  <2>2. col' \in 0..(WIDTH + Blank - 1) /\ row' \in 0..(HEIGHT + BlankLines)
    BY <1>t, <2>1, Sizes
  <2>3. ~den
    BY <1>t, <1>4, Sizes DEF den
  <2>4. count_x' = Back(0)'
    BY <1>1, <1>2, <2>1, <2>3, Sizes DEF Back
  <2>5. ~(1 <= col')
    BY <2>1
  <2>6. OnLine' <=> row' <= HEIGHT
    BY <2>1, Sizes DEF OnLine
  <2>7. RowAfter = IF row' <= HEIGHT THEN row' ELSE RowAfter'
    BY <1>t, <2>1, Sizes DEF RowAfter
  <2>8. count_y' = IF OnLine' THEN row' ELSE RowAfter'
    BY <1>1, <1>2, <2>3, <2>6, <2>7
  <2>9. PixelInv' /\ ReadyInv' /\ LineInv'
    BY <1>1, <1>2, <2>3, <2>4, <2>5, <2>8 DEF PixelInv, ReadyInv, LineInv
  <2> QED BY <1>1, <1>t, <2>2, <2>9 DEF CountInv, VideoTypeOK
<1> QED BY <1>3, <1>4

LEMMA FallCount ==
    ASSUME VideoTypeOK, CountInv, VideoFall
    PROVE  VideoTypeOK' /\ CountInv'
<1>t. /\ col \in 0..(WIDTH + Blank - 1) /\ row \in 0..(HEIGHT + BlankLines)
      /\ count_x \in 0..WIDTH /\ count_y \in 0..HEIGHT
  BY DEF VideoTypeOK
<1>1. high /\ ~high' /\ col' = col /\ row' = row
      /\ count_x' = (IF den /\ count_x < WIDTH THEN count_x + 1 ELSE 0)
      /\ (line_rdy' <=> den) /\ line_rdy' \in BOOLEAN
  BY Zenon DEF VideoFall, NextPixel, den
<1>2. count_y' = IF line_rdy /\ ~den THEN NextLine ELSE count_y
  BY DEF VideoFall
<1>3. count_x = Back(0) /\ count_y = IF OnLine THEN row ELSE RowAfter
  BY <1>1 DEF CountInv, PixelInv, LineInv
<1>4. line_rdy <=> row <= HEIGHT /\ 1 <= col /\ col <= WIDTH
  BY <1>1 DEF CountInv, ReadyInv
<1>5. (den' <=> den) /\ RowAfter' = RowAfter /\ (OnLine' <=> den)
  BY <1>1 DEF den, RowAfter, OnLine
<1>6. count_x' = IF den THEN col + 1 ELSE 0
  BY <1>t, <1>1, <1>3, Sizes DEF Back, den
<1>7. count_y' = IF den THEN row ELSE RowAfter
  <2>1. CASE den
    <3>1. OnLine
      BY <1>t, <2>1, Sizes DEF OnLine, den
    <3> QED BY <1>2, <1>3, <2>1, <3>1
  <2>2. CASE ~den /\ line_rdy
    <3>1. OnLine
      BY <1>t, <1>1, <1>4, <2>2, Sizes DEF OnLine, den
    <3> QED BY <1>2, <1>3, <2>2, <3>1 DEF NextLine, RowAfter
  <2>3. CASE ~den /\ ~line_rdy
    <3>1. ~OnLine
      BY <1>t, <1>4, <2>3, Sizes DEF OnLine, den
    <3> QED BY <1>2, <1>3, <2>3, <3>1
  <2> QED BY <2>1, <2>2, <2>3
<1>8. PixelInv' /\ ReadyInv' /\ LineInv'
  BY <1>1, <1>5, <1>6, <1>7 DEF PixelInv, ReadyInv, LineInv
<1>9. count_x' \in 0..WIDTH /\ count_y' \in 0..HEIGHT
    <2>1. count_x' \in 0..WIDTH
    BY <1>t, <1>6, Sizes DEF den
  <2>2. count_y' \in 0..HEIGHT
    BY <1>t, <1>7, Sizes DEF den, RowAfter
  <2> QED BY <2>1, <2>2
<1>10. high' \in BOOLEAN /\ line_rdy' \in BOOLEAN
  BY Zenon, <1>1 DEF VideoFall
<1> QED BY <1>t, <1>1, <1>8, <1>9, <1>10 DEF CountInv, VideoTypeOK

-----------------------------------------------------------------------------
(* The registers *)

\* A column that the counter shows is at an address of the RAM.
LEMMA ShownType ==
    ASSUME Plot!TypeOK, NEW x \in 0..WIDTH PROVE Plot!Shown(x) \in Plot!Addresses
BY Sizes DEF Plot!TypeOK, Plot!Shown, Plot!Addresses

\* With every rise of the clock what was k columns ago is one more.
LEMMA BackShifts ==
    ASSUME VideoTypeOK, VideoRise, NEW k \in 0..1
    PROVE  Back(k + 1)' = Back(k)
<1>t. col \in 0..(WIDTH + Blank - 1) /\ row \in 0..(HEIGHT + BlankLines)
  BY DEF VideoTypeOK
<1>1. CASE col < WIDTH + Blank - 1
  <2>1. col' = col + 1 /\ row' = row
    BY <1>1 DEF VideoRise
  <2> QED BY <1>t, <2>1, Sizes DEF Back
<1>2. CASE ~(col < WIDTH + Blank - 1)
  <2>1. col' = 0
    BY <1>2 DEF VideoRise
  <2> QED BY <1>t, <1>2, <2>1, Sizes DEF Back
<1> QED BY <1>1, <1>2

LEMMA RiseRead ==
    ASSUME IInv, Rise
    PROVE  ReadInv' /\ address' \in Plot!Addresses
           /\ SDRAM_OUT' \in Ages /\ SDRAM_OUT_ANT' \in Ages /\ calm' \in 0..Calm
<1>t. /\ VideoTypeOK /\ Plot!TypeOK /\ address \in Plot!Addresses
      /\ SDRAM_OUT \in Ages /\ calm \in 0..4 /\ count_x \in 0..WIDTH
  BY DEF IInv, TypeOK, VideoTypeOK, Calm
<1>a. age \in [Plot!Addresses -> Ages]
  BY <1>t DEF Plot!TypeOK, Ages
<1>1. /\ VideoRise
      /\ calm = 0 => address' \in Plot!Addresses
      /\ calm # 0 => address' = Plot!Shown(count_x)
      /\ SDRAM_OUT' \in Ages \/ SDRAM_OUT' = age[address]
      /\ calm # 0 => SDRAM_OUT' = age[address]
      /\ SDRAM_OUT_ANT' = SDRAM_OUT
      /\ calm' = IF calm < 4 THEN calm + 1 ELSE 4
      /\ Dif_SCROLL' = Dif_SCROLL /\ age' = age
  BY DEF Rise, KeepWord, plotVars, Calm
<1>2. address' \in Plot!Addresses
  BY <1>t, <1>1, ShownType
<1>3. SDRAM_OUT' \in Ages
  BY <1>t, <1>a, <1>1
<1>4. /\ calm' >= 2 => calm # 0
      /\ calm' >= 3 => calm # 0 /\ calm >= 2
      /\ calm' >= 4 => calm >= 3
  BY <1>t, <1>1
<1>5. calm' >= 2 => address' = Plot!Shown(Back(0))'
  <2>1. count_x = Back(0)'
    BY <1>t, <1>1, RiseCount DEF IInv, CountInv, PixelInv, VideoRise
  <2> QED BY <1>1, <1>4, <2>1 DEF Plot!Shown
<1>6. calm' >= 3 => SDRAM_OUT' = age'[Plot!Shown(Back(1))']
  <2>1. Back(1)' = Back(0)
    BY <1>t, <1>1, BackShifts
  <2>2. Plot!Shown(Back(1))' = Plot!Shown(Back(0))
    BY <1>1, <2>1 DEF Plot!Shown
  <2> QED BY <1>1, <1>4, <2>2 DEF IInv, ReadInv
<1>7. calm' >= 4 => SDRAM_OUT_ANT' = age'[Plot!Shown(Back(2))']
  <2>1. Back(2)' = Back(1)
    BY <1>t, <1>1, BackShifts
  <2>2. Plot!Shown(Back(2))' = Plot!Shown(Back(1))
    BY <1>1, <2>1 DEF Plot!Shown
  <2> QED BY <1>1, <1>4, <2>2 DEF IInv, ReadInv
<1>8. calm' \in 0..Calm
  BY <1>t, <1>1 DEF Calm
<1> QED BY <1>1, <1>2, <1>3, <1>t, <1>5, <1>6, <1>7, <1>8 DEF ReadInv

\* A sample or a switch leaves the graph in its type.
LEMMA PlotType ==
    ASSUME Plot!TypeOK, Plot!NewSample \/ Plot!Switch
    PROVE  Plot!TypeOK'
<1> USE Sizes
<1>1. CASE Plot!NewSample
  <2>0. \A a \in Plot!Addresses : Plot!Increment(a) \in Plot!Addresses
    BY DEF Plot!Increment, Plot!Addresses
  <2>1. 0 \in Plot!Addresses /\ Plot!Increment(SDRAM_ADD_WRITE) \in Plot!Addresses
        /\ Plot!Increment(Dif_SCROLL) \in Plot!Addresses
    BY <2>0 DEF Plot!TypeOK, Plot!Addresses
  <2>2. SDRAM_ADD_WRITE' \in Plot!Addresses /\ Dif_SCROLL' \in Plot!Addresses
    BY <1>1, <2>1, Zenon DEF Plot!NewSample, Plot!MoveAddress, Plot!MoveOffset
  <2>3. age' \in [Plot!Addresses -> 0..Modulus]
    BY <1>1 DEF Plot!TypeOK, Plot!NewSample, Plot!WriteSample
  <2>4. Bandera_Scroll_FX' \in BOOLEAN /\ scroll_en' \in BOOLEAN
    BY <1>1, Zenon DEF Plot!TypeOK, Plot!NewSample, Plot!MoveFlag
  <2>5. steady' \in 0..Modulus
    BY <1>1 DEF Plot!TypeOK, Plot!NewSample
  <2> QED BY <2>2, <2>3, <2>4, <2>5 DEF Plot!TypeOK
<1>2. CASE Plot!Switch
  BY <1>2 DEF Plot!TypeOK, Plot!Switch
<1> QED BY <1>1, <1>2

LEMMA StepIInv == IInv /\ [Next]_vars => IInv'
<1> SUFFICES ASSUME IInv, [Next]_vars PROVE IInv'
  OBVIOUS
<1>1. CASE Rise
  <2>1. VideoTypeOK' /\ CountInv'
    BY <1>1, RiseCount DEF Rise, IInv, TypeOK
  <2>2. Plot!TypeOK'
    BY <1>1 DEF Rise, plotVars, IInv, TypeOK, Plot!TypeOK
  <2> QED BY <1>1, <2>1, <2>2, RiseRead DEF IInv, TypeOK
<1>2. CASE Fall
  <2>1. VideoTypeOK' /\ CountInv'
    BY <1>2, FallCount DEF Fall, IInv, TypeOK
  <2>2. /\ UNCHANGED <<plotVars, readVars, calm>> /\ UNCHANGED <<col, row>>
    BY <1>2 DEF Fall, VideoFall
  <2>3. Plot!TypeOK'
    BY <2>2 DEF plotVars, IInv, TypeOK, Plot!TypeOK
  <2>4. ReadInv'
    BY <2>2 DEF plotVars, readVars, IInv, ReadInv, Back, Plot!Shown
  <2>5. /\ address' \in Plot!Addresses /\ SDRAM_OUT' \in Ages
        /\ SDRAM_OUT_ANT' \in Ages /\ calm' \in 0..Calm
    BY <2>2 DEF readVars, IInv, TypeOK
  <2> QED BY <2>1, <2>3, <2>4, <2>5 DEF IInv, TypeOK
<1>3. CASE Sample
  <2>1. UNCHANGED <<videoVars, address>> /\ calm' = 0
    BY <1>3 DEF Sample
  <2>2. VideoTypeOK' /\ CountInv'
    BY <2>1 DEF videoVars, IInv, TypeOK, VideoTypeOK, CountInv, PixelInv, ReadyInv,
                LineInv, OnLine, RowAfter, Back, den
  <2>3. Plot!TypeOK'
    BY <1>3, PlotType DEF Sample, IInv, TypeOK
  <2>4. SDRAM_OUT' \in Ages /\ SDRAM_OUT_ANT' \in Ages
    BY <1>3, Sizes DEF Sample, Older, Ages, IInv, TypeOK
  <2>5. ReadInv' /\ address' \in Plot!Addresses /\ calm' \in 0..Calm
    BY <2>1 DEF ReadInv, IInv, TypeOK, Calm
  <2> QED BY <2>2, <2>3, <2>4, <2>5 DEF IInv, TypeOK
<1>4. CASE Switch
  <2>1. UNCHANGED <<videoVars, readVars, calm>> /\ UNCHANGED <<Dif_SCROLL, age>>
    BY <1>4 DEF Switch, Plot!Switch
  <2>2. VideoTypeOK' /\ CountInv'
    BY <2>1 DEF videoVars, IInv, TypeOK, VideoTypeOK, CountInv, PixelInv, ReadyInv,
                LineInv, OnLine, RowAfter, Back, den
  <2>3. Plot!TypeOK'
    BY <1>4, PlotType DEF Switch, IInv, TypeOK
  <2>4. ReadInv'
    BY <2>1 DEF videoVars, readVars, IInv, ReadInv, Back, Plot!Shown
  <2>5. /\ address' \in Plot!Addresses /\ SDRAM_OUT' \in Ages
        /\ SDRAM_OUT_ANT' \in Ages /\ calm' \in 0..Calm
    BY <2>1 DEF readVars, IInv, TypeOK
  <2> QED BY <2>2, <2>3, <2>4, <2>5 DEF IInv, TypeOK
<1>5. CASE UNCHANGED vars
  <2>1. UNCHANGED <<videoVars, plotVars, readVars, calm>>
    BY <1>5 DEF vars, Plot!vars, plotVars
  <2>2. VideoTypeOK' /\ CountInv'
    BY <2>1 DEF videoVars, IInv, TypeOK, VideoTypeOK, CountInv, PixelInv, ReadyInv,
                LineInv, OnLine, RowAfter, Back, den
  <2>3. Plot!TypeOK'
    BY <2>1 DEF plotVars, IInv, TypeOK, Plot!TypeOK
  <2>4. ReadInv'
    BY <2>1 DEF videoVars, plotVars, readVars, IInv, ReadInv, Back, Plot!Shown
  <2>5. /\ address' \in Plot!Addresses /\ SDRAM_OUT' \in Ages
        /\ SDRAM_OUT_ANT' \in Ages /\ calm' \in 0..Calm
    BY <2>1 DEF readVars, IInv, TypeOK
  <2> QED BY <2>2, <2>3, <2>4, <2>5 DEF IInv, TypeOK
<1> QED BY <1>1, <1>2, <1>3, <1>4, <1>5 DEF Next

LEMMA Invariance == Spec => []IInv
BY InitIInv, StepIInv, PTL DEF Spec

-----------------------------------------------------------------------------

\* Counters, RAM and registers keep to their types.
THEOREM TypeCorrect == Spec => []TypeOK
<1>1. IInv => TypeOK
  BY DEF IInv
<1> QED BY <1>1, Invariance, PTL

LEMMA CoordinatesInv == IInv => PixelCoordinates
<1> SUFFICES ASSUME IInv, high, den PROVE count_x = col /\ count_y = row
  BY DEF PixelCoordinates
<1>1. col \in 0..(WIDTH + Blank - 1) /\ row \in 0..(HEIGHT + BlankLines)
  BY DEF IInv, TypeOK, VideoTypeOK
<1>2. count_x = Back(0) /\ count_y = IF OnLine THEN row ELSE RowAfter
  BY DEF IInv, CountInv, PixelInv, LineInv
<1> QED BY <1>1, <1>2, Sizes DEF Back, OnLine, den

\* The counters show the pixel that the video output is at, in every frame and
\* for every size of the screen and its blanking.
THEOREM Coordinates == Spec => []PixelCoordinates
BY CoordinatesInv, Invariance, PTL

\* A sample divided down is a line of the graph, above its last line.
LEMMA LineType ==
    ASSUME NEW s \in 0..Largest
    PROVE  LineOf(s) \in Int /\ LineOf(s) <= Pos_Y + Largest \div Height
<1> DEFINE q == (Largest - s) \div Height
           Q == Largest \div Height
<1>t. /\ Pos_Y \in Nat /\ Height \in Nat /\ Height > 0
      /\ Largest \in Nat /\ s \in Nat /\ s <= Largest
  BY ScopeAssumption
<1>1. /\ q \in Int /\ Q \in Int
      /\ Height * q <= Largest - s /\ Largest < Height * (Q + 1)
  BY <1>t, SMT
<1>2. ASSUME q > Q PROVE FALSE
  <2> HIDE DEF q, Q
  <2>1. Height * (Q + 1) <= Height * q
    BY <1>t, <1>1, <1>2, SMT
  <2> QED BY <1>t, <1>1, <2>1, SMT
<1> HIDE DEF q, Q
<1>3. q <= Q
  BY <1>1, <1>2
<1>4. LineOf(s) = Pos_Y + q
  BY DEF LineOf, q
<1>5. Pos_Y + Largest \div Height = Pos_Y + Q
  BY DEF Q
<1> QED BY <1>t, <1>1, <1>3, <1>4, <1>5

LEMMA TraceInv == IInv => TraceUnbroken
<1> DEFINE Words == {Word(col - 2), Word(col - 1), SDRAM_OUT, SDRAM_OUT_ANT}
<1> SUFFICES ASSUME IInv, high, den, col <= Witdh, calm = Calm, ~vertical_line,
                    NEW h \in [Words -> 0..Largest]
             PROVE  LET old == LineOf(h[Word(col - 2)])
                        new == LineOf(h[Word(col - 1)])
                    IN  /\ row = new \/ Between(row, old, new) => Graph_on(h)
                        /\ Graph_on(h) => row \in {old, new} \/ Between(row, old, new)
  BY DEF TraceUnbroken
<1>1. col \in 0..(WIDTH + Blank - 1) /\ row \in 0..(HEIGHT + BlankLines)
  BY DEF IInv, TypeOK, VideoTypeOK
<1>2. Back(1) = (IF col - 1 < 0 THEN 0 ELSE col - 1)
      /\ Back(2) = (IF col - 2 < 0 THEN 0 ELSE col - 2)
  BY <1>1, Sizes DEF Back, den
<1>3. SDRAM_OUT = Word(col - 1) /\ SDRAM_OUT_ANT = Word(col - 2)
  BY <1>2 DEF IInv, ReadInv, Word, Calm
<1>4. count_x = col /\ count_y = row
  BY CoordinatesInv DEF PixelCoordinates
<1>5. h[SDRAM_OUT] \in 0..Largest /\ h[SDRAM_OUT_ANT] \in 0..Largest
  OBVIOUS
<1>6. PICK old, new \in Int :
        /\ old = LineOf(h[SDRAM_OUT_ANT]) /\ new = LineOf(h[SDRAM_OUT])
        /\ old <= Pos_Y + Largest \div Height /\ new <= Pos_Y + Largest \div Height
  BY <1>5, LineType
<1>7. PICK last \in Int : last = LastLine /\ last = Pos_Y + Largest \div Height
  BY ScopeAssumption DEF LastLine
<1>8. Graph_on(h) <=> row <= last /\ (IF row >= old THEN row <= new ELSE row >= new)
  BY <1>4, <1>6, <1>7, Sizes DEF Graph_on, InWindow, PendienteFX
<1>9. row = new \/ Between(row, old, new)
        => row <= last /\ (IF row >= old THEN row <= new ELSE row >= new)
  BY <1>1, <1>6, <1>7 DEF Between
<1>10. row <= last /\ (IF row >= old THEN row <= new ELSE row >= new)
        => row \in {old, new} \/ Between(row, old, new)
  BY <1>1, <1>6, <1>7 DEF Between
<1> QED BY <1>3, <1>6, <1>8, <1>9, <1>10

\* The trace is drawn without a gap and without anything else, from the fourth
\* clock after a sample on, whatever the torn reads showed before.
THEOREM Unbroken == Spec => []TraceUnbroken
BY TraceInv, Invariance, PTL

-----------------------------------------------------------------------------
(* The graph that is read is the graph of PlotGraph *)

Graph == INSTANCE PlotGraphProofs

\* Reading takes nothing from the graph: every step of the scope is a sample,
\* a switch or nothing for the addresses and the RAM of PlotGraph.
THEOREM ScopeImplementsGraph == Spec => Plot!Spec
<1>1. Init => Plot!Init
  BY DEF Init
<1>2. [Next]_vars => [Plot!Next]_(Plot!vars)
  <2> SUFFICES ASSUME [Next]_vars PROVE Plot!Next \/ UNCHANGED Plot!vars
    OBVIOUS
  <2>1. Sample => Plot!Next
    BY DEF Sample, Plot!Next
  <2>2. Switch => Plot!Next
    BY DEF Switch, Plot!Next
  <2>3. Rise \/ Fall \/ UNCHANGED vars => UNCHANGED Plot!vars
    BY DEF Rise, Fall, vars, plotVars, Plot!vars
  <2> QED BY <2>1, <2>2, <2>3 DEF Next
<1> QED BY <1>1, <1>2, PTL DEF Spec, Plot!Spec

\* The instance that has the theorems is the one that Scope uses.
LEMMA SameGraph == Plot!Spec => Graph!Spec
<1>1. Plot!Init => Graph!Init
  BY DEF Plot!Init, Graph!Init, Plot!Addresses, Graph!Addresses
<1>2. [Plot!Next]_(Plot!vars) => [Graph!Next]_(Graph!vars)
  BY DEF Plot!Next, Graph!Next, Plot!vars, Graph!vars, Plot!NewSample, Graph!NewSample,
         Plot!Switch, Graph!Switch, Plot!WriteSample, Graph!WriteSample,
         Plot!MoveAddress, Graph!MoveAddress, Plot!MoveFlag, Graph!MoveFlag,
         Plot!MoveOffset, Graph!MoveOffset, Plot!Increment, Graph!Increment,
         Plot!AtTheEnd, Graph!AtTheEnd, Plot!Addresses, Graph!Addresses
<1> QED BY <1>1, <1>2, PTL DEF Plot!Spec, Graph!Spec

\* So the RAM keeps the samples in order while it is read, and a turn of
\* overpainting starts from a cleared offset.
Unshifted == ~scroll_en /\ steady > Witdh => Dif_SCROLL = 0
InOrder == Plot!ScrollShowsHistory /\ Plot!OverpaintShowsHistory /\ Unshifted

LEMMA StaysInOrder == Spec => []InOrder
<1>1. Graph!ScrollShowsHistory => Plot!ScrollShowsHistory
  BY DEF Graph!ScrollShowsHistory, Plot!ScrollShowsHistory, Graph!NewestColumn,
         Plot!NewestColumn, Graph!Shown, Plot!Shown, Graph!Columns, Plot!Columns
<1>2. Graph!OverpaintShowsHistory => Plot!OverpaintShowsHistory
  BY DEF Graph!OverpaintShowsHistory, Plot!OverpaintShowsHistory,
         Graph!Shown, Plot!Shown, Graph!Columns, Plot!Columns
<1>3. Graph!IInv => Unshifted
  BY Sizes DEF Graph!IInv, Graph!TypeOK, Graph!OverpaintInv, Unshifted
<1>4. Graph!PlotAssumption
  BY VideoAssumption, ScopeAssumption DEF Graph!PlotAssumption
<1>5. /\ Graph!Spec => []Graph!ScrollShowsHistory
      /\ Graph!Spec => []Graph!OverpaintShowsHistory
      /\ Graph!Spec => []Graph!IInv
  BY <1>4, Graph!ScrollInOrder, Graph!OverpaintInOrder, Graph!Invariance
<1> QED BY <1>1, <1>2, <1>3, <1>5, ScopeImplementsGraph, SameGraph, PTL DEF InOrder

\* The present pixel, lit or not, belongs to a trace that joins two samples: it
\* is lit on the line of the new one and between the two, and nowhere beyond
\* them.  (On the line of the old one the column before is lit.)
Drawn(lit, old, new) ==
    /\ row = LineOf(new) \/ Between(row, LineOf(old), LineOf(new)) => lit
    /\ lit => row \in {LineOf(old), LineOf(new)}
              \/ Between(row, LineOf(old), LineOf(new))

\* A pixel of the graph is shown, and the torn reads after a sample are over.
Displayed == high /\ den /\ 2 <= col /\ col <= Witdh /\ calm = Calm

\* After a full turn of scrolling, s being the samples by their age and c the
\* column of the newest: the trace at column x + 1 joins the sample of age
\* c - x + 1 to the next one, of age c - x, for all x up to c.
ScrolledTrace ==
    Displayed /\ scroll_en /\ steady = Modulus =>
        \A s \in [Ages -> 0..Largest], c \in 0..Witdh :
            Plot!NewestColumn(c) /\ col - 1 <= c =>
                Drawn(Graph_on(s), s[c - col + 2], s[c - col + 1])

\* After a full turn of overpainting: left of the write address the trace joins
\* the samples of the latest turn in order, right of it those of the turn before;
\* only at the address does it join the newest sample to the oldest, and there
\* the mark stands, one column to the left of that stretch and nowhere else.
OverpaintedTrace ==
    Displayed /\ ~scroll_en /\ steady > Witdh =>
        LET w == SDRAM_ADD_WRITE
            Age(x) == IF x < w THEN w - 1 - x ELSE w - 1 - x + Witdh
        IN  \A s \in [Ages -> 0..Largest] :
                /\ col - 1 # w => Age(col - 2) = Age(col - 1) + 1
                /\ vertical_line <=> col = w /\ row \in Pos_Y..LastLine
                /\ ~vertical_line => Drawn(Graph_on(s), s[Age(col - 2)], s[Age(col - 1)])

\* The pixel as the two words decide it, for samples by their age.
LEMMA PixelOfWords ==
    ASSUME IInv, Displayed, NEW s \in [Ages -> 0..Largest]
    PROVE  /\ col - 2 \in Plot!Columns /\ col - 1 \in Plot!Columns
           /\ ~vertical_line => Drawn(Graph_on(s), s[Word(col - 2)], s[Word(col - 1)])
<1>1. TraceUnbroken
  BY TraceInv
<1>2. col \in 0..(WIDTH + Blank - 1)
  BY DEF IInv, TypeOK, VideoTypeOK
<1>3. col - 2 \in Plot!Columns /\ col - 1 \in Plot!Columns
  BY <1>2, Sizes DEF Displayed, Plot!Columns
<1> DEFINE Words == {Word(col - 2), Word(col - 1), SDRAM_OUT, SDRAM_OUT_ANT}
           h == [a \in Words |-> s[a]]
<1>4. Words \subseteq Ages
  <2>1. age \in [Plot!Addresses -> Ages] /\ Plot!TypeOK
    BY DEF IInv, TypeOK, Plot!TypeOK, Ages
  <2>2. col - 2 \in 0..WIDTH /\ col - 1 \in 0..WIDTH
    BY <1>3, Sizes DEF Plot!Columns
  <2>3. Plot!Shown(col - 2) \in Plot!Addresses /\ Plot!Shown(col - 1) \in Plot!Addresses
    BY <2>1, <2>2, ShownType
  <2>4. ~(col - 2 < 0) /\ ~(col - 1 < 0)
    BY <2>2
  <2> QED BY <2>1, <2>3, <2>4 DEF IInv, TypeOK, Word
<1>5. h \in [Words -> 0..Largest]
  BY <1>4
<1>6. ~vertical_line => Drawn(Graph_on(h), h[Word(col - 2)], h[Word(col - 1)])
  <2> HIDE DEF h
  <2> QED BY <1>1, <1>5 DEF TraceUnbroken, Displayed, Drawn
<1>7. Graph_on(h) <=> Graph_on(s)
  BY DEF Graph_on, PendienteFX
<1>8. h[Word(col - 2)] = s[Word(col - 2)] /\ h[Word(col - 1)] = s[Word(col - 1)]
  OBVIOUS
<1> HIDE DEF h
<1> QED BY <1>3, <1>6, <1>7, <1>8, Zenon DEF Drawn

\* Whatever the history of the switch and wherever the counters have wrapped,
\* the trace on the screen joins each sample to the next one in the order they
\* were taken: the pixels of Scope and the addresses of PlotGraph together.
THEOREM ScreenInOrder == Spec => [](ScrolledTrace /\ OverpaintedTrace)
<1>1. IInv /\ InOrder => ScrolledTrace
  <2> SUFFICES ASSUME IInv, InOrder, Displayed, scroll_en, steady = Modulus,
                      NEW s \in [Ages -> 0..Largest], NEW c \in 0..Witdh,
                      Plot!NewestColumn(c), col - 1 <= c
               PROVE  Drawn(Graph_on(s), s[c - col + 2], s[c - col + 1])
    BY DEF ScrolledTrace
  <2>1. /\ col - 2 \in Plot!Columns /\ col - 1 \in Plot!Columns
        /\ ~vertical_line => Drawn(Graph_on(s), s[Word(col - 2)], s[Word(col - 1)])
    BY PixelOfWords
  <2>2. col \in Int /\ ~(col - 2 < 0) /\ ~(col - 1 < 0) /\ col - 2 <= c
    BY <2>1, Sizes DEF Plot!Columns, IInv, TypeOK, VideoTypeOK
  <2>3. Word(col - 2) = c - (col - 2) /\ Word(col - 1) = c - (col - 1)
    BY <2>1, <2>2 DEF InOrder, Plot!ScrollShowsHistory, Word
  <2>4. c - (col - 2) = c - col + 2 /\ c - (col - 1) = c - col + 1
    BY <2>2
  <2>5. ~vertical_line
    BY DEF vertical_line
  <2> QED BY <2>1, <2>3, <2>4, <2>5
<1>2. IInv /\ InOrder => OverpaintedTrace
  <2> DEFINE w == SDRAM_ADD_WRITE
             Age(x) == IF x < w THEN w - 1 - x ELSE w - 1 - x + Witdh
  <2> SUFFICES ASSUME IInv, InOrder, Displayed, ~scroll_en, steady > Witdh,
                      NEW s \in [Ages -> 0..Largest]
               PROVE  /\ col - 1 # w => Age(col - 2) = Age(col - 1) + 1
                      /\ vertical_line <=> col = w /\ row \in Pos_Y..LastLine
                      /\ ~vertical_line => Drawn(Graph_on(s), s[Age(col - 2)], s[Age(col - 1)])
    BY DEF OverpaintedTrace
  <2>1. /\ col - 2 \in Plot!Columns /\ col - 1 \in Plot!Columns
        /\ ~vertical_line => Drawn(Graph_on(s), s[Word(col - 2)], s[Word(col - 1)])
    BY PixelOfWords
  <2>2. w \in Int /\ col \in Int /\ ~(col - 2 < 0) /\ ~(col - 1 < 0)
    BY <2>1, Sizes DEF Plot!Columns, Plot!Addresses, Plot!TypeOK, IInv, TypeOK, VideoTypeOK
  <2>3. Word(col - 2) = Age(col - 2) /\ Word(col - 1) = Age(col - 1)
    BY <2>1, <2>2 DEF InOrder, Plot!OverpaintShowsHistory, Word
  <2>4. col - 1 # w => Age(col - 2) = Age(col - 1) + 1
    BY <2>2, Sizes
  <2>5. vertical_line <=> col = w /\ row \in Pos_Y..LastLine
    <3>1. Dif_SCROLL = 0 /\ count_x = col /\ count_y = row
      BY CoordinatesInv DEF InOrder, Unshifted, Displayed, PixelCoordinates
    <3> QED BY <2>2, <3>1 DEF vertical_line
  <2> QED BY <2>1, <2>3, <2>4, <2>5
<1> QED BY <1>1, <1>2, Invariance, StaysInOrder, PTL

=============================================================================
