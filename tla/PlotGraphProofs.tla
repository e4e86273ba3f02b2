-------------------------- MODULE PlotGraphProofs --------------------------
(***************************************************************************)
(* Proofs, for every width of the graph and every larger address space,    *)
(* that the newest sample stays visible, that scrolling moves the picture  *)
(* by one column per sample, and that both modes show the samples in order *)
(* without a gap.                                                          *)
(***************************************************************************)
EXTENDS PlotGraph, TLAPS

\* Samples written since the word at an address, if the write address has
\* run through the whole space, or through the columns only.
Distance(a) == IF a < SDRAM_ADD_WRITE THEN SDRAM_ADD_WRITE - 1 - a
               ELSE SDRAM_ADD_WRITE - 1 - a + Modulus
ColumnDistance(x) == IF x < SDRAM_ADD_WRITE THEN SDRAM_ADD_WRITE - 1 - x
                     ELSE SDRAM_ADD_WRITE - 1 - x + Witdh

\* Before the flag is set the write address has not left the columns.
FlagInv == ~Bandera_Scroll_FX => Dif_SCROLL = 0 /\ SDRAM_ADD_WRITE <= Witdh

\* The write address follows an address that is shown inside the graph.
Lagged == \E x \in 0..Witdh : Increment(Shown(x)) = SDRAM_ADD_WRITE
LagInv ==
    /\ Lagged \/ (SDRAM_ADD_WRITE = 0 /\ Dif_SCROLL = 0 /\ ~Bandera_Scroll_FX)
    /\ scroll_en /\ steady > 0 => Lagged

\* The ages that the samples since the last switch have written.
ScrollInv ==
    scroll_en =>
        /\ \A a \in Addresses : Distance(a) < steady => age[a] = Distance(a)
        /\ steady > 0 => \A a \in Addresses : age[a] = 0 => Distance(a) = 0
OverpaintInv ==
    ~scroll_en /\ steady > 0 =>
        /\ SDRAM_ADD_WRITE <= Witdh - 1 /\ Dif_SCROLL = 0
        /\ \A x \in Columns : ColumnDistance(x) < steady - 1 => age[x] = ColumnDistance(x)

IInv == TypeOK /\ FlagInv /\ LagInv /\ ScrollInv /\ OverpaintInv

-----------------------------------------------------------------------------

LEMMA InitIInv == Init => IInv
<1> SUFFICES ASSUME Init PROVE IInv
  OBVIOUS
<1>1. TypeOK /\ FlagInv
  <2>1. /\ Witdh \in Addresses /\ 0 \in Addresses
        /\ 0 \in 0..Modulus /\ Modulus \in 0..Modulus /\ Witdh <= Witdh
    BY PlotAssumption DEF Addresses
  <2>2. age \in [Addresses -> 0..Modulus]
    BY <2>1 DEF Init
  <2>3. SDRAM_ADD_WRITE \in Addresses /\ Dif_SCROLL \in Addresses /\ steady \in 0..Modulus
    BY <2>1 DEF Init
  <2>4. Bandera_Scroll_FX \in BOOLEAN /\ scroll_en \in BOOLEAN
    BY Zenon DEF Init
  <2>5. FlagInv
    BY <2>1 DEF Init, FlagInv
  <2> QED BY <2>2, <2>3, <2>4, <2>5 DEF TypeOK
<1>2. Lagged
  <2>1. Increment(Shown(Witdh - 1)) = SDRAM_ADD_WRITE
    BY PlotAssumption DEF Init, Increment, Shown
  <2>2. Witdh - 1 \in 0..Witdh
    BY PlotAssumption
  <2> QED BY <2>1, <2>2 DEF Lagged
<1>3. \A a \in Addresses : ~(Distance(a) < steady)
  BY PlotAssumption DEF Init, Addresses, Distance
<1> QED BY <1>1, <1>2, <1>3 DEF Init, IInv, LagInv, ScrollInv, OverpaintInv

\* An increment stays in the address space.
LEMMA IncrementType == \A a \in Addresses : Increment(a) \in Addresses
BY PlotAssumption DEF Increment, Addresses

\* A column is shown from an address; from column x when the offset is 0.
LEMMA ShownType ==
    ASSUME TypeOK, NEW x \in 0..Witdh
    PROVE  Shown(x) \in Addresses /\ (Dif_SCROLL = 0 => Shown(x) = x)
BY PlotAssumption DEF TypeOK, Shown, Addresses

LEMMA SampleType == ASSUME TypeOK, NewSample PROVE TypeOK'
<1>0. 0 \in Addresses /\ Increment(SDRAM_ADD_WRITE) \in Addresses
      /\ Increment(Dif_SCROLL) \in Addresses
  BY IncrementType, PlotAssumption DEF TypeOK, Addresses
<1>1. SDRAM_ADD_WRITE' \in Addresses /\ Dif_SCROLL' \in Addresses
  BY <1>0, Zenon DEF NewSample, MoveAddress, MoveOffset
<1>2. age' \in [Addresses -> 0..Modulus]
  BY PlotAssumption DEF TypeOK, NewSample, WriteSample
<1>3. Bandera_Scroll_FX' \in BOOLEAN /\ scroll_en' \in BOOLEAN
  BY Zenon DEF TypeOK, NewSample, MoveFlag
<1>4. steady' \in 0..Modulus
  BY PlotAssumption DEF TypeOK, NewSample
<1> QED BY <1>1, <1>2, <1>3, <1>4 DEF TypeOK

\* What a sample does to the address and the offset, one lemma per mode.
LEMMA ScrollStep ==
    ASSUME IInv, NewSample, scroll_en
    PROVE  /\ SDRAM_ADD_WRITE' = Increment(SDRAM_ADD_WRITE)
           /\ Dif_SCROLL' = IF Bandera_Scroll_FX THEN Increment(Dif_SCROLL) ELSE 0
           /\ scroll_en' /\ steady' > 0
           /\ ~Bandera_Scroll_FX' => SDRAM_ADD_WRITE < Witdh - 1 /\ ~Bandera_Scroll_FX
           /\ ~Bandera_Scroll_FX => Dif_SCROLL' = 0 /\ SDRAM_ADD_WRITE <= Witdh
<1>1. SDRAM_ADD_WRITE' = Increment(SDRAM_ADD_WRITE) /\ scroll_en'
  BY DEF NewSample, MoveAddress
<1>2. Dif_SCROLL' = IF Bandera_Scroll_FX THEN Increment(Dif_SCROLL) ELSE 0
  BY DEF NewSample, MoveOffset
<1>3. steady' > 0
  BY PlotAssumption DEF NewSample, IInv, TypeOK
<1>4. ~Bandera_Scroll_FX' => ~AtTheEnd /\ ~Bandera_Scroll_FX
  BY DEF NewSample, MoveFlag
<1>5. ~AtTheEnd => SDRAM_ADD_WRITE < Witdh - 1
  BY PlotAssumption DEF AtTheEnd, IInv, TypeOK, Addresses
<1>6. ~Bandera_Scroll_FX => SDRAM_ADD_WRITE <= Witdh
  BY DEF IInv, FlagInv
<1> QED BY <1>1, <1>2, <1>3, <1>4, <1>5, <1>6

LEMMA OverpaintStep ==
    ASSUME IInv, NewSample, ~scroll_en
    PROVE  /\ SDRAM_ADD_WRITE' = IF SDRAM_ADD_WRITE >= Witdh - 1 THEN 0 ELSE SDRAM_ADD_WRITE + 1
           /\ Dif_SCROLL' = 0
           /\ ~scroll_en' /\ steady' > 0
           /\ SDRAM_ADD_WRITE >= Witdh - 1 => ~Bandera_Scroll_FX'
<1>1. SDRAM_ADD_WRITE' = IF AtTheEnd THEN 0 ELSE Increment(SDRAM_ADD_WRITE)
  BY DEF NewSample, MoveAddress
<1>2. ~AtTheEnd => Increment(SDRAM_ADD_WRITE) = SDRAM_ADD_WRITE + 1
  BY PlotAssumption DEF AtTheEnd, Increment, IInv, TypeOK, Addresses
<1>3. Dif_SCROLL' = 0 /\ ~scroll_en'
  BY DEF NewSample, MoveOffset
<1>4. steady' > 0
  BY PlotAssumption DEF NewSample, IInv, TypeOK
<1>5. AtTheEnd => ~Bandera_Scroll_FX'
  BY DEF NewSample, MoveFlag
<1> QED BY <1>1, <1>2, <1>3, <1>4, <1>5 DEF AtTheEnd

LEMMA SampleFlag == IInv /\ NewSample => FlagInv'
<1> SUFFICES ASSUME IInv, NewSample PROVE FlagInv'
  OBVIOUS
<1>t. SDRAM_ADD_WRITE \in Addresses
  BY DEF IInv, TypeOK
<1>1. CASE scroll_en
  <2> SUFFICES ASSUME ~Bandera_Scroll_FX' PROVE Dif_SCROLL' = 0 /\ SDRAM_ADD_WRITE' <= Witdh
    BY DEF FlagInv
  <2>1. SDRAM_ADD_WRITE < Witdh - 1 /\ ~Bandera_Scroll_FX
    BY <1>1, ScrollStep
  <2>2. SDRAM_ADD_WRITE' = Increment(SDRAM_ADD_WRITE) /\ Dif_SCROLL' = 0
    BY <1>1, <2>1, ScrollStep
  <2> QED BY <1>t, <2>1, <2>2, PlotAssumption DEF Increment, Addresses
<1>2. CASE ~scroll_en
  <2>1. Dif_SCROLL' = 0
        /\ SDRAM_ADD_WRITE' = IF SDRAM_ADD_WRITE >= Witdh - 1 THEN 0 ELSE SDRAM_ADD_WRITE + 1
    BY <1>2, OverpaintStep
  <2>2. SDRAM_ADD_WRITE' <= Witdh
    BY <1>t, <2>1, PlotAssumption DEF Addresses
  <2> QED BY <2>1, <2>2 DEF FlagInv
<1> QED BY <1>1, <1>2

\* When the offset moves with the write address, each column shows the next
\* address.
LEMMA ShownMoves ==
    ASSUME TypeOK, NEW x \in 0..Witdh, Dif_SCROLL' = Increment(Dif_SCROLL)
    PROVE  Shown(x)' = Increment(Shown(x))
BY PlotAssumption DEF TypeOK, Shown, Increment, Addresses

LEMMA SampleLag == IInv /\ NewSample => LagInv'
<1> SUFFICES ASSUME IInv, NewSample PROVE LagInv'
  OBVIOUS
<1>t. SDRAM_ADD_WRITE \in Addresses /\ TypeOK /\ TypeOK'
  BY SampleType DEF IInv, TypeOK
<1>a. ASSUME NEW x \in 0..Witdh, Dif_SCROLL' = 0, SDRAM_ADD_WRITE' = x + 1 PROVE Lagged'
  <2>1. Shown(x)' = x
    BY <1>a, PlotAssumption DEF Shown
  <2>2. Increment(x) = x + 1
    BY PlotAssumption DEF Increment
  <2>3. Increment(Shown(x)') = SDRAM_ADD_WRITE'
    BY <1>a, <2>1, <2>2
  <2>4. Increment(Shown(x))' = Increment(Shown(x)')
    BY DEF Increment
  <2> QED BY <2>3, <2>4 DEF Lagged
<1>1. CASE scroll_en /\ Bandera_Scroll_FX
  <2>1. PICK x \in 0..Witdh : Increment(Shown(x)) = SDRAM_ADD_WRITE
    BY <1>1 DEF IInv, LagInv, Lagged
  <2>2. Shown(x)' = Increment(Shown(x))
    BY <1>1, <1>t, ScrollStep, ShownMoves
  <2>3. Increment(Shown(x)') = SDRAM_ADD_WRITE'
    BY <1>1, <2>1, <2>2, ScrollStep
  <2>4. Increment(Shown(x))' = Increment(Shown(x)')
    BY DEF Increment
  <2>5. Lagged'
    BY <2>3, <2>4 DEF Lagged
  <2> QED BY <2>5 DEF LagInv
<1>2. CASE scroll_en /\ ~Bandera_Scroll_FX
  <2>1. SDRAM_ADD_WRITE \in 0..Witdh /\ SDRAM_ADD_WRITE' = SDRAM_ADD_WRITE + 1
    BY <1>2, <1>t, ScrollStep, PlotAssumption DEF Increment, Addresses
  <2>2. Lagged'
    BY <1>2, <2>1, <1>a, ScrollStep
  <2> QED BY <2>2 DEF LagInv
<1>3. CASE ~scroll_en /\ SDRAM_ADD_WRITE >= Witdh - 1
  BY <1>3, OverpaintStep DEF LagInv
<1>4. CASE ~scroll_en /\ ~(SDRAM_ADD_WRITE >= Witdh - 1)
  <2>1. SDRAM_ADD_WRITE \in 0..Witdh /\ SDRAM_ADD_WRITE' = SDRAM_ADD_WRITE + 1
    BY <1>4, <1>t, OverpaintStep, PlotAssumption DEF Addresses
  <2>2. Lagged'
    BY <1>4, <2>1, <1>a, OverpaintStep
  <2> QED BY <1>4, <2>2, OverpaintStep DEF LagInv
<1> QED BY <1>1, <1>2, <1>3, <1>4

\* The ages after a sample.
LEMMA AgeStep ==
    ASSUME TypeOK, NewSample, NEW a \in Addresses
    PROVE  age'[a] = IF a = SDRAM_ADD_WRITE THEN 0
                     ELSE IF age[a] < Modulus THEN age[a] + 1 ELSE Modulus
BY DEF NewSample, WriteSample

LEMMA SampleScroll == IInv /\ NewSample => ScrollInv'
<1> SUFFICES ASSUME IInv, NewSample, scroll_en PROVE ScrollInv'
  BY DEF NewSample, ScrollInv
<1>t. /\ SDRAM_ADD_WRITE \in Addresses /\ TypeOK
      /\ steady \in 0..Modulus /\ age \in [Addresses -> 0..Modulus]
  BY DEF IInv, TypeOK
<1>1. SDRAM_ADD_WRITE' = Increment(SDRAM_ADD_WRITE)
  BY ScrollStep
<1>2. ASSUME NEW a \in Addresses
      PROVE  /\ Distance(a) \in 0..(Modulus - 1)
             /\ a = SDRAM_ADD_WRITE => Distance(a)' = 0
             /\ a # SDRAM_ADD_WRITE => Distance(a)' = Distance(a) + 1
  BY <1>t, <1>1, PlotAssumption DEF Distance, Increment, Addresses
<1>3. steady' = IF steady < Modulus THEN steady + 1 ELSE Modulus
  BY DEF NewSample
<1>4. ASSUME NEW a \in Addresses, Distance(a)' < steady'
      PROVE  age'[a] = Distance(a)'
  <2>1. CASE a = SDRAM_ADD_WRITE
    BY <1>2, <1>t, <2>1, AgeStep
  <2>2. CASE a # SDRAM_ADD_WRITE
    <3>1. Distance(a)' = Distance(a) + 1 /\ Distance(a) \in 0..(Modulus - 1)
      BY <1>2, <2>2
    <3>2. Distance(a) < steady
      BY <1>3, <1>4, <1>t, <3>1, PlotAssumption
    <3>3. age[a] = Distance(a)
      BY <3>2 DEF IInv, ScrollInv
    <3>4. age[a] < Modulus
      BY <3>1, <3>3, PlotAssumption
    <3> QED BY <1>t, <2>2, <3>1, <3>3, <3>4, AgeStep
  <2> QED BY <2>1, <2>2
<1>5. ASSUME NEW a \in Addresses, age'[a] = 0
      PROVE  Distance(a)' = 0
  <2>1. a = SDRAM_ADD_WRITE
    <3>1. age[a] \in 0..Modulus
      BY <1>t
    <3> QED BY <1>5, <1>t, <3>1, AgeStep, PlotAssumption
  <2> QED BY <1>2, <2>1
<1> QED BY <1>4, <1>5 DEF ScrollInv

LEMMA SampleOverpaint == IInv /\ NewSample => OverpaintInv'
<1> SUFFICES ASSUME IInv, NewSample, ~scroll_en PROVE OverpaintInv'
  BY DEF NewSample, OverpaintInv
<1>t. /\ SDRAM_ADD_WRITE \in Addresses /\ TypeOK
      /\ steady \in 0..Modulus /\ age \in [Addresses -> 0..Modulus]
  BY DEF IInv, TypeOK
<1>1. /\ SDRAM_ADD_WRITE' = IF SDRAM_ADD_WRITE >= Witdh - 1 THEN 0 ELSE SDRAM_ADD_WRITE + 1
      /\ Dif_SCROLL' = 0
  BY OverpaintStep
<1>2. SDRAM_ADD_WRITE' <= Witdh - 1
  BY <1>t, <1>1, PlotAssumption DEF Addresses
<1>3. steady' = IF steady < Modulus THEN steady + 1 ELSE Modulus
  BY DEF NewSample
<1>4. ASSUME NEW x \in Columns, ColumnDistance(x)' < steady' - 1
      PROVE  age'[x] = ColumnDistance(x)'
  <2>x. x \in Addresses
    BY PlotAssumption DEF Columns, Addresses
  <2>0. CASE steady = 0
    <3>1. ColumnDistance(x)' >= 0
      BY <1>t, <1>1, <1>2, PlotAssumption DEF ColumnDistance, Columns, Addresses
    <3>2. steady' - 1 = 0
      BY <1>3, <2>0, PlotAssumption
    <3>3. ColumnDistance(x)' \in Int
      BY <1>t, <1>1, PlotAssumption DEF ColumnDistance, Columns, Addresses
    <3> QED BY <1>4, <3>1, <3>2, <3>3
  <2>1. CASE steady > 0
    <3>1. SDRAM_ADD_WRITE <= Witdh - 1
      BY <2>1 DEF IInv, OverpaintInv
    <3>2. /\ ColumnDistance(x) \in 0..(Witdh - 1)
          /\ x = SDRAM_ADD_WRITE => ColumnDistance(x)' = 0
          /\ x # SDRAM_ADD_WRITE => ColumnDistance(x)' = ColumnDistance(x) + 1
      BY <1>t, <1>1, <3>1, PlotAssumption DEF ColumnDistance, Columns, Addresses
    <3>3. CASE x = SDRAM_ADD_WRITE
      BY <1>t, <2>x, <3>2, <3>3, AgeStep
    <3>4. CASE x # SDRAM_ADD_WRITE
      <4>1. ColumnDistance(x) < steady - 1
        BY <1>3, <1>4, <1>t, <3>2, <3>4, PlotAssumption
      <4>2. age[x] = ColumnDistance(x)
        BY <2>1, <4>1 DEF IInv, OverpaintInv
      <4>3. age[x] < Modulus
        BY <3>2, <4>2, PlotAssumption
      <4> QED BY <1>t, <2>x, <3>2, <3>4, <4>2, <4>3, AgeStep
    <3> QED BY <3>3, <3>4
  <2> QED BY <1>t, <2>0, <2>1
<1> QED BY <1>1, <1>2, <1>4 DEF OverpaintInv

LEMMA StepIInv == IInv /\ [Next]_vars => IInv'
<1> SUFFICES ASSUME IInv, [Next]_vars PROVE IInv'
  OBVIOUS
<1>1. CASE NewSample
  BY <1>1, SampleType, SampleFlag, SampleLag, SampleScroll, SampleOverpaint DEF IInv
<1>2. CASE Switch
  <2>1. UNCHANGED <<SDRAM_ADD_WRITE, Dif_SCROLL, Bandera_Scroll_FX, age>>
        /\ steady' = 0 /\ scroll_en' = ~scroll_en
    BY <1>2 DEF Switch
  <2>2. TypeOK' /\ FlagInv'
    BY <2>1, PlotAssumption DEF IInv, TypeOK, FlagInv
  <2>3. Lagged' <=> Lagged
    BY <2>1 DEF Lagged, Shown, Increment
  <2>4. LagInv'
    BY <2>1, <2>3 DEF IInv, LagInv
  <2>5. \A a \in Addresses : ~(Distance(a)' < 0)
    BY <2>1, PlotAssumption DEF IInv, TypeOK, Distance, Addresses
  <2>6. ScrollInv' /\ OverpaintInv'
    BY <2>1, <2>5 DEF ScrollInv, OverpaintInv
  <2> QED BY <2>2, <2>4, <2>6 DEF IInv
<1>3. CASE UNCHANGED vars
  BY <1>3 DEF vars, IInv, TypeOK, FlagInv, LagInv, Lagged, Shown, Increment, ScrollInv,
              OverpaintInv, Distance, ColumnDistance
<1> QED BY <1>1, <1>2, <1>3 DEF Next

LEMMA Invariance == Spec => []IInv
BY InitIInv, StepIInv, PTL DEF Spec

-----------------------------------------------------------------------------

\* The plotter keeps to its types.
THEOREM TypeCorrect == Spec => []TypeOK
<1>1. IInv => TypeOK
  BY DEF IInv
<1> QED BY <1>1, Invariance, PTL

\* The address before the write address is at distance 0, and no other is.
LEMMA DistanceZero ==
    ASSUME TypeOK, NEW a \in Addresses
    PROVE  Distance(a) = 0 <=> Increment(a) = SDRAM_ADD_WRITE
BY PlotAssumption DEF TypeOK, Distance, Increment, Addresses

\* The sample that scrolling adds, or the one before it, is inside the graph.
THEOREM NewestVisible == Spec => []NewestIsVisible
<1>1. IInv => NewestIsVisible
  <2> SUFFICES ASSUME IInv, scroll_en, steady > 1
               PROVE  \E x \in Columns : age[Shown(x)] <= 1
    BY DEF NewestIsVisible
  <2>t. TypeOK /\ steady > 0
    BY DEF IInv, TypeOK
  <2>1. PICK x \in 0..Witdh : Increment(Shown(x)) = SDRAM_ADD_WRITE
    BY <2>t DEF IInv, LagInv, Lagged
  <2>2. Shown(x) \in Addresses /\ Distance(Shown(x)) = 0
    BY <2>1, <2>t, ShownType, DistanceZero
  <2>3. CASE x \in Columns
    <3>1. age[Shown(x)] = 0
      BY <2>t, <2>2 DEF IInv, ScrollInv
    <3> QED BY <2>3, <3>1
  <2>4. CASE x = Witdh
    <3>1. Witdh - 1 \in Columns /\ Witdh - 1 \in 0..Witdh
      BY PlotAssumption DEF Columns
    <3>2. Shown(Witdh - 1) \in Addresses
      BY <3>1, <2>t, ShownType
    <3>3. Distance(Shown(Witdh - 1)) = 1
      BY <2>t, <2>2, <2>4, <3>2, PlotAssumption
         DEF Distance, Shown, Addresses, TypeOK
    <3>4. age[Shown(Witdh - 1)] = 1
      BY <3>2, <3>3 DEF IInv, ScrollInv
    <3> QED BY <3>1, <3>4
  <2> QED BY <2>3, <2>4, PlotAssumption DEF Columns
<1> QED BY <1>1, Invariance, PTL

\* Scrolling moves the picture by one column per sample.
THEOREM ScrollMoves == Spec => ScrollsByOne
<1> DEFINE Keeps == \A x \in 0..Witdh : NewestColumn(x) => NewestColumn(x)'
           Scrolled == scroll_en /\ steady > 1 /\ steady' # 0 /\ Bandera_Scroll_FX
<1>1. IInv /\ [Next]_vars => [Scrolled => Keeps]_vars
  <2> SUFFICES ASSUME IInv, Next, scroll_en, steady > 1, steady' # 0, Bandera_Scroll_FX,
                      NEW x \in 0..Witdh, NewestColumn(x)
               PROVE  NewestColumn(x)'
    BY DEF vars
  <2>1. NewSample
    BY DEF Next, Switch
  <2>t. TypeOK /\ steady > 0
    BY DEF IInv, TypeOK
  <2>2. Shown(x) \in Addresses
    BY <2>t, ShownType
  <2>3. Distance(Shown(x)) = 0
    BY <2>2, <2>t DEF IInv, ScrollInv, NewestColumn
  <2>4. Increment(Shown(x)) = SDRAM_ADD_WRITE
    BY <2>2, <2>3, <2>t, DistanceZero
  <2>5. Shown(x)' = SDRAM_ADD_WRITE
    BY <2>1, <2>4, <2>t, ScrollStep, ShownMoves
  <2>6. age'[SDRAM_ADD_WRITE] = 0
    BY <2>1, <2>t, AgeStep DEF TypeOK
  <2> QED BY <2>5, <2>6 DEF NewestColumn
<1> QED BY <1>1, Invariance, PTL DEF Spec, ScrollsByOne

\* After a full turn the overpainted columns hold the samples in order.
THEOREM OverpaintInOrder == Spec => []OverpaintShowsHistory
<1>1. IInv => OverpaintShowsHistory
  <2> SUFFICES ASSUME IInv, ~scroll_en, steady > Witdh, NEW x \in Columns
               PROVE  age[Shown(x)] = ColumnDistance(x)
    BY DEF OverpaintShowsHistory, ColumnDistance
  <2>1. steady \in Int /\ steady > 0
    BY PlotAssumption DEF IInv, TypeOK
  <2>2. SDRAM_ADD_WRITE <= Witdh - 1 /\ Dif_SCROLL = 0
    BY <2>1 DEF IInv, OverpaintInv
  <2>3. Shown(x) = x
    BY <2>2, PlotAssumption DEF Shown, Columns
  <2>4. ColumnDistance(x) < steady - 1
    BY <2>1, <2>2, PlotAssumption DEF ColumnDistance, Columns, IInv, TypeOK, Addresses
  <2>5. age[x] = ColumnDistance(x)
    BY <2>1, <2>4 DEF IInv, OverpaintInv
  <2> QED BY <2>3, <2>5
<1> QED BY <1>1, Invariance, PTL

\* After a full turn the scrolled columns up to the newest hold the samples
\* in order.
THEOREM ScrollInOrder == Spec => []ScrollShowsHistory
<1>1. IInv => ScrollShowsHistory
  <2> SUFFICES ASSUME IInv, scroll_en, steady = Modulus, NEW x \in Columns,
                      NEW n \in 0..Witdh, NewestColumn(n), x <= n
               PROVE  age[Shown(x)] = n - x
    BY DEF ScrollShowsHistory
  <2>t. TypeOK /\ x \in 0..Witdh /\ steady > 0
    BY PlotAssumption DEF IInv, Columns
  <2>1. Shown(n) \in Addresses /\ Shown(x) \in Addresses
    BY <2>t, ShownType
  <2>2. Distance(Shown(n)) = 0
    BY <2>1, <2>t DEF IInv, ScrollInv, NewestColumn
  <2>3. Distance(Shown(x)) = n - x
    BY <2>t, <2>1, <2>2, PlotAssumption DEF Distance, Shown, Addresses, TypeOK
  <2>4. n - x < steady
    BY <2>t, PlotAssumption
  <2> QED BY <2>1, <2>3, <2>4 DEF IInv, ScrollInv
<1> QED BY <1>1, Invariance, PTL

=============================================================================
