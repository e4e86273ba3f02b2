--------------------------- MODULE PointerProofs ---------------------------
(***************************************************************************)
(* Proofs about Pointer for every size of the screen, repetition period,   *)
(* speed and start, and every press of KEY[0] of seven Cycles or longer:   *)
(* a held arrow moves the cursor by equal steps, a click acts where the    *)
(* cursor is, a reset leaves it in the centre, and every press that a call *)
(* finds has one release.                                                  *)
(***************************************************************************)
EXTENDS Pointer, TLAPS, WellFoundedInduction

Off == <<FALSE, FALSE>>

\* A press passes through the two flip-flops of each clock: the key clock's
\* edge comes after two Cycles at the latest, and clears the registers with
\* the third.
PressInv ==
    /\ IF key0 THEN key_reset # <<FALSE, TRUE>> ELSE key_reset # <<TRUE, FALSE>>
    /\ key0 =>
         /\ pressed >= 1 => reset[1]
         /\ pressed >= 2 => reset[2]
         /\ pressed >= 3 => cur = Centre
         /\ key_reset = Off => pressed <= since
         /\ key_reset = <<TRUE, FALSE>> => pressed <= since + 2
         /\ key_reset = <<TRUE, TRUE>> /\ HOLDING # {} => pressed <= since + 4
         /\ pressed >= 7 => before = {}

NoArrow(s) == s \cap Arrows = {}

\* What one more quiet Cycle has cleared.
QuietInv ==
    /\ quiet >= 1 => ~key0 /\ reset = Off /\ NoArrow(HOLDING) /\ NoArrow(before)
    /\ quiet >= 2 => NoArrow(q1)
    /\ quiet >= 3 => NoArrow(q2)
    /\ quiet >= 4 => debounce = 0 /\ was = cur

TrustInv ==
    trust =>
      /\ pc = "keys" /\ here
      /\ ~key0 /\ reset = Off
      /\ NoArrow(HOLDING) /\ NoArrow(before) /\ NoArrow(q1) /\ NoArrow(q2)

\* An arrow that was held before the reset is in no flip-flop when the reset
\* leaves it.
CentredInv ==
    centred =>
      /\ cur = Centre
      /\ NoArrow(HOLDING) /\ NoArrow(before)
      /\ NoArrow(q1) \/ reset = <<TRUE, TRUE>>
      /\ NoArrow(q2) \/ reset[2]

ArrowIf(condition) == IF condition THEN {hold.arrow} ELSE {}

\* m Cycles since the Cycle before the one that took the arrow, which was the
\* first or the second after the code.
Held(m) ==
    /\ q1 \cap Arrows = ArrowIf(m >= 1)
    /\ q2 \cap Arrows = ArrowIf(m >= 2)
    /\ debounce = IF m < 2 THEN 0 ELSE (m - 2) % Period
    /\ cur = Moved(hold.origin, hold.arrow, "M" \in HOLDING, StepsAfter(m))

HoldInv ==
    hold.arrow # "none" =>
      /\ ~key0 /\ reset = Off /\ key_reset = Off
      /\ HOLDING \cap Arrows = {hold.arrow}
      /\ before \cap Arrows = ArrowIf(hold.n >= 1)
      /\ \A s \in {before, q1, q2} : "M" \in s <=> "M" \in HOLDING
      /\ Held(hold.n) \/ Held(hold.n - 1)

IInv == TypeOK /\ PressInv /\ QuietInv /\ TrustInv /\ CentredInv /\ HoldInv

-----------------------------------------------------------------------------
(* Numbers and their bits *)

LEMMA Sizes ==
    /\ Size \in Nat /\ Size >= 1 /\ Period \in Nat /\ Period >= 1
    /\ StartX \in 0..(Size - 1) /\ StartY \in 0..(Size - 1)
    /\ FastX \in Nat /\ FastY \in Nat
    /\ Together \in Nat /\ MinPress \in Nat /\ MinPress >= 7 /\ Turns \in Nat
BY CursorAssumption, PointerAssumption

\* The natural numbers are well ordered, and so are the numbers up to N.
LEMMA Least ==
    ASSUME NEW T \in SUBSET Nat, T # {}
    PROVE  \E x \in T : \A y \in T : x <= y
<1> DEFINE R == OpToRel(<, Nat)
<1>1. IsWellFoundedOn(R, Nat)
  BY NatLessThanWellFounded
<1>2. \A x, y \in Nat : y < x => <<y, x>> \in R
  BY DEF OpToRel
<1> HIDE DEF R
<1>3. PICK x \in T : \A y \in T : ~ (<<y, x>> \in R)
  BY <1>1, WFMin
<1>4. \A y \in T : y \in Nat /\ x \in Nat /\ ~(y < x)
  BY <1>2, <1>3
<1> QED BY <1>3, <1>4

LEMMA Greatest ==
    ASSUME NEW N \in Nat, NEW T \in SUBSET (0..N), T # {}
    PROVE  \E x \in T : \A y \in T : y <= x
<1> DEFINE U == {N - y : y \in T}
<1>1. U \in SUBSET Nat /\ U # {}
  <2>1. \A y \in T : N - y \in Nat
    OBVIOUS
  <2> QED BY <2>1
<1>2. PICK u \in U : \A w \in U : u <= w
  <2> HIDE DEF U
  <2> QED BY <1>1, Least
<1>3. PICK x \in T : u = N - x
  OBVIOUS
<1>4. \A y \in T : N - x <= N - y
  BY <1>2, <1>3
<1> QED BY <1>3, <1>4

\* Twice a weight is a weight: an odd divisor of it divides the half.
LEMMA WeightDoubles ==
    ASSUME NEW w \in Weights, 2 * w <= Size
    PROVE  2 * w \in Weights
<1>1. w \in Nat /\ w >= 1 /\ \A d \in 2..w : w % d = 0 => d % 2 = 0
  BY DEF Weights
<1> SUFFICES ASSUME NEW d \in 2..(2 * w), (2 * w) % d = 0, d % 2 # 0
             PROVE  FALSE
  BY <1>1, Sizes DEF Weights
<1>2. PICK e \in Nat : d = 2 * e + 1
  <2>1. d = 2 * (d \div 2) + (d % 2) /\ d \div 2 \in Nat /\ d % 2 = 1
    OBVIOUS
  <2> QED BY <2>1
<1>3. PICK k \in Nat : 2 * w = d * k
  <2>1. 2 * w = d * ((2 * w) \div d) /\ (2 * w) \div d \in Nat
    BY <1>1
  <2> QED BY <2>1
<1>4. PICK j \in Int : j = w - e * k
  BY <1>1
<1>5. k = 2 * j
  BY <1>1, <1>2, <1>3, <1>4
<1>6. w = d * j
  BY <1>1, <1>3, <1>5
<1>7. j > 0
  BY <1>1, <1>6
<1>8. d <= w
  BY <1>1, <1>6, <1>7
<1>9. d \in 2..w
  BY <1>1, <1>2, <1>8
<1>10. w % d = 0
  BY <1>1, <1>2, <1>6, <1>7, SMTT(30)
<1> QED BY <1>1, <1>9, <1>10

\* Dividing by twice a weight leaves out one more bit.
LEMMA DivTwice ==
    ASSUME NEW v \in Nat, NEW w \in Nat, w >= 1
    PROVE  v \div w = 2 * (v \div (2 * w)) + Bit(v, w)
<1> DEFINE q == v \div (2 * w)
           p == v \div w
<1>1. q \in Nat /\ p \in Nat
      /\ (2 * w) * q <= v /\ v < (2 * w) * (q + 1)
      /\ w * p <= v /\ v < w * (p + 1)
  OBVIOUS
<1>2. p % 2 \in {0, 1} /\ p = 2 * (p \div 2) + (p % 2) /\ p \div 2 \in Nat
  BY <1>1
<1> HIDE DEF q, p
<1>3. 2 * q <= p
  <2>1. w * (2 * q) < w * (p + 1)
    BY <1>1
  <2>2. ASSUME 2 * q >= p + 1 PROVE w * (2 * q) >= w * (p + 1)
    BY <1>1, <2>2
  <2> QED BY <1>1, <2>1, <2>2
<1>4. p < 2 * q + 2
  <2>1. w * p < w * (2 * q + 2)
    BY <1>1
  <2>2. ASSUME p >= 2 * q + 2 PROVE w * p >= w * (2 * q + 2)
    BY <1>1, <2>2
  <2> QED BY <1>1, <2>1, <2>2
<1>5. p = 2 * q + (p % 2)
  BY <1>1, <1>2, <1>3, <1>4
<1> QED BY <1>5 DEF Bit, p, q

\* A coordinate is determined by its bits.
LEMMA BitsDetermine ==
    ASSUME NEW v \in Coordinates, NEW u \in Coordinates,
           \A w \in Weights : Bit(v, w) = Bit(u, w)
    PROVE  v = u
<1>t. v \in Nat /\ u \in Nat /\ v < Size /\ u < Size
  BY Sizes DEF Coordinates
<1> SUFFICES ASSUME v # u PROVE FALSE
  OBVIOUS
<1> DEFINE D == {w \in Weights : v \div w # u \div w}
<1>1. 1 \in D
  <2>1. 1 \in Weights
    BY Sizes DEF Weights
  <2>2. v \div 1 = v /\ u \div 1 = u
    BY <1>t
  <2> QED BY <2>1, <2>2
<1>2. D \in SUBSET (0..Size)
  BY Sizes DEF Weights
<1>3. PICK w \in D : \A x \in D : x <= w
  <2> HIDE DEF D
  <2> QED BY <1>1, <1>2, Greatest, Sizes
<1>4. w \in Weights /\ w \in Nat /\ w >= 1 /\ v \div w # u \div w
  BY <1>3, Sizes DEF Weights
<1>5. v \div (2 * w) = u \div (2 * w)
  <2>1. CASE 2 * w <= Size
    <3>1. 2 * w \in Weights
      BY <1>4, <2>1, WeightDoubles
    <3>2. ~(2 * w <= w)
      BY <1>4
    <3> QED BY <1>3, <3>1, <3>2
  <2>2. CASE ~(2 * w <= Size)
    <3>1. v < 2 * w /\ u < 2 * w
      BY <1>t, <1>4, <2>2, Sizes
    <3>2. v \div (2 * w) = 0 /\ u \div (2 * w) = 0
      BY <1>t, <1>4, <3>1
    <3> QED BY <3>2
  <2> QED BY <2>1, <2>2
<1>6. v \div w = 2 * (v \div (2 * w)) + Bit(v, w)
      /\ u \div w = 2 * (u \div (2 * w)) + Bit(u, w)
  BY <1>t, <1>4, DivTwice
<1> QED BY <1>4, <1>5, <1>6

\* A register that has not changed is read as it is.
LEMMA StableRead ==
    ASSUME NEW v \in Coordinates
    PROVE  Mixtures(v, v) \subseteq {v}
BY BitsDetermine DEF Mixtures

-----------------------------------------------------------------------------
(* Steps of the cursor *)

LEMMA ModAdd ==
    ASSUME NEW n \in Nat, n >= 1, NEW x \in Int, NEW y \in Int
    PROVE  ((x % n) + y) % n = (x + y) % n
<1> DEFINE q == x \div n
           r == x % n
           a == (r + y) \div n
           b == (x + y) \div n
<1>1. q \in Int /\ r \in Int /\ x = n * q + r
  OBVIOUS
<1>2. a \in Int /\ r + y = n * a + ((r + y) % n)
      /\ (r + y) % n \in 0..(n - 1)
  BY <1>1
<1>3. b \in Int /\ x + y = n * b + ((x + y) % n)
      /\ (x + y) % n \in 0..(n - 1)
  OBVIOUS
<1>4. PICK i, j \in 0..(n - 1) : i = (r + y) % n /\ j = (x + y) % n
  BY <1>2, <1>3
<1> HIDE DEF q, r, a, b
<1>5. PICK c \in Int : c = q + a - b
  BY <1>1, <1>2, <1>3
<1>6. j - i = n * c
  <2>1. n * c = n * q + n * a - n * b
    BY <1>1, <1>2, <1>3, <1>5
  <2>2. PICK Q, A, B \in Int : Q = n * q /\ A = n * a /\ B = n * b
    BY <1>1, <1>2, <1>3
  <2>3. x = Q + r /\ r + y = A + i /\ x + y = B + j
    BY <1>1, <1>2, <1>3, <1>4, <2>2
  <2>4. j - i = Q + A - B
    BY <1>1, <1>4, <2>3
  <2> QED BY <2>1, <2>2, <2>4
<1>7. c = 0
  <2>1. ASSUME c >= 1 PROVE FALSE
    <3>1. n * c >= n
      BY <2>1
    <3> QED BY <1>6, <3>1
  <2>2. ASSUME c <= -1 PROVE FALSE
    <3>1. n * c <= -n
      BY <2>2
    <3> QED BY <1>6, <3>1
  <2> QED BY <2>1, <2>2
<1>8. i = j
  BY <1>6, <1>7
<1>9. (r + y) % n = (x + y) % n
  BY <1>4, <1>8
<1> QED BY <1>9 DEF r

LEMMA MovedType ==
    ASSUME NEW p \in Coordinates \X Coordinates, NEW arrow \in Arrows,
           NEW slow \in BOOLEAN, NEW k \in Nat
    PROVE  Moved(p, arrow, slow, k) \in Coordinates \X Coordinates
<1>1. \A i \in Int : i % Size \in Coordinates
  BY Sizes DEF Coordinates
<1>2. speed_x(slow) \in Nat /\ speed_y(slow) \in Nat
  BY Sizes DEF speed_x, speed_y
<1>3. p[1] \in Coordinates /\ p[2] \in Coordinates
      /\ \A i \in Coordinates : i \in Int
  BY Sizes DEF Coordinates
<1>4. k * speed_x(slow) \in Int /\ k * speed_y(slow) \in Int
  BY <1>2
<1> QED BY <1>1, <1>3, <1>4 DEF Moved, Arrows

LEMMA MovedNone ==
    ASSUME NEW p \in Coordinates \X Coordinates, NEW arrow \in Arrows,
           NEW slow \in BOOLEAN
    PROVE  Moved(p, arrow, slow, 0) = p
<1>1. speed_x(slow) \in Nat /\ speed_y(slow) \in Nat
  BY Sizes DEF speed_x, speed_y
<1>2. PICK x, y \in Coordinates : p = <<x, y>>
  OBVIOUS
<1>3. x % Size = x /\ y % Size = y /\ x \in Int /\ y \in Int
  BY Sizes DEF Coordinates
<1>4. 0 * speed_x(slow) = 0 /\ 0 * speed_y(slow) = 0
  BY <1>1
<1> QED BY <1>2, <1>3, <1>4 DEF Moved, Arrows

\* One step more, wherever the coordinate wraps.
LEMMA MovedOnce ==
    ASSUME NEW p \in Coordinates \X Coordinates, NEW arrow \in Arrows,
           NEW slow \in BOOLEAN, NEW k \in Nat
    PROVE  Moved(Moved(p, arrow, slow, k), arrow, slow, 1)
             = Moved(p, arrow, slow, k + 1)
<1>1. PICK x, y \in Int : p = <<x, y>>
  BY Sizes DEF Coordinates
<1>2. \A z \in Int, s \in Nat :
        /\ (((z - k * s) % Size) - 1 * s) % Size = (z - (k + 1) * s) % Size
        /\ (((z + k * s) % Size) + 1 * s) % Size = (z + (k + 1) * s) % Size
  <2> SUFFICES ASSUME NEW z \in Int, NEW s \in Nat
      PROVE /\ (((z - k * s) % Size) - 1 * s) % Size = (z - (k + 1) * s) % Size
            /\ (((z + k * s) % Size) + 1 * s) % Size = (z + (k + 1) * s) % Size
    OBVIOUS
  <2>1. PICK t \in Int : t = k * s
    OBVIOUS
  <2>2. 1 * s = s /\ (k + 1) * s = t + s
    BY <2>1
  <2>3. /\ (((z - t) % Size) + (-s)) % Size = ((z - t) + (-s)) % Size
        /\ (((z + t) % Size) + s) % Size = ((z + t) + s) % Size
    <3>1. z - t \in Int /\ z + t \in Int /\ s \in Int /\ -s \in Int
      OBVIOUS
    <3> QED BY <3>1, Sizes, ModAdd, Zenon
  <2>4. (z - t) % Size \in Int /\ (z + t) % Size \in Int
    BY Sizes
  <2>5. /\ ((z - t) % Size) + (-s) = ((z - t) % Size) - s
        /\ (z - t) + (-s) = z - (t + s)
        /\ (z + t) + s = z + (t + s)
    BY <2>4
  <2> QED BY <2>1, <2>2, <2>3, <2>5
<1>3. speed_x(slow) \in Nat /\ speed_y(slow) \in Nat
  BY Sizes DEF speed_x, speed_y
<1>4. CASE arrow = "left"
  BY <1>1, <1>2, <1>3, <1>4 DEF Moved
<1>5. CASE arrow = "right"
  BY <1>1, <1>2, <1>3, <1>5 DEF Moved
<1>6. CASE arrow = "up"
  BY <1>1, <1>2, <1>3, <1>6 DEF Moved
<1>7. CASE arrow = "down"
  BY <1>1, <1>2, <1>3, <1>7 DEF Moved
<1> QED BY <1>4, <1>5, <1>6, <1>7 DEF Arrows

-----------------------------------------------------------------------------
(* Time *)

LEMMA DivNext ==
    ASSUME NEW n \in Nat, n >= 1, NEW x \in Nat
    PROVE  /\ (x + 1) % n = ((x % n) + 1) % n
           /\ (x + 1) \div n = (x \div n) + (IF (x + 1) % n = 0 THEN 1 ELSE 0)
<1>1. (x + 1) % n = ((x % n) + 1) % n
  <2>1. x \in Int /\ 1 \in Int
    OBVIOUS
  <2> QED BY <2>1, ModAdd, Zenon
<1> DEFINE q == x \div n
           r == x % n
<1>2. q \in Nat /\ r \in 0..(n - 1) /\ x = n * q + r
  OBVIOUS
<1> HIDE DEF q, r
<1>3. CASE r + 1 < n
  <2>1. x + 1 = n * q + (r + 1)
    BY <1>2
  <2>2. (x + 1) \div n = q /\ (x + 1) % n = r + 1
    BY <1>2, <1>3, <2>1
  <2> QED BY <1>1, <1>2, <2>2 DEF q, r
<1>4. CASE r + 1 = n
  <2>1. x + 1 = n * (q + 1)
    BY <1>2, <1>4
  <2>2. (x + 1) \div n = q + 1 /\ (x + 1) % n = 0
    BY <1>2, <2>1
  <2> QED BY <1>1, <2>2 DEF q, r
<1> QED BY <1>2, <1>3, <1>4

LEMMA StepsType ==
    ASSUME NEW m \in Int
    PROVE  StepsAfter(m) \in Nat
<1>1. CASE m < 3
  BY <1>1 DEF StepsAfter
<1>2. CASE m >= 3
  <2>1. (m - 3) \div Period \in Nat
    BY <1>2, Sizes
  <2> QED BY <1>2, <2>1 DEF StepsAfter
<1> QED BY <1>1, <1>2

\* The counter stands at zero whenever the next step is due.
LEMMA StepsNext ==
    ASSUME NEW m \in Int
    PROVE  /\ m < 2 => StepsAfter(m) = 0 /\ StepsAfter(m + 1) = 0
           /\ m >= 2 => /\ (m + 1 - 2) % Period = (((m - 2) % Period) + 1) % Period
                        /\ StepsAfter(m + 1) = StepsAfter(m)
                             + (IF (m - 2) % Period = 0 THEN 1 ELSE 0)
<1>1. CASE m < 2
  BY <1>1 DEF StepsAfter
<1>2. CASE m = 2
  <2>1. 0 % Period = 0 /\ 0 \div Period = 0
    BY Sizes
  <2>2. m - 2 = 0 /\ m + 1 - 3 = 0 /\ m + 1 - 2 = 0 + 1
    BY <1>2
  <2>3. (0 + 1) % Period = ((0 % Period) + 1) % Period
    BY DivNext, Sizes
  <2>4. StepsAfter(m) = 0 /\ StepsAfter(m + 1) = 1
    BY <1>2, <2>1 DEF StepsAfter
  <2> QED BY <1>2, <2>1, <2>2, <2>3, <2>4
<1>3. CASE m >= 3
  <2>1. /\ m - 3 \in Nat /\ m - 2 \in Nat
        /\ m - 3 + 1 = m - 2 /\ m - 2 + 1 = m + 1 - 2 /\ m + 1 - 3 = m - 2
    BY <1>3
  <2>2. (m - 2) \div Period
          = ((m - 3) \div Period) + (IF (m - 2) % Period = 0 THEN 1 ELSE 0)
    BY <2>1, DivNext, Sizes
  <2>3. (m + 1 - 2) % Period = (((m - 2) % Period) + 1) % Period
    BY <2>1, DivNext, Sizes
  <2>4. StepsAfter(m) = 1 + (m - 3) \div Period
        /\ StepsAfter(m + 1) = 1 + (m - 2) \div Period
    BY <1>3, <2>1 DEF StepsAfter
  <2>5. (m - 3) \div Period \in Int
    BY <2>1, Sizes
  <2> QED BY <1>3, <2>2, <2>3, <2>4, <2>5
<1> QED BY <1>1, <1>2, <1>3

LEMMA FirstIs ==
    ASSUME NEW s, NEW arrow \in Arrows, s \cap Arrows = {arrow}
    PROVE  First(s) = arrow
BY DEF First, Arrows

-----------------------------------------------------------------------------
(* Every step preserves the invariant *)

LEMMA Pairs ==
    ASSUME NEW b \in BOOLEAN \X BOOLEAN
    PROVE  b \in {Off, <<TRUE, FALSE>>, <<FALSE, TRUE>>, <<TRUE, TRUE>>}
<1>0. b = <<b[1], b[2]>> /\ b[1] \in BOOLEAN /\ b[2] \in BOOLEAN
  OBVIOUS
<1>1. b = <<b[1], b[2]>> /\ b[1] \in {TRUE, FALSE} /\ b[2] \in {TRUE, FALSE}
  BY <1>0
<1>2. CASE b[1] = TRUE
  BY <1>1, <1>2 DEF Off
<1>3. CASE b[1] = FALSE
  BY <1>1, <1>3 DEF Off
<1> QED BY <1>1, <1>2, <1>3

LEMMA PairsDiffer ==
    /\ Off # <<TRUE, FALSE>> /\ Off # <<FALSE, TRUE>> /\ Off # <<TRUE, TRUE>>
    /\ <<TRUE, FALSE>> # <<FALSE, TRUE>> /\ <<TRUE, FALSE>> # <<TRUE, TRUE>>
    /\ <<FALSE, TRUE>> # <<TRUE, TRUE>>
BY DEF Off

LEMMA InitIInv == Init => IInv
<1> SUFFICES ASSUME Init PROVE IInv
  OBVIOUS
<1>1. 0 \in Coordinates /\ 0 \in 0..(Period - 1) /\ 0 \in 0..MinPress
      /\ EndOfHold \in Nat
  <2>1. Turns * Period \in Nat
    BY Sizes
  <2> QED BY <2>1, Sizes DEF Coordinates, EndOfHold
<1>2. CursorTypeOK
  BY <1>1 DEF Init, CursorInit, CursorTypeOK
<1>3. NoHold \in [arrow : Arrows \cup {"none"}, n : 0..EndOfHold,
                  origin : Coordinates \X Coordinates]
  BY <1>1 DEF NoHold
<1>4. key0 = FALSE /\ here = FALSE /\ trust = FALSE /\ centred = FALSE
      /\ key_reset = Off /\ reset = Off /\ hold = NoHold /\ quiet = 0
  BY Zenon DEF Init, Off
<1>5. key0 \in BOOLEAN /\ here \in BOOLEAN /\ trust \in BOOLEAN /\ centred \in BOOLEAN
      /\ key_reset \in BOOLEAN \X BOOLEAN /\ reset \in BOOLEAN \X BOOLEAN
  BY <1>4 DEF Off
<1>6. TypeOK
  <2>1. seen \in BOOLEAN
    BY Zenon DEF Init
  <2> QED BY <1>1, <1>2, <1>3, <1>4, <1>5, <2>1 DEF Init, TypeOK
<1>7. PressInv /\ QuietInv /\ TrustInv /\ CentredInv /\ HoldInv
  BY <1>4 DEF PressInv, QuietInv, TrustInv, CentredInv, HoldInv, Off, NoHold
<1> QED BY <1>6, <1>7 DEF IInv

LEMMA HoldType == EndOfHold \in Nat
<1>1. Turns * Period \in Nat
  BY Sizes
<1> QED BY <1>1, Sizes DEF EndOfHold

\* What a Cycle does to the cursor.
LEMMA CursorMoves ==
    ASSUME TypeOK, Cycle
    PROVE  /\ CursorTypeOK'
           /\ reset[2] => cur' = Centre
           /\ ~reset[2] /\ NoArrow(q2) => cur' = cur /\ debounce' = 0
           /\ ~reset[2] /\ ~NoArrow(q2) => Steer(q2)
<1>1. IF reset[2] THEN CursorReset ELSE Still(q2) \/ Steer(q2)
  BY DEF Cycle, VideoReset
<1>2. CASE reset[2]
  <2>1. cur' = Centre /\ debounce' = 0
    BY <1>1, <1>2 DEF CursorReset
  <2>2. Centre \in Coordinates \X Coordinates /\ 0 \in 0..(Period - 1)
    BY Sizes DEF Centre, Coordinates
  <2> QED BY <1>2, <2>1, <2>2 DEF CursorTypeOK
<1>3. CASE ~reset[2] /\ NoArrow(q2)
  <2>1. Still(q2)
    BY <1>1, <1>3 DEF Steer, NoArrow
  <2>2. 0 \in 0..(Period - 1)
    BY Sizes
  <2> QED BY <1>3, <2>1, <2>2 DEF Still, TypeOK, CursorTypeOK
<1>4. CASE ~reset[2] /\ ~NoArrow(q2)
  <2>1. Steer(q2)
    BY <1>1, <1>4 DEF Still, NoArrow
  <2>2. First(q2) \in Arrows /\ ("M" \in q2) \in BOOLEAN /\ 1 \in Nat
    BY DEF First, Arrows
  <2>3. Moved(cur, First(q2), "M" \in q2, 1) \in Coordinates \X Coordinates
    BY <2>2, MovedType DEF TypeOK, CursorTypeOK
  <2>4. cur' \in Coordinates \X Coordinates
    BY <2>1, <2>3 DEF Steer, TypeOK, CursorTypeOK
  <2>5. debounce' \in 0..(Period - 1)
    BY <2>1, Sizes DEF Steer, TypeOK, CursorTypeOK
  <2> QED BY <1>4, <2>1, <2>4, <2>5 DEF CursorTypeOK
<1> QED BY <1>2, <1>3, <1>4

\* The synchronizers of the keys.
LEMMA KeysMove ==
    ASSUME TypeOK, Cycle
    PROVE  /\ HOLDING \cap before \subseteq q1' /\ q1' \subseteq HOLDING \cup before
           /\ q2' = q1 /\ before' = HOLDING /\ HOLDING' = HOLDING
BY DEF Cycle, ShiftInputs, Taken

LEMMA CycleType ==
    ASSUME TypeOK, Cycle
    PROVE  TypeOK'
<1>1. CursorTypeOK'
  BY CursorMoves
<1>2. HOLDING' \subseteq Key /\ before' \subseteq Key /\ q1' \subseteq Key /\ q2' \subseteq Key
  BY KeysMove DEF TypeOK
<1>3. key0' \in BOOLEAN /\ trust' \in BOOLEAN /\ centred' \in BOOLEAN
      /\ key_reset' \in BOOLEAN \X BOOLEAN
  BY DEF Cycle, TypeOK
<1>4. here' \in BOOLEAN
  BY Zenon DEF Cycle, TypeOK
<1>5. reset' \in BOOLEAN \X BOOLEAN
  BY DEF Cycle, TypeOK
<1>6. since' \in 0..2 /\ pressed' \in 0..MinPress /\ quiet' \in 0..4
  BY Sizes DEF Cycle, TypeOK
<1>7. was' \in Coordinates \X Coordinates /\ pc' \in {"position", "keys"} /\ event' \in 0..2
      /\ space' \in 0..1 /\ space_last' \in 0..1 /\ seen' \in BOOLEAN /\ owed' \in Int
  BY DEF Cycle, TypeOK, CursorTypeOK, mouse
<1>8. hold' \in [arrow : Arrows \cup {"none"}, n : 0..EndOfHold,
                 origin : Coordinates \X Coordinates]
  <2>1. CASE hold.arrow = "none" \/ hold.n = EndOfHold
    <3>1. 0 \in Coordinates
      BY Sizes DEF Coordinates
    <3> QED BY <2>1, <3>1, HoldType DEF Cycle, NoHold
  <2>2. CASE ~(hold.arrow = "none" \/ hold.n = EndOfHold)
    <3>1. hold.n + 1 \in 0..EndOfHold
      BY <2>2, HoldType DEF TypeOK
    <3> QED BY <2>2, <3>1 DEF Cycle, TypeOK
  <2> QED BY <2>1, <2>2
<1> QED BY <1>1, <1>2, <1>3, <1>4, <1>5, <1>6, <1>7, <1>8 DEF TypeOK

LEMMA CyclePress ==
    ASSUME IInv, Cycle
    PROVE  PressInv'
<1>t. /\ key0 \in BOOLEAN /\ since \in 0..2 /\ pressed \in 0..MinPress
      /\ key_reset \in BOOLEAN \X BOOLEAN /\ reset \in BOOLEAN \X BOOLEAN
  BY DEF IInv, TypeOK
<1>1. key0' = key0 /\ key_reset' = key_reset /\ HOLDING' = HOLDING /\ before' = HOLDING
      /\ reset' = <<key0, reset[1]>>
  BY DEF Cycle, ShiftInputs
<1> SUFFICES ASSUME key0
    PROVE  /\ pressed' >= 1 => reset'[1]
           /\ pressed' >= 2 => reset'[2]
           /\ pressed' >= 3 => cur' = Centre
           /\ key_reset = Off => pressed' <= since'
           /\ key_reset = <<TRUE, FALSE>> => pressed' <= since' + 2
           /\ key_reset = <<TRUE, TRUE>> /\ HOLDING # {} => pressed' <= since' + 4
           /\ pressed' >= 7 => HOLDING = {}
  BY <1>1 DEF IInv, PressInv
<1>2. pressed' <= pressed + 1 /\ pressed' \in Nat
  BY <1>t, Sizes DEF Cycle
<1>3. /\ pressed >= 1 => reset[1]
      /\ pressed >= 2 => reset[2]
      /\ key_reset # <<FALSE, TRUE>>
  BY DEF IInv, PressInv
<1>4. pressed' >= 2 => reset'[2]
  BY <1>t, <1>1, <1>2, <1>3
<1>5. pressed' >= 3 => cur' = Centre
  BY <1>t, <1>2, <1>3, CursorMoves DEF IInv
<1>6. KeyDue <=> key_reset # <<TRUE, TRUE>> \/ HOLDING # {}
  BY DEF KeyDue
<1>7. KeyDue => since' = since + 1 /\ since' <= 2
  BY <1>t DEF Cycle
<1>8. key_reset = Off => pressed' <= since'
  BY <1>t, <1>2, <1>6, <1>7 DEF IInv, PressInv, Off
<1>9. key_reset = <<TRUE, FALSE>> => pressed' <= since' + 2
  BY <1>t, <1>2, <1>6, <1>7 DEF IInv, PressInv
<1>10. key_reset = <<TRUE, TRUE>> /\ HOLDING # {} => pressed' <= since' + 4
  BY <1>t, <1>2, <1>6, <1>7 DEF IInv, PressInv
<1>11. key_reset = Off \/ key_reset = <<TRUE, FALSE>> \/ key_reset = <<TRUE, TRUE>>
  BY <1>t, <1>3, Pairs, Zenon
<1>12. ASSUME pressed' >= 7, HOLDING # {} PROVE FALSE
  <2>1. KeyDue
    BY <1>6, <1>12
  <2>2. PICK n \in 0..2 : n = since'
    BY <1>t, <1>7, <2>1
  <2>3. PICK p \in Nat : p = pressed'
    BY <1>2
  <2>4. p <= n \/ p <= n + 2 \/ p <= n + 4
    BY <1>8, <1>9, <1>10, <1>11, <1>12, <2>2, <2>3, Zenon
  <2> QED BY <1>12, <2>3, <2>4
<1> QED BY <1>1, <1>4, <1>5, <1>8, <1>9, <1>10, <1>12

LEMMA CycleQuiet ==
    ASSUME IInv, Cycle
    PROVE  QuietInv' /\ TrustInv' /\ CentredInv'
<1>t. /\ key0 \in BOOLEAN /\ reset \in BOOLEAN \X BOOLEAN /\ quiet \in 0..4
  BY DEF IInv, TypeOK
<1>1. key0' = key0 /\ reset' = <<key0, reset[1]>> /\ was' = cur /\ trust' = trust
      /\ centred' = centred /\ pc' = pc
  BY DEF Cycle, mouse
<1>2. QuietInv'
  <2>1. CASE quiet' = 0
    BY <2>1 DEF QuietInv
  <2>2. CASE quiet' # 0
    <3>1. /\ NoArrow(HOLDING) /\ ~key0 /\ ~reset[1] /\ ~reset[2]
          /\ quiet' = IF quiet < 4 THEN quiet + 1 ELSE 4
      BY <2>2 DEF Cycle, NoArrow
    <3>2. ~key0' /\ reset' = Off /\ NoArrow(HOLDING') /\ NoArrow(before')
      BY <1>t, <1>1, <3>1, KeysMove DEF IInv, Off, NoArrow
    <3>3. quiet >= 1 => NoArrow(q1')
      BY <3>1, KeysMove DEF IInv, QuietInv, NoArrow
    <3>4. quiet >= 2 => NoArrow(q2')
      BY KeysMove DEF IInv, QuietInv, NoArrow
    <3>5. quiet >= 3 => debounce' = 0 /\ was' = cur'
      BY <1>1, <3>1, CursorMoves DEF IInv, QuietInv
    <3> QED BY <1>t, <3>1, <3>2, <3>3, <3>4, <3>5 DEF QuietInv
  <2> QED BY <2>1, <2>2
<1>3. TrustInv'
  <2> SUFFICES ASSUME trust
      PROVE  /\ pc' = "keys" /\ here'
             /\ ~key0' /\ reset' = Off
             /\ NoArrow(HOLDING') /\ NoArrow(before') /\ NoArrow(q1') /\ NoArrow(q2')
    BY <1>1 DEF TrustInv
  <2>1. /\ pc = "keys" /\ here /\ ~key0 /\ reset = Off
        /\ NoArrow(HOLDING) /\ NoArrow(before) /\ NoArrow(q1) /\ NoArrow(q2)
    BY DEF IInv, TrustInv
  <2>2. ~reset[1] /\ ~reset[2]
    BY <2>1 DEF Off
  <2>3. NoArrow(HOLDING') /\ NoArrow(before') /\ NoArrow(q1') /\ NoArrow(q2')
    BY <2>1, KeysMove DEF IInv, NoArrow
  <2>4. cur' = cur
    BY <2>1, <2>2, CursorMoves DEF IInv
  <2>5. here'
    BY <2>1, <2>4 DEF Cycle
  <2>6. reset' = Off
    BY <1>t, <1>1, <2>1, <2>2 DEF Off
  <2> QED BY <1>1, <2>1, <2>3, <2>5, <2>6
<1>4. CentredInv'
  <2> SUFFICES ASSUME centred
      PROVE  /\ cur' = Centre /\ NoArrow(HOLDING') /\ NoArrow(before')
             /\ NoArrow(q1') /\ (NoArrow(q2') \/ reset'[2])
    BY <1>1 DEF CentredInv
  <2>1. /\ cur = Centre /\ NoArrow(HOLDING) /\ NoArrow(before)
        /\ NoArrow(q1) \/ reset = <<TRUE, TRUE>>
        /\ NoArrow(q2) \/ reset[2]
    BY DEF IInv, CentredInv
  <2>2. NoArrow(HOLDING') /\ NoArrow(before') /\ NoArrow(q1')
    BY <2>1, KeysMove DEF IInv, NoArrow
  <2>3. cur' = Centre
    BY <2>1, CursorMoves DEF IInv
  <2>4. reset'[2] <=> reset[1]
    BY <1>t, <1>1
  <2>5. reset = <<TRUE, TRUE>> => reset[1]
    OBVIOUS
  <2>6. NoArrow(q2') \/ reset[1]
    BY <2>1, <2>5, KeysMove, Zenon DEF IInv
  <2> QED BY <2>2, <2>3, <2>4, <2>6
<1> QED BY <1>2, <1>3, <1>4

\* The cursor in a Cycle of a hold, when the synchronizers show the arrow and
\* before they do.
LEMMA HoldCursor ==
    ASSUME IInv, Cycle, hold.arrow # "none", NEW m \in Int, m >= -1, Held(m)
    PROVE  LET slow == "M" \in HOLDING
           IN  /\ debounce' = IF m + 1 < 2 THEN 0 ELSE (m + 1 - 2) % Period
               /\ cur' = Moved(hold.origin, hold.arrow, slow, StepsAfter(m + 1))
<1> DEFINE slow == "M" \in HOLDING
           o == hold.origin
           a == hold.arrow
<1>t. /\ o \in Coordinates \X Coordinates /\ a \in Arrows /\ slow \in BOOLEAN
      /\ debounce \in 0..(Period - 1)
  BY DEF IInv, TypeOK, CursorTypeOK
<1>0. reset = Off /\ ("M" \in q2 <=> slow) /\ HOLDING \cap Arrows = {a}
  BY DEF IInv, HoldInv
<1>1. ~reset[2]
  BY <1>0 DEF Off
<1>2. /\ q2 \cap Arrows = ArrowIf(m >= 2)
      /\ debounce = IF m < 2 THEN 0 ELSE (m - 2) % Period
      /\ cur = Moved(o, a, slow, StepsAfter(m))
  BY DEF Held
<1>3. CASE m < 2
  <2>1. cur' = cur /\ debounce' = 0
    BY <1>1, <1>2, <1>3, CursorMoves DEF IInv, NoArrow, ArrowIf
  <2>2. StepsAfter(m + 1) = StepsAfter(m)
    BY <1>3, StepsNext
  <2>3. m + 1 < 2 \/ m + 1 - 2 = 0
    BY <1>3
  <2>4. 0 % Period = 0
    BY Sizes
  <2> QED BY <1>2, <2>1, <2>2, <2>3, <2>4
<1>4. CASE m >= 2
  <2>1. q2 \cap Arrows = {a}
    BY <1>2, <1>4 DEF ArrowIf
  <2>2. Steer(q2)
    BY <1>1, <2>1, CursorMoves DEF IInv, NoArrow
  <2>3. First(q2) = a /\ ("M" \in q2) = slow
    BY <1>t, <1>0, <2>1, FirstIs
  <2>4. /\ cur' = IF debounce = 0 THEN Moved(cur, a, slow, 1) ELSE cur
        /\ debounce' = (debounce + 1) % Period
    BY <2>2, <2>3 DEF Steer
  <2>5. debounce = (m - 2) % Period
    BY <1>2, <1>4
  <2>6. /\ (m + 1 - 2) % Period = (((m - 2) % Period) + 1) % Period
        /\ StepsAfter(m + 1) = StepsAfter(m) + (IF debounce = 0 THEN 1 ELSE 0)
    BY <1>4, <2>5, StepsNext
  <2>7. StepsAfter(m) \in Nat
    BY StepsType
  <2>8. ~(m + 1 < 2)
    BY <1>4
  <2>9. debounce' = IF m + 1 < 2 THEN 0 ELSE (m + 1 - 2) % Period
    BY <2>4, <2>5, <2>6, <2>8
  <2>10. Moved(Moved(o, a, slow, StepsAfter(m)), a, slow, 1)
           = Moved(o, a, slow, StepsAfter(m) + 1)
    BY <1>t, <2>7, MovedOnce
  <2>11. CASE debounce = 0
    <3>1. StepsAfter(m + 1) = StepsAfter(m) + 1
      BY <2>6, <2>11
    <3> QED BY <1>2, <2>4, <2>9, <2>10, <2>11, <3>1
  <2>12. CASE debounce # 0
    <3>1. StepsAfter(m + 1) = StepsAfter(m)
      BY <2>6, <2>7, <2>12
    <3> QED BY <1>2, <2>4, <2>9, <2>12, <3>1
  <2> QED BY <2>11, <2>12
<1> QED BY <1>3, <1>4

LEMMA CycleHold ==
    ASSUME IInv, Cycle
    PROVE  HoldInv'
<1>1. CASE hold.arrow = "none" \/ hold.n = EndOfHold
  BY <1>1 DEF Cycle, NoHold, HoldInv
<1>2. CASE ~(hold.arrow = "none" \/ hold.n = EndOfHold)
  <2>1. PICK n \in Nat : n = hold.n
    BY HoldType DEF IInv, TypeOK
  <2>2. hold'.arrow = hold.arrow /\ hold'.n = n + 1 /\ hold'.origin = hold.origin
        /\ hold.arrow \in Arrows
    BY <1>2, <2>1, HoldType DEF Cycle, IInv, TypeOK
  <2>3. /\ ~key0 /\ reset = Off /\ key_reset = Off
        /\ HOLDING \cap Arrows = {hold.arrow}
        /\ before \cap Arrows = ArrowIf(n >= 1)
        /\ \A s \in {before, q1, q2} : "M" \in s <=> "M" \in HOLDING
        /\ Held(n) \/ Held(n - 1)
    BY <1>2, <2>1 DEF IInv, HoldInv
  <2>4. ~key0' /\ reset' = Off /\ key_reset' = Off /\ HOLDING' = HOLDING
    <3>1. key0 = FALSE /\ reset[1] = FALSE
      BY <2>3 DEF IInv, TypeOK, Off
    <3> QED BY <2>3, <3>1 DEF Cycle, Off
  <2>5. before' \cap Arrows = ArrowIf(hold.n >= 1)'
    BY <2>1, <2>2, <2>3, KeysMove DEF IInv, ArrowIf
  <2>6. \A s \in {before', q1', q2'} : "M" \in s <=> "M" \in HOLDING'
    <3>1. "M" \in q1' <=> "M" \in HOLDING
      BY <2>3, KeysMove DEF IInv
    <3> QED BY <2>3, <3>1, KeysMove DEF IInv
  <2>7. ASSUME NEW m \in {n - 1, n}, Held(m),
               q1' \cap Arrows = IF m + 1 >= 1 THEN {hold.arrow} ELSE {}
        PROVE  Held(m + 1)'
    <3>1. m \in Int /\ m >= -1
      OBVIOUS
    <3>2. q1' \cap Arrows = ArrowIf(m + 1 >= 1)'
      BY <2>2, <2>7 DEF ArrowIf
    <3>3. q2' \cap Arrows = ArrowIf(m + 1 >= 2)'
      BY <2>2, <2>7, <3>1, KeysMove DEF IInv, Held, ArrowIf
    <3>4. /\ debounce' = IF m + 1 < 2 THEN 0 ELSE (m + 1 - 2) % Period
          /\ cur' = Moved(hold.origin, hold.arrow, "M" \in HOLDING, StepsAfter(m + 1))
      BY <1>2, <2>7, <3>1, HoldCursor
    <3> QED BY <2>2, <2>4, <3>2, <3>3, <3>4 DEF Held
  <2>8. CASE n >= 1
    <3>1. q1' \cap Arrows = {hold.arrow}
      BY <2>3, <2>8, KeysMove DEF IInv, ArrowIf
    <3>2. PICK m \in {n - 1, n} : Held(m)
      BY <2>3
    <3>3. Held(m + 1)'
      BY <2>7, <2>8, <3>1, <3>2
    <3>4. m + 1 = hold'.n \/ m + 1 = hold'.n - 1
      BY <2>2
    <3>5. Held(hold.n)' \/ Held(hold.n - 1)'
      BY <3>3, <3>4 DEF Held
    <3> QED BY <2>2, <2>3, <2>4, <2>5, <2>6, <3>5 DEF HoldInv
  <2>9. CASE n = 0
    <3>1. Held(0) /\ Held(-1)
      <4>1. StepsAfter(0) = 0 /\ StepsAfter(-1) = 0
        BY DEF StepsAfter
      <4> QED BY <2>3, <2>9, <4>1 DEF Held, ArrowIf
    <3>2. q1' \cap Arrows = {} \/ q1' \cap Arrows = {hold.arrow}
      BY <2>3, <2>9, KeysMove DEF IInv, ArrowIf
    <3>3. CASE q1' \cap Arrows = {hold.arrow}
      <4>1. Held(0 + 1)'
        BY <2>7, <2>9, <3>1, <3>3
      <4>2. Held(hold.n)'
        BY <2>2, <2>9, <4>1 DEF Held
      <4> QED BY <2>2, <2>3, <2>4, <2>5, <2>6, <4>2 DEF HoldInv
    <3>4. CASE q1' \cap Arrows = {}
      <4>1. Held(-1 + 1)'
        BY <2>7, <2>9, <3>1, <3>4
      <4>2. Held(hold.n - 1)'
        BY <2>2, <2>9, <4>1 DEF Held
      <4> QED BY <2>2, <2>3, <2>4, <2>5, <2>6, <4>2 DEF HoldInv
    <3> QED BY <3>2, <3>3, <3>4
  <2> QED BY <2>1, <2>8, <2>9
<1> QED BY <1>1, <1>2

LEMMA KeyTickIInv ==
    ASSUME IInv, KeyTick
    PROVE  IInv'
<1>t. /\ key0 \in BOOLEAN /\ since \in 0..2 /\ pressed \in 0..MinPress
      /\ key_reset \in BOOLEAN \X BOOLEAN
  BY DEF IInv, TypeOK
<1>u. UNCHANGED <<cursorVars, before, q1, q2, key0, reset, pressed, was, mouse,
                  here, quiet, trust, centred, hold>>
  BY DEF KeyTick
<1>1. /\ since' = 0 /\ key_reset' = <<key0, key_reset[1]>>
      /\ HOLDING' = IF key_reset[2] THEN {} ELSE HOLDING
  BY DEF KeyTick
<1>2. TypeOK'
  <2>1. key_reset' \in BOOLEAN \X BOOLEAN
    BY <1>t, <1>1
  <2>2. HOLDING' \subseteq Key /\ since' \in 0..2
    BY <1>1 DEF IInv, TypeOK
  <2> QED BY <1>u, <2>1, <2>2 DEF IInv, TypeOK, CursorTypeOK, cursorVars, mouse
<1>3. PressInv'
  <2>1. CASE key0
    <3>1. key_reset = Off \/ key_reset = <<TRUE, FALSE>> \/ key_reset = <<TRUE, TRUE>>
      BY <1>t, <2>1, Pairs DEF IInv, PressInv
    <3>2. PICK n \in 0..2 : n = since
      BY <1>t
    <3>3. PICK p \in Nat : p = pressed
      BY <1>t
    <3>a. /\ p >= 1 => reset[1]
          /\ p >= 2 => reset[2]
          /\ p >= 3 => cur = Centre
          /\ p >= 7 => before = {}
      BY <2>1, <3>3 DEF IInv, PressInv
    <3>b. key0' = key0 /\ reset' = reset /\ cur' = cur /\ before' = before /\ pressed' = p
      BY <1>u, <3>3 DEF cursorVars
    <3>4. CASE key_reset = Off
      <4>1. key_reset' = <<TRUE, FALSE>>
        BY <1>1, <2>1, <3>4, <1>t DEF Off
      <4>2. p <= n
        BY <2>1, <3>2, <3>3, <3>4 DEF IInv, PressInv
      <4>3. p <= since' + 2
        BY <1>1, <3>2, <4>2
      <4> QED BY <2>1, <3>a, <3>b, <4>1, <4>3, PairsDiffer DEF PressInv
    <3>5. CASE key_reset = <<TRUE, FALSE>>
      <4>1. key_reset' = <<TRUE, TRUE>>
        BY <1>1, <2>1, <3>5, <1>t
      <4>2. p <= n + 2
        BY <2>1, <3>2, <3>3, <3>5 DEF IInv, PressInv
      <4>3. p <= since' + 4
        BY <1>1, <3>2, <4>2
      <4> QED BY <2>1, <3>a, <3>b, <4>1, <4>3, PairsDiffer DEF PressInv
    <3>6. CASE key_reset = <<TRUE, TRUE>>
      <4>1. key_reset' = <<TRUE, TRUE>> /\ HOLDING' = {}
        BY <1>1, <2>1, <3>6, <1>t
      <4> QED BY <2>1, <3>a, <3>b, <4>1, PairsDiffer DEF PressInv
    <3> QED BY <3>1, <3>4, <3>5, <3>6
  <2>2. CASE ~key0
    <3>1. key_reset' # <<TRUE, FALSE>>
      BY <1>t, <1>1, <2>2
    <3> QED BY <1>u, <2>2, <3>1 DEF PressInv
  <2> QED BY <2>1, <2>2
<1>4. NoArrow(HOLDING) => NoArrow(HOLDING')
  BY <1>1 DEF NoArrow
<1>5. QuietInv' /\ TrustInv' /\ CentredInv'
  BY <1>u, <1>4 DEF IInv, QuietInv, TrustInv, CentredInv, cursorVars, mouse
<1>6. HoldInv'
  <2>1. hold.arrow = "none"
    <3> SUFFICES ASSUME hold.arrow # "none" PROVE FALSE
      OBVIOUS
    <3>1. ~key0 /\ key_reset = Off
      BY DEF IInv, HoldInv
    <3>2. key0 = FALSE
      BY <1>t, <3>1
    <3> QED BY <3>1, <3>2 DEF KeyTick, KeyDue, Off
  <2> QED BY <1>u, <2>1 DEF HoldInv
<1> QED BY <1>2, <1>3, <1>5, <1>6 DEF IInv

LEMMA PressKey0IInv ==
    ASSUME IInv, PressKey0
    PROVE  IInv'
<1>u. /\ key0' = TRUE /\ pressed' = 0 /\ trust' = FALSE /\ quiet' = 0 /\ hold' = NoHold
      /\ key_reset = Off /\ reset = Off
      /\ UNCHANGED <<cursorVars, inputs, since, key_reset, reset, was, mouse, here,
                     centred>>
  BY DEF PressKey0, Off
<1>1. TypeOK'
  <2>1. NoHold \in [arrow : Arrows \cup {"none"}, n : 0..EndOfHold,
                    origin : Coordinates \X Coordinates]
    BY Sizes, HoldType DEF NoHold, Coordinates
  <2>2. key0' \in BOOLEAN /\ trust' \in BOOLEAN /\ pressed' \in 0..MinPress
    <3>1. key0' \in BOOLEAN /\ trust' \in BOOLEAN
      BY <1>u, Zenon
    <3> QED BY <1>u, <3>1, Sizes
  <2>3. UNCHANGED <<cur, debounce, HOLDING, before, q1, q2, since, key_reset, reset, was,
                    pc, event, space, space_last, seen, owed, here, centred>>
    BY <1>u DEF cursorVars, mouse, inputs
  <2> QED BY <1>u, <2>1, <2>2, <2>3
          DEF IInv, TypeOK, CursorTypeOK, cursorVars, mouse, inputs
<1>2. PressInv'
  BY <1>u DEF IInv, TypeOK, PressInv, Off
<1>3. QuietInv' /\ TrustInv' /\ HoldInv'
  BY <1>u DEF QuietInv, TrustInv, HoldInv, NoHold
<1>4. CentredInv'
  BY <1>u DEF IInv, CentredInv, cursorVars, inputs
<1> QED BY <1>1, <1>2, <1>3, <1>4 DEF IInv

LEMMA ReleaseKey0IInv ==
    ASSUME IInv, ReleaseKey0
    PROVE  IInv'
<1>t. /\ key0 \in BOOLEAN /\ since \in 0..2
      /\ key_reset \in BOOLEAN \X BOOLEAN /\ reset \in BOOLEAN \X BOOLEAN
  BY DEF IInv, TypeOK
<1>u. /\ key0 /\ key0' = FALSE /\ pressed = MinPress /\ pressed' = 0 /\ centred' = TRUE
      /\ UNCHANGED <<cursorVars, inputs, since, key_reset, reset, was, mouse, here,
                     quiet, trust, hold>>
  BY DEF ReleaseKey0
<1>1. TypeOK'
  <2>1. key0' \in BOOLEAN /\ centred' \in BOOLEAN /\ pressed' \in 0..MinPress
    <3>1. key0' \in BOOLEAN /\ centred' \in BOOLEAN
      BY <1>u, Zenon
    <3> QED BY <1>u, <3>1, Sizes
  <2>2. UNCHANGED <<cur, debounce, HOLDING, before, q1, q2, since, key_reset, reset, was,
                    pc, event, space, space_last, seen, owed, here, quiet, trust,
                    hold>>
    BY <1>u DEF cursorVars, mouse, inputs
  <2> QED BY <2>1, <2>2 DEF IInv, TypeOK, CursorTypeOK
<1>2. PICK p \in Nat : p = pressed /\ p >= 7
  BY <1>u, Sizes
<1>3. reset[1] /\ reset[2] /\ cur = Centre /\ before = {}
  BY <1>u, <1>2 DEF IInv, PressInv
<1>4. reset = <<TRUE, TRUE>>
  <2>1. reset = <<reset[1], reset[2]>> /\ reset[1] \in BOOLEAN /\ reset[2] \in BOOLEAN
    BY <1>t
  <2>2. reset[1] = TRUE /\ reset[2] = TRUE
    BY <1>3, <2>1
  <2> QED BY <2>1, <2>2
<1>5. key_reset = <<TRUE, TRUE>> /\ HOLDING = {}
  <2>1. PICK n \in 0..2 : n = since
    BY <1>t
  <2>2. key_reset # Off /\ key_reset # <<TRUE, FALSE>>
    <3>1. /\ key_reset = Off => p <= n
          /\ key_reset = <<TRUE, FALSE>> => p <= n + 2
      BY <1>u, <1>2, <2>1 DEF IInv, PressInv
    <3>2. ~(p <= n) /\ ~(p <= n + 2)
      BY <1>2
    <3> QED BY <3>1, <3>2, Zenon
  <2>3. key_reset = <<TRUE, TRUE>>
    BY <1>t, <1>u, <2>2, Pairs DEF IInv, PressInv
  <2>4. HOLDING = {}
    BY <1>u, <1>2, <2>1, <2>3 DEF IInv, PressInv
  <2> QED BY <2>3, <2>4
<1>6. PressInv'
  BY <1>u, <1>5 DEF PressInv
<1>7. quiet' = 0 /\ ~trust' /\ hold'.arrow = "none"
  BY <1>u DEF IInv, TypeOK, QuietInv, TrustInv, HoldInv
<1>8. QuietInv' /\ TrustInv' /\ HoldInv'
  BY <1>7 DEF QuietInv, TrustInv, HoldInv
<1>9. CentredInv'
  BY <1>u, <1>3, <1>4, <1>5 DEF CentredInv, NoArrow, cursorVars, inputs
<1> QED BY <1>1, <1>6, <1>8, <1>9 DEF IInv

LEMMA ReadPositionIInv ==
    ASSUME IInv, ReadPosition
    PROVE  IInv'
<1>u. /\ pc = "position" /\ pc' = "keys" /\ trust' = (quiet = 4)
      /\ UNCHANGED <<cursorVars, inputs, resets, was, event, space, space_last,
                     seen, owed, quiet, centred, hold>>
  BY DEF ReadPosition
<1>1. TypeOK'
  <2>1. here' \in BOOLEAN /\ trust' \in BOOLEAN
    BY Zenon DEF ReadPosition
  <2> QED BY <1>u, <2>1 DEF IInv, TypeOK, CursorTypeOK, cursorVars, inputs, resets
<1>2. PressInv' /\ QuietInv' /\ CentredInv'
  BY <1>u DEF IInv, PressInv, QuietInv, CentredInv, cursorVars, inputs, resets
<1>3. HoldInv'
  BY <1>u DEF IInv, HoldInv, Held, ArrowIf, cursorVars, inputs, resets
<1>4. TrustInv'
  <2> SUFFICES ASSUME quiet = 4
      PROVE  /\ here' /\ ~key0 /\ reset = Off
             /\ NoArrow(HOLDING) /\ NoArrow(before) /\ NoArrow(q1) /\ NoArrow(q2)
    BY <1>u DEF TrustInv, inputs, resets
  <2>1. /\ was = cur /\ ~key0 /\ reset = Off
        /\ NoArrow(HOLDING) /\ NoArrow(before) /\ NoArrow(q1) /\ NoArrow(q2)
    BY DEF IInv, QuietInv
  <2>2. PICK x \in Mixtures(was[1], cur[1]), y \in Mixtures(was[2], cur[2]) :
          here' = (Fields(x, y) = cur)
    BY DEF ReadPosition
  <2>3. PICK cx, cy \in Coordinates : cur = <<cx, cy>>
    BY DEF IInv, TypeOK, CursorTypeOK
  <2>4. x = cx /\ y = cy
    BY <2>1, <2>2, <2>3, StableRead
  <2>5. Fields(x, y) = cur
    BY <2>3, <2>4 DEF Fields
  <2> QED BY <2>1, <2>2, <2>5
<1> QED BY <1>1, <1>2, <1>3, <1>4 DEF IInv

LEMMA ReadKeysIInv ==
    ASSUME IInv, ReadKeys
    PROVE  IInv'
<1>u. /\ pc' = "position" /\ here' = FALSE /\ trust' = FALSE
      /\ UNCHANGED <<cursorVars, inputs, resets, was, quiet, centred, hold>>
  BY DEF ReadKeys
<1>1. TypeOK'
  <2>1. event' \in 0..2
    BY DEF ReadKeys, Result
  <2>2. space_key \in 0..1
    BY DEF space_key
  <2>3. space' \in 0..1 /\ space_last' \in 0..1
    BY <2>2 DEF ReadKeys, KeepStatics, IInv, TypeOK
  <2>4. seen' \in BOOLEAN
    <3>1. seen' = (space_key = 1)
      BY DEF ReadKeys
    <3> QED BY <3>1, Zenon
  <2>5. owed' \in Int
    BY DEF ReadKeys, IInv, TypeOK
  <2> QED BY <1>u, <2>1, <2>3, <2>4, <2>5 DEF IInv, TypeOK, CursorTypeOK, cursorVars, inputs, resets
<1>2. PressInv' /\ QuietInv' /\ CentredInv' /\ TrustInv'
  BY <1>u DEF IInv, PressInv, QuietInv, CentredInv, TrustInv, cursorVars, inputs, resets
<1>3. HoldInv'
  BY <1>u DEF IInv, HoldInv, Held, ArrowIf, cursorVars, inputs, resets
<1> QED BY <1>1, <1>2, <1>3 DEF IInv

LEMMA KeyEventIInv ==
    ASSUME IInv, NEW k \in Key, KeyEvent(k)
    PROVE  IInv'
<1>t. /\ key0 \in BOOLEAN /\ key_reset \in BOOLEAN \X BOOLEAN
      /\ reset \in BOOLEAN \X BOOLEAN /\ HOLDING \subseteq Key /\ quiet \in 0..4
      /\ cur \in Coordinates \X Coordinates
  BY DEF IInv, TypeOK, CursorTypeOK
<1>u. UNCHANGED <<cur, debounce, before, q1, q2, key0, since, key_reset, reset, pressed,
                  was, pc, event, space, space_last, seen, owed, here>>
  BY DEF KeyEvent, cursorVars, resets, mouse
<1>1. /\ before = HOLDING /\ q1 = HOLDING /\ q2 = HOLDING /\ ~key_reset[2]
      /\ HOLDING' = IF k \in HOLDING THEN HOLDING \ {k} ELSE HOLDING \cup {k}
      /\ hold' = IF k = "space" THEN hold
                 ELSE IF k \in Arrows /\ NoArrow(HOLDING) /\ ~key0 /\ quiet = 4
                 THEN [arrow |-> k, n |-> 0, origin |-> cur]
                 ELSE NoHold
      /\ trust' = (trust /\ k \notin Arrows)
      /\ centred' = (centred /\ k \notin Arrows)
      /\ quiet' = IF k \in Arrows THEN 0 ELSE quiet
  BY DEF KeyEvent, Settled, NoArrow
<1>a. key_reset # <<TRUE, TRUE>> /\ key_reset # <<FALSE, TRUE>>
  <2>1. <<TRUE, TRUE>>[2] /\ <<FALSE, TRUE>>[2]
    OBVIOUS
  <2> QED BY <1>1, <2>1, Zenon
<1>2. TypeOK'
  <2>1. HOLDING' \subseteq Key
    BY <1>t, <1>1
  <2>2. trust' \in BOOLEAN /\ centred' \in BOOLEAN
    BY <1>1, Zenon
  <2>3. quiet' \in 0..4
    BY <1>t, <1>1
  <2>4. hold' \in [arrow : Arrows \cup {"none"}, n : 0..EndOfHold,
                   origin : Coordinates \X Coordinates]
    <3>1. NoHold \in [arrow : Arrows \cup {"none"}, n : 0..EndOfHold,
                      origin : Coordinates \X Coordinates]
      BY Sizes, HoldType DEF NoHold, Coordinates
    <3>2. k \in Arrows => [arrow |-> k, n |-> 0, origin |-> cur]
            \in [arrow : Arrows \cup {"none"}, n : 0..EndOfHold,
                 origin : Coordinates \X Coordinates]
      BY <1>t, HoldType
    <3>3. hold \in [arrow : Arrows \cup {"none"}, n : 0..EndOfHold,
                    origin : Coordinates \X Coordinates]
      BY DEF IInv, TypeOK
    <3> QED BY <1>1, <3>1, <3>2, <3>3
  <2> QED BY <1>u, <2>1, <2>2, <2>3, <2>4 DEF IInv, TypeOK, CursorTypeOK
<1>3. PressInv'
  BY <1>u, <1>a DEF IInv, PressInv
<1>4. k \notin Arrows => HOLDING' \cap Arrows = HOLDING \cap Arrows
  BY <1>1
<1>5. QuietInv' /\ TrustInv' /\ CentredInv'
  <2>1. CASE k \in Arrows
    <3>1. quiet' = 0 /\ ~trust' /\ ~centred'
      BY <1>1, <2>1
    <3>2. QuietInv'
      BY <3>1 DEF QuietInv
    <3>3. TrustInv' /\ CentredInv'
      BY <3>1, Zenon DEF TrustInv, CentredInv
    <3> QED BY <3>2, <3>3
  <2>2. CASE k \notin Arrows
    <3>1. quiet' = quiet /\ (trust' <=> trust) /\ (centred' <=> centred)
      BY <1>1, <2>2
    <3>2. NoArrow(HOLDING') <=> NoArrow(HOLDING)
      BY <1>4, <2>2 DEF NoArrow
    <3> QED BY <1>u, <3>1, <3>2 DEF IInv, QuietInv, TrustInv, CentredInv
  <2> QED BY <2>1, <2>2
<1>6. HoldInv'
  <2>1. CASE k = "space"
    <3>1. HOLDING' \cap Arrows = HOLDING \cap Arrows /\ ("M" \in HOLDING' <=> "M" \in HOLDING)
          /\ hold' = hold
      BY <1>1, <2>1 DEF Arrows
    <3>2. ASSUME NEW m \in Int, Held(m) PROVE Held(m)'
      BY <1>u, <3>1, <3>2 DEF Held, ArrowIf
    <3>3. hold.arrow # "none" => hold.n \in Int /\ hold.n - 1 \in Int
      BY HoldType DEF IInv, TypeOK
    <3>4. hold.arrow # "none" /\ Held(hold.n) => Held(hold.n)'
      BY <3>1, <3>2, <3>3 DEF Held
    <3>5. hold.arrow # "none" /\ Held(hold.n - 1) => Held(hold.n - 1)'
      BY <3>1, <3>2, <3>3 DEF Held
    <3>6. ArrowIf(hold.n >= 1)' = ArrowIf(hold.n >= 1)
      BY <3>1 DEF ArrowIf
    <3> QED BY <1>u, <3>1, <3>4, <3>5, <3>6 DEF IInv, HoldInv
  <2>2. CASE k # "space" /\ ~(k \in Arrows /\ NoArrow(HOLDING) /\ ~key0 /\ quiet = 4)
    BY <1>1, <2>2 DEF HoldInv, NoHold
  <2>3. CASE k # "space" /\ k \in Arrows /\ NoArrow(HOLDING) /\ ~key0 /\ quiet = 4
    <3>1. hold' = [arrow |-> k, n |-> 0, origin |-> cur]
      BY <1>1, <2>3
    <3>2. reset = Off /\ debounce = 0
      BY <2>3 DEF IInv, QuietInv
    <3>3. key_reset = Off
      <4>1. key_reset # <<TRUE, FALSE>>
        BY <2>3 DEF IInv, PressInv
      <4> QED BY <1>t, <1>a, <4>1, Pairs
    <3>4. HOLDING' \cap Arrows = {k} /\ k # "M" /\ ("M" \in HOLDING' <=> "M" \in HOLDING)
      BY <1>1, <2>3 DEF NoArrow, Arrows
    <3>5. Held(hold.n)'
      <4>1. q1' \cap Arrows = {} /\ q2' \cap Arrows = {} /\ debounce' = 0
        BY <1>u, <1>1, <2>3, <3>2 DEF NoArrow
      <4>2. StepsAfter(0) = 0
        BY DEF StepsAfter
      <4>3. cur' = Moved(cur, k, "M" \in HOLDING', StepsAfter(0))
        <5>1. ("M" \in HOLDING') \in BOOLEAN
          OBVIOUS
        <5>2. Moved(cur, k, "M" \in HOLDING', 0) = cur
          BY <1>t, <2>3, <5>1, MovedNone, Zenon
        <5> QED BY <1>u, <4>2, <5>2
      <4> QED BY <3>1, <4>1, <4>3 DEF Held, ArrowIf
    <3> QED BY <1>u, <1>1, <2>3, <3>1, <3>2, <3>3, <3>4, <3>5
            DEF HoldInv, ArrowIf, NoArrow
  <2> QED BY <2>1, <2>2, <2>3
<1> QED BY <1>2, <1>3, <1>5, <1>6 DEF IInv

LEMMA StepIInv == IInv /\ [Next]_vars => IInv'
<1> SUFFICES ASSUME IInv, [Next]_vars PROVE IInv'
  OBVIOUS
<1>1. CASE Cycle
  <2>1. TypeOK'
    BY <1>1, CycleType DEF IInv
  <2>2. PressInv' /\ QuietInv' /\ TrustInv' /\ CentredInv' /\ HoldInv'
    BY <1>1, CyclePress, CycleQuiet, CycleHold
  <2> QED BY <2>1, <2>2 DEF IInv
<1>2. CASE KeyTick
  BY <1>2, KeyTickIInv
<1>3. CASE PressKey0
  BY <1>3, PressKey0IInv
<1>4. CASE ReleaseKey0
  BY <1>4, ReleaseKey0IInv
<1>5. ASSUME NEW k \in Key, KeyEvent(k) PROVE IInv'
  BY <1>5, KeyEventIInv
<1>6. CASE ReadPosition
  BY <1>6, ReadPositionIInv
<1>7. CASE ReadKeys
  BY <1>7, ReadKeysIInv
<1>8. CASE UNCHANGED vars
  <2>1. /\ UNCHANGED <<cur, debounce, HOLDING, before, q1, q2, key0, since>>
        /\ UNCHANGED <<key_reset, reset, pressed, was, pc, event, here>>
        /\ UNCHANGED <<space, space_last, seen, owed>>
        /\ UNCHANGED <<quiet, trust, centred, hold>>
    BY <1>8 DEF vars, cursorVars, inputs, resets, mouse
  <2>2. TypeOK'
    BY <2>1 DEF IInv, TypeOK, CursorTypeOK
  <2>3. PressInv' /\ QuietInv' /\ TrustInv' /\ CentredInv'
    BY <2>1 DEF IInv, PressInv, QuietInv, TrustInv, CentredInv
  <2>4. HoldInv'
    BY <2>1 DEF IInv, HoldInv, Held, ArrowIf
  <2> QED BY <2>2, <2>3, <2>4 DEF IInv
<1> QED BY <1>1, <1>2, <1>3, <1>4, <1>5, <1>6, <1>7, <1>8 DEF Next

LEMMA Invariance == Spec => []IInv
BY InitIInv, StepIInv, PTL DEF Spec

-----------------------------------------------------------------------------
(* The properties *)

\* The cursor and its counter stay in their ranges, whatever is held, and so
\* does every register of the synchronizers.
THEOREM TypeCorrect == Spec => []TypeOK
<1>1. IInv => TypeOK
  BY DEF IInv
<1> QED BY <1>1, Invariance, PTL

\* A held arrow moves the cursor a step at a time, at equal intervals, however
\* the synchronizer takes it and wherever the coordinate wraps.
THEOREM Moves == Spec => []HoldMoves
<1>1. IInv => HoldMoves
  <2> SUFFICES ASSUME IInv, hold.arrow # "none"
               PROVE  \E k \in {StepsAfter(hold.n - 1), StepsAfter(hold.n)} :
                         cur = Moved(hold.origin, hold.arrow, "M" \in HOLDING, k)
    BY DEF HoldMoves
  <2>1. Held(hold.n) \/ Held(hold.n - 1)
    BY DEF IInv, HoldInv
  <2> QED BY <2>1 DEF Held
<1> QED BY <1>1, Invariance, PTL

\* A click acts where the cursor is, although its position is read without a
\* synchronizer and before the space bar.
THEOREM ClicksTrue == Spec => []ClickWhereCursorIs
<1>1. IInv => ClickWhereCursorIs
  BY DEF IInv, TrustInv, ClickWhereCursorIs
<1> QED BY <1>1, Invariance, PTL

\* A reset leaves the cursor in the centre, although its two synchronizers and
\* those of the arrows end it at different times.
THEOREM Centres == Spec => []ResetCentres
<1>1. IInv => ResetCentres
  BY DEF IInv, CentredInv, ResetCentres
<1> QED BY <1>1, Invariance, PTL

\* However many calls of mouse_pos there have been, the releases they reported
\* match the presses they found: none twice, none lost, none without a press.
\* The inductive invariant adds what the static variable space is for.
MouseInv ==
    /\ space = IF seen THEN 1 ELSE 0
    /\ ReleasesMatchPresses

THEOREM Releases == Spec => []ReleasesMatchPresses
<1>1. Init => MouseInv
  BY DEF Init, MouseInv, ReleasesMatchPresses
<1>2. IInv /\ MouseInv /\ [Next]_vars => MouseInv'
  <2> SUFFICES ASSUME IInv, MouseInv, [Next]_vars
               PROVE  MouseInv'
    OBVIOUS
  <2>1. CASE ReadKeys
    <3>t. space \in 0..1 /\ space_last \in 0..1 /\ seen \in BOOLEAN /\ owed \in Int
      BY DEF IInv, TypeOK
    <3>1. CASE "space" \in HOLDING
      <4>1. space_key = 1 /\ seen'
        BY <2>1, <3>1 DEF ReadKeys, space_key
      <4>2. space_last' = space /\ space' = 1
        BY <2>1, <3>t, <4>1 DEF ReadKeys, KeepStatics
      <4>3. event' = 1
        BY <2>1, <4>1 DEF ReadKeys, Result
      <4>4. owed' = 1
        BY <2>1, <3>t, <4>1, <4>3 DEF ReadKeys, MouseInv, ReleasesMatchPresses
      <4> QED BY <4>1, <4>2, <4>3, <4>4 DEF MouseInv, ReleasesMatchPresses
    <3>2. CASE "space" \notin HOLDING
      <4>1. space_key = 0 /\ ~seen'
        <5>1. space_key = 0 /\ space_key # 1
          BY <3>2 DEF space_key
        <5>2. seen' = (space_key = 1)
          BY <2>1 DEF ReadKeys
        <5> QED BY <5>1, <5>2, Zenon
      <4>2. space_last' = space /\ space' = 0
        BY <2>1, <3>t, <4>1 DEF ReadKeys, KeepStatics
      <4>3. event' = IF seen THEN 2 ELSE 0
        BY <2>1, <4>1, <4>2 DEF ReadKeys, Result, MouseInv
      <4>4. owed' = 0
        BY <2>1, <3>t, <4>1, <4>3 DEF ReadKeys, MouseInv, ReleasesMatchPresses
      <4> QED BY <4>1, <4>2, <4>3, <4>4 DEF MouseInv, ReleasesMatchPresses
    <3> QED BY <3>1, <3>2
  <2>2. CASE ~ReadKeys
    <3>1. UNCHANGED <<event, space, seen, owed>>
      BY <2>2 DEF Next, vars, mouse, Cycle, KeyTick, PressKey0, ReleaseKey0, KeyEvent,
                  ReadPosition
    <3> QED BY <3>1 DEF MouseInv, ReleasesMatchPresses
  <2> QED BY <2>1, <2>2
<1>3. MouseInv => ReleasesMatchPresses
  BY DEF MouseInv
<1> QED BY <1>1, <1>2, <1>3, Invariance, PTL DEF Spec

=============================================================================
