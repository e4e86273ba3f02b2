------------------------------- MODULE Scope -------------------------------
(***************************************************************************)
(* How the graph of PlotGraph gets on the screen.  At each rising edge of  *)
(* the video clock the RAM registers the address of the column that the    *)
(* pixel counters show and the word of the address before; one more        *)
(* register keeps the word before that.  The pixel is lit when its line    *)
(* lies between the two words.                                             *)
(*                                                                         *)
(* Samples are written, and Dif_SCROLL moved, by another clock: the edge   *)
(* after a sample may register any address, and a word that is written     *)
(* while it is read may be read as anything.                               *)
(***************************************************************************)
EXTENDS VideoSync

CONSTANTS
    Witdh, Modulus,      \* of PlotGraph
    Pos_Y,               \* first line of the graph
    Height,              \* the samples are divided by it
    Largest              \* the largest sample, 255

ASSUME ScopeAssumption ==
    /\ Witdh \in Nat /\ Witdh >= 2 /\ Witdh + 1 < WIDTH
    /\ Modulus \in Nat /\ WIDTH < Modulus
    /\ Pos_Y \in Nat /\ Height \in Nat \ {0} /\ Largest \in Nat

VARIABLES
    SDRAM_ADD_WRITE, Dif_SCROLL, Bandera_Scroll_FX, age, scroll_en, steady,
    address,             \* the RAM's address register
    SDRAM_OUT, SDRAM_OUT_ANT,   \* ages of the words read
    calm                 \* rising edges since the last sample, at most Calm

Plot == INSTANCE PlotGraph

plotVars ==
    <<SDRAM_ADD_WRITE, Dif_SCROLL, Bandera_Scroll_FX, age, scroll_en, steady>>
readVars == <<address, SDRAM_OUT, SDRAM_OUT_ANT>>
vars == <<videoVars, plotVars, readVars, calm>>

Calm == 4
Ages == 0..Modulus

-----------------------------------------------------------------------------

Fault_ReadsBefore == SDRAM_OUT_ANT' = SDRAM_OUT'
KeepWord == SDRAM_OUT_ANT' = SDRAM_OUT

Rise ==                  \* posedge of display_clk
    /\ VideoRise
    /\ IF calm = 0 THEN address' \in Plot!Addresses
                   ELSE address' = Plot!Shown(count_x)
    /\ IF calm = 0 /\ age[address] = 0 THEN SDRAM_OUT' \in Ages
                                       ELSE SDRAM_OUT' = age[address]
    /\ KeepWord
    /\ calm' = IF calm < Calm THEN calm + 1 ELSE Calm
    /\ UNCHANGED plotVars

Fall ==
    /\ VideoFall
    /\ UNCHANGED <<plotVars, readVars, calm>>

Older(a) == IF a < Modulus THEN a + 1 ELSE Modulus

Sample ==                \* samples are far apart
    /\ calm = Calm
    /\ Plot!NewSample
    /\ calm' = 0
    /\ SDRAM_OUT' = Older(SDRAM_OUT) /\ SDRAM_OUT_ANT' = Older(SDRAM_OUT_ANT)
    /\ UNCHANGED <<videoVars, address>>

Switch ==
    /\ Plot!Switch
    /\ UNCHANGED <<videoVars, readVars, calm>>

Init ==
    /\ VideoInit
    /\ Plot!Init
    /\ address = 0 /\ SDRAM_OUT = Modulus /\ SDRAM_OUT_ANT = Modulus
    /\ calm = 0

Next == Rise \/ Fall \/ Sample \/ Switch

Spec == Init /\ [][Next]_vars

-----------------------------------------------------------------------------
(* The picture, for samples h that the words may hold (PosX is 0) *)

LineOf(sample) == Pos_Y + (Largest - sample) \div Height

PendienteFX(h) ==
    LET old == LineOf(h[SDRAM_OUT_ANT])
        new == LineOf(h[SDRAM_OUT])
    IN  IF count_y >= old THEN count_y <= new ELSE count_y >= new

LastLine == Pos_Y + Largest \div Height
InWindow == count_x <= Witdh /\ count_y <= LastLine

\* In overpaint mode a line, in the inverse colour, marks the write address.
vertical_line ==
    /\ ~scroll_en
    /\ count_x + Dif_SCROLL = SDRAM_ADD_WRITE
    /\ count_y \in Pos_Y..LastLine

Graph_on(h) == vertical_line \/ (InWindow /\ PendienteFX(h))

-----------------------------------------------------------------------------

TypeOK ==
    /\ VideoTypeOK
    /\ Plot!TypeOK
    /\ address \in Plot!Addresses
    /\ SDRAM_OUT \in Ages /\ SDRAM_OUT_ANT \in Ages
    /\ calm \in 0..Calm

\* The counters show the pixel that the video output is at, in every frame.
PixelCoordinates == high /\ den => count_x = col /\ count_y = row

\* Four rising edges after a sample, the torn offset has gone from the picture:
\* column c of the screen then joins word c - 2 to word c - 1 of the graph
\* (word 0 at the left edge), without a gap, and lights nothing else but the
\* mark of the write address.
Word(c) == age[Plot!Shown(IF c < 0 THEN 0 ELSE c)]
Between(y, a, b) == (a < y /\ y < b) \/ (b < y /\ y < a)
TraceUnbroken ==
    high /\ den /\ col <= Witdh /\ calm = Calm /\ ~vertical_line =>
        \A h \in [{Word(col - 2), Word(col - 1), SDRAM_OUT, SDRAM_OUT_ANT}
                     -> 0..Largest] :
            LET old == LineOf(h[Word(col - 2)])
                new == LineOf(h[Word(col - 1)])
            IN  /\ row = new \/ Between(row, old, new) => Graph_on(h)
                /\ Graph_on(h) => row \in {old, new} \/ Between(row, old, new)

=============================================================================
