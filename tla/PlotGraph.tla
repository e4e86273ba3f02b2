----------------------------- MODULE PlotGraph -----------------------------
(***************************************************************************)
(* plot_graph.v, the oscilloscope of the video output.  Every pulse of the *)
(* sampler writes a sample into a RAM at SDRAM_ADD_WRITE; column x of the  *)
(* graph shows the word at x + Dif_SCROLL.  In overpaint mode the address  *)
(* goes round the columns and Dif_SCROLL stays 0; in scroll mode both run  *)
(* through the whole address space and the graph moves to the left.        *)
(*                                                                         *)
(* A word of the RAM is modelled by the age of its sample: 0 for the last  *)
(* one, one more for each that came after it, up to Modulus.               *)
(***************************************************************************)
EXTENDS Integers

CONSTANTS
    Witdh,               \* columns of the graph (640), the source's spelling
    Modulus              \* addresses of the RAM, 2^10

ASSUME PlotAssumption ==
    /\ Witdh \in Nat /\ Modulus \in Nat
    /\ Witdh >= 2 /\ Witdh + 1 < Modulus

VARIABLES
    SDRAM_ADD_WRITE, Dif_SCROLL, Bandera_Scroll_FX,
    age,                 \* the RAM
    scroll_en,           \* SW[0], synchronized
    steady               \* history: samples since scroll_en changed

vars == <<SDRAM_ADD_WRITE, Dif_SCROLL, Bandera_Scroll_FX, age, scroll_en, steady>>

Addresses == 0..(Modulus - 1)
Columns == 0..(Witdh - 1)

\* A ten-bit counter.
Fault_Eleven(a) == a + 1
Increment(a) == IF a = Modulus - 1 THEN 0 ELSE a + 1

\* The address that column x shows.
Shown(x) == IF x + Dif_SCROLL < Modulus THEN x + Dif_SCROLL
            ELSE x + Dif_SCROLL - Modulus

AtTheEnd == SDRAM_ADD_WRITE >= Witdh - 1

-----------------------------------------------------------------------------

Init ==
    /\ SDRAM_ADD_WRITE = Witdh
    /\ Dif_SCROLL = 0
    /\ Bandera_Scroll_FX = FALSE
    /\ age = [a \in Addresses |-> Modulus]
    /\ scroll_en \in BOOLEAN
    /\ steady = 0

Fault_DeclaredSize ==    \* numwords_a = Witdh: no word beyond
    age' = [a \in Addresses |->
              IF a = SDRAM_ADD_WRITE /\ a < Witdh THEN 0
              ELSE IF age[a] < Modulus THEN age[a] + 1 ELSE Modulus]
WriteSample ==
    age' = [a \in Addresses |->
              IF a = SDRAM_ADD_WRITE THEN 0
              ELSE IF age[a] < Modulus THEN age[a] + 1 ELSE Modulus]

Fault_LateReturn ==      \* one column too many
    SDRAM_ADD_WRITE' = IF SDRAM_ADD_WRITE > Witdh /\ ~scroll_en THEN 0
                       ELSE Increment(SDRAM_ADD_WRITE)
MoveAddress ==
    SDRAM_ADD_WRITE' = IF AtTheEnd /\ ~scroll_en THEN 0
                       ELSE Increment(SDRAM_ADD_WRITE)

MoveFlag ==
    Bandera_Scroll_FX' = IF AtTheEnd THEN scroll_en ELSE Bandera_Scroll_FX

Fault_NeverFlags ==      \* no wait for the end of the window
    Dif_SCROLL' = IF scroll_en THEN Increment(Dif_SCROLL) ELSE 0
Fault_NoMemory ==        \* the comparison in place of the flag
    Dif_SCROLL' = IF scroll_en /\ AtTheEnd THEN Increment(Dif_SCROLL) ELSE 0
MoveOffset ==
    Dif_SCROLL' = IF scroll_en /\ Bandera_Scroll_FX THEN Increment(Dif_SCROLL)
                  ELSE 0

NewSample ==             \* posedge of clock_data_graph_module
    /\ WriteSample
    /\ MoveAddress /\ MoveFlag /\ MoveOffset
    /\ steady' = IF steady < Modulus THEN steady + 1 ELSE Modulus
    /\ UNCHANGED scroll_en

Switch ==
    /\ scroll_en' = ~scroll_en
    /\ steady' = 0
    /\ UNCHANGED <<SDRAM_ADD_WRITE, Dif_SCROLL, Bandera_Scroll_FX, age>>

Next == NewSample \/ Switch

Spec == Init /\ [][Next]_vars

-----------------------------------------------------------------------------

TypeOK ==
    /\ SDRAM_ADD_WRITE \in Addresses
    /\ Dif_SCROLL \in Addresses
    /\ Bandera_Scroll_FX \in BOOLEAN
    /\ age \in [Addresses -> 0..Modulus]
    /\ scroll_en \in BOOLEAN
    /\ steady \in 0..Modulus

\* Whatever the history of the switch, scrolling shows what has just come: the
\* newest sample is on a column, or (after power-up) one column behind the last.
NewestIsVisible ==
    scroll_en /\ steady > 1 => \E x \in Columns : age[Shown(x)] <= 1

\* The picture moves by one column per sample, also when the address or the
\* offset wraps: the newest sample stays in its column.
NewestColumn(x) == age[Shown(x)] = 0
ScrollsByOne ==
    [][scroll_en /\ steady > 1 /\ steady' # 0 /\ Bandera_Scroll_FX
         => \A x \in 0..Witdh : NewestColumn(x) => NewestColumn(x)']_vars

\* After a full turn in overpaint mode, the columns before the write address
\* hold the latest turn and the others the one before, without a gap.
OverpaintShowsHistory ==
    ~scroll_en /\ steady > Witdh =>
        \A x \in Columns :
            age[Shown(x)] = IF x < SDRAM_ADD_WRITE THEN SDRAM_ADD_WRITE - 1 - x
                            ELSE SDRAM_ADD_WRITE - 1 - x + Witdh

\* After a full turn in scroll mode, the columns up to the newest sample hold
\* the samples before it in order, without a gap.
ScrollShowsHistory ==
    scroll_en /\ steady = Modulus =>
        \A x \in Columns, n \in 0..Witdh :
            NewestColumn(n) /\ x <= n => age[Shown(x)] = n - x

\* From the comment on the port Witdh, "NUMBER OF DATA TO GRAPH": when it has
\* scrolled for a full turn, the graph shows the last Witdh samples (or all but
\* the newest of Witdh + 1, see NewestIsVisible).
ShowsTheLatest ==
    scroll_en /\ steady = Modulus =>
        \A x \in Columns : age[Shown(x)] <= Witdh

=============================================================================
