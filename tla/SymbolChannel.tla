--------------------------- MODULE SymbolChannel ---------------------------
(***************************************************************************)
(* What a synchronizer between the symbol clock and CLOCK_50 promises: a   *)
(* bit that the symbol clock takes in is delivered before it takes in the  *)
(* next, once, and nothing else is ever delivered.                         *)
(***************************************************************************)

VARIABLES
    taken,        \* the last bit taken in
    delivered,    \* the bit at the output
    started       \* the bits of power-up have gone

channelVars == <<taken, delivered, started>>

ChannelInit ==
    /\ taken \in {0, 1} /\ delivered \in {0, 1}
    /\ started = FALSE

Take ==
    /\ started /\ delivered = taken
    /\ taken' \in {0, 1}
    /\ UNCHANGED <<delivered, started>>

Deliver ==
    /\ delivered' = taken
    /\ UNCHANGED <<taken, started>>

\* At power-up the flip-flops hold anything, which moves to the output while
\* the first bit is taken in.
PowerUp ==
    /\ ~started
    /\ taken' \in {0, 1} /\ delivered' \in {0, 1}
    /\ started' \in BOOLEAN

ChannelSpec == ChannelInit /\ [][Take \/ Deliver \/ PowerUp]_channelVars

=============================================================================
