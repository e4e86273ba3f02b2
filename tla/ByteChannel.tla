---------------------------- MODULE ByteChannel ----------------------------
(***************************************************************************)
(* What the reader of PS/2 frames promises to Keyboard_Controller, and     *)
(* what KeyEvents starts from: each byte the keyboard sends is delivered   *)
(* once, before the keyboard sends the next one, and none is left behind.  *)
(***************************************************************************)
CONSTANT Words
VARIABLES sent, oScanReady, oScanByte      \* sent: {} or the byte under way

vars == <<sent, oScanReady, oScanByte>>

Init == sent = {} /\ oScanReady = FALSE /\ oScanByte \in Words

Send ==
    /\ sent = {}
    /\ \E w \in Words : sent' = {w}
    /\ oScanReady' = FALSE
    /\ UNCHANGED oScanByte

Deliver ==
    /\ \E w \in sent : oScanByte' = w
    /\ sent' = {}
    /\ oScanReady' = TRUE

Clear == oScanReady' = FALSE /\ UNCHANGED <<sent, oScanByte>>

Next == Send \/ Deliver \/ Clear
Spec == Init /\ [][Next]_vars /\ WF_vars(Deliver)

=============================================================================
