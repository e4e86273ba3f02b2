----------------------------- MODULE KeyEvents -----------------------------
(***************************************************************************)
(* From the bytes of the PS/2 keyboard to the keys that are held down.     *)
(* Keyboard_Controller gathers bytes in ScanBytes until ScanCodeToEvent    *)
(* recognizes a make or break code at their beginning, reports its event   *)
(* and clears them; top.sv keeps a HOLDING register for each key it uses.  *)
(* KEY[0] clears those registers, but nothing in the controller.           *)
(*                                                                         *)
(* The keyboard is part of the model: it sends the code of a key when it   *)
(* is pressed, repeated or released, and bytes that are no code of the     *)
(* table: the result of its self-test when it is plugged in, and the code  *)
(* of the key Pause.  A byte takes about a millisecond, so the controller  *)
(* has handled one before the next arrives.                                *)
(***************************************************************************)
EXTENDS Integers, SequencesExt

CONSTANTS
    Keys,                    \* the keys that are pressed, see KnownKeys
    MaxPlugs,                \* times the keyboard is plugged in while it runs
    MaxPauses,               \* times the key Pause is pressed
    MaxWaiting               \* bytes that may wait when a code is put behind
                             \* them in the keyboard's own buffer

VARIABLES
    ScanBytes, ScanByteCntr, \* Keyboard_Controller
    oEventType,              \* Keyboard_Controller: the event of the last code
    HOLDING,                 \* the keys whose HOLDING register is set
    reset,                   \* reset_from_key
    down, sending,           \* the keyboard: keys down, bytes to send
    plugs, pauses,           \* the keyboard: how often it sent foreign bytes
    owed, forgotten, noise   \* history: events to come; keys that a reset hid;
                             \* bytes since the last foreign one, up to 7, or
                             \* the negative number of bytes up to it.
                             \* The first is kept until foreign bytes are sent

vars == <<ScanBytes, ScanByteCntr, oEventType, HOLDING, reset, down, sending,
          plugs, pauses, owed, forgotten, noise>>

-----------------------------------------------------------------------------
(* The table: a key is named by its make code read as a number *)

PlainKeys ==
    {\h76, \h05, \h06, \h04, \h0C, \h03, \h0B, \h83, \h0A, \h01, \h09, \h78, \h07,
     \h7E, \h0E, \h16, \h1E, \h26, \h25, \h2E, \h36, \h3D, \h3E, \h46, \h45, \h4E,
     \h55, \h66, \h0D, \h15, \h1D, \h24, \h2D, \h2C, \h35, \h3C, \h43, \h44, \h4D,
     \h54, \h5B, \h5D, \h58, \h1C, \h1B, \h23, \h2B, \h34, \h33, \h3B, \h42, \h4B,
     \h4C, \h52, \h5A, \h12, \h1A, \h22, \h21, \h2A, \h32, \h31, \h3A, \h41, \h49,
     \h4A, \h59, \h14, \h11, \h29, \h77, \h7C, \h7B, \h6C, \h75, \h7D, \h79, \h6B,
     \h73, \h74, \h69, \h72, \h7A, \h70, \h71}
ExtendedBytes ==             \* after the prefix E0
    {\h1F, \h11, \h27, \h2F, \h14, \h70, \h6C, \h7D, \h71, \h69, \h7A, \h75, \h6B,
     \h72, \h74, \h4A, \h5A}
ExtendedKeys == {\hE000 + b : b \in ExtendedBytes}
PrtScr == \hE012             \* these two by the first half of their codes
Pause == \hE114
KnownKeys == PlainKeys \cup ExtendedKeys \cup {PrtScr}
LastByte(k) == k % 256

Used ==                      \* 1 to 8, F1, F2, N, M, space, the arrows
    {\h16, \h1E, \h26, \h25, \h2E, \h36, \h3D, \h3E, \h05, \h06, \h31, \h3A, \h29,
     \hE06B, \hE074, \hE075, \hE072}

ASSUME KeysAssumption ==
    /\ Keys \subseteq KnownKeys
    /\ MaxPlugs \in Nat /\ MaxPauses \in Nat /\ MaxWaiting \in Nat

Prefix == \hE0
BreakPrefix == \hF0
Empty == [n \in 1..8 |-> 0]

None == [kind |-> "none", key |-> 0]
KeyEvent == [kind : {"make", "break"}, key : KnownKeys]
Events == KeyEvent \cup {[kind |-> "make", key |-> Pause]}

Code(e) ==
    CASE e.key = PrtScr /\ e.kind = "make"  -> <<\hE0, \h12, \hE0, \h7C>>
      [] e.key = PrtScr /\ e.kind = "break" -> <<\hE0, \hF0, \h7C, \hE0, \hF0, \h12>>
      [] e.key = Pause -> <<\hE1, \h14, \h77, \hE1, \hF0, \h14, \hE0, \h77>>
      [] OTHER -> (IF e.key \in ExtendedKeys THEN <<Prefix>> ELSE << >>)
                  \o (IF e.kind = "break" THEN <<BreakPrefix>> ELSE << >>)
                  \o <<LastByte(e.key)>>
Codes == {Code(e) : e \in Events}

\* Foreign bytes: the result of the self-test, and what a keyboard sends for
\* Pause, which the table has with E0 for the last F0.
SelfTestPassed == <<\hAA>>
PauseBytes == <<\hE1, \h14, \h77, \hE1, \hF0, \h14, \hF0, \h77>>

\* Keys whose last byte is a code by itself.
Closing == PlainKeys \cup {k \in ExtendedKeys : LastByte(k) \in PlainKeys}

-----------------------------------------------------------------------------
(* ScanCodeToEvent and Keyboard_Controller *)

Fault_SkipsPrefix(n) ==
    IF ScanBytes[1] = Prefix THEN SubSeq(ScanBytes, 2, n) ELSE SubSeq(ScanBytes, 1, n)
First(n) == SubSeq(ScanBytes, 1, n)

EventReady == \E n \in 1..8 : First(n) \in Codes
EventType ==
    LET firsts == {First(n) : n \in 1..8}
    IN  IF EventReady THEN CHOOSE e \in Events : Code(e) \in firsts ELSE None

Fault_StaysAtEnd == IF ScanByteCntr = 7 THEN 7 ELSE ScanByteCntr + 1
NextCntr == (ScanByteCntr + 1) % 8

Fault_KeepsCntr(byte) ==
    IF EventReady THEN ScanBytes' = Empty /\ ScanByteCntr' = ScanByteCntr
    ELSE IF byte # 0
      THEN ScanBytes' = [ScanBytes EXCEPT ![ScanByteCntr + 1] = byte]
           /\ ScanByteCntr' = NextCntr
    ELSE UNCHANGED <<ScanBytes, ScanByteCntr>>

Gather(byte) ==              \* 0 stands for no byte
    IF EventReady THEN ScanBytes' = Empty /\ ScanByteCntr' = 0
    ELSE IF byte # 0
      THEN ScanBytes' = [ScanBytes EXCEPT ![ScanByteCntr + 1] = byte]
           /\ ScanByteCntr' = NextCntr
    ELSE UNCHANGED <<ScanBytes, ScanByteCntr>>

Fault_AnyKey ==
    IF oEventType.kind = "make" THEN HOLDING \cup {oEventType.key}
    ELSE HOLDING \ {oEventType.key}
Held ==
    CASE oEventType.kind = "make"  -> HOLDING \cup (Used \cap {oEventType.key})
      [] oEventType.kind = "break" -> HOLDING \ {oEventType.key}
      [] OTHER                     -> HOLDING

Clock(byte) ==               \* posedge of CLK_25MHZ
    /\ oEventType' = EventType
    /\ Gather(byte)
    /\ HOLDING' = IF reset THEN {} ELSE Held
    /\ owed' = IF EventReady /\ owed # << >> THEN Tail(owed) ELSE owed
    /\ forgotten' = IF reset THEN down ELSE forgotten
    /\ UNCHANGED <<reset, down, plugs, pauses>>

\* An event is on its way from the bytes to the HOLDING registers.
Busy == EventReady \/ oEventType # None

-----------------------------------------------------------------------------
(* Actions *)

Byte ==
    /\ sending # << >> /\ ~Busy
    /\ Clock(Head(sending))
    /\ sending' = Tail(sending)
    /\ noise' = IF noise < 7 THEN noise + 1 ELSE 7

NoByte ==
    /\ Clock(0)
    /\ UNCHANGED <<sending, noise>>

OnlyKeys == plugs = 0 /\ pauses = 0

Send(e) ==
    /\ Len(sending) <= MaxWaiting
    /\ sending' = sending \o Code(e)
    /\ owed' = IF OnlyKeys THEN Append(owed, e) ELSE << >>
    /\ forgotten' = forgotten \ {e.key}
    /\ noise' = IF e.key \in Closing THEN noise ELSE -Len(sending')
    /\ UNCHANGED <<ScanBytes, ScanByteCntr, oEventType, HOLDING, reset, plugs, pauses>>

Press(k) ==                  \* also a repetition of a key that is down, but
    /\ k = PrtScr => k \notin down      \* for PrtScr, which repeats otherwise
    /\ Send([kind |-> "make", key |-> k])
    /\ down' = down \cup {k}

Release(k) ==
    /\ k \in down
    /\ Send([kind |-> "break", key |-> k])
    /\ down' = down \ {k}

SendForeign(bytes) ==
    /\ Len(sending) <= MaxWaiting
    /\ sending' = sending \o bytes
    /\ owed' = << >>
    /\ noise' = -Len(sending')
    /\ UNCHANGED <<ScanBytes, ScanByteCntr, oEventType, HOLDING, reset, down, forgotten>>

Plug ==
    /\ plugs < MaxPlugs
    /\ down = {} /\ sending = << >> /\ ~Busy
    /\ SendForeign(SelfTestPassed)
    /\ plugs' = plugs + 1
    /\ UNCHANGED pauses

PressPause ==
    /\ pauses < MaxPauses
    /\ SendForeign(PauseBytes)
    /\ pauses' = pauses + 1
    /\ UNCHANGED plugs

Button ==
    /\ reset' = ~reset
    /\ UNCHANGED <<ScanBytes, ScanByteCntr, oEventType, HOLDING, down, sending,
                   plugs, pauses, owed, forgotten, noise>>

Keyboard == (\E k \in Keys : Press(k) \/ Release(k)) \/ Plug \/ PressPause

Init ==
    /\ ScanBytes = Empty /\ ScanByteCntr = 0
    /\ oEventType = None /\ HOLDING = {}
    /\ reset \in BOOLEAN
    /\ down = {} /\ sending = << >> /\ plugs = 0 /\ pauses = 0
    /\ owed = << >> /\ forgotten = {} /\ noise = 7

Next == Byte \/ NoByte \/ Keyboard \/ Button

Spec == Init /\ [][Next]_vars /\ WF_vars(Byte) /\ WF_vars(NoByte)

-----------------------------------------------------------------------------

TypeOK ==
    /\ ScanBytes \in [1..8 -> 0..255]
    /\ ScanByteCntr \in 0..7
    /\ oEventType \in Events \cup {None}
    /\ HOLDING \subseteq Used /\ down \subseteq Keys /\ forgotten \subseteq Keys
    /\ reset \in BOOLEAN
    /\ plugs \in 0..MaxPlugs /\ pauses \in 0..MaxPauses
    /\ Len(sending) <= MaxWaiting + 8 /\ noise \in -Len(sending)..7

\* While only keys send bytes, every event that is reported is the next one
\* that the keyboard sent: codes are neither split nor joined, and the number
\* pad is no arrow.
EventsInOrder ==
    [][oEventType' # oEventType /\ oEventType' # None /\ OnlyKeys
         => owed # << >> /\ oEventType' = Head(owed)]_vars

\* While only keys send bytes: when everything has been handled, no register
\* holds a key that is up, and the keys that are down are held unless KEY[0]
\* has hidden them.
AtRest == sending = << >> /\ ~Busy
HoldingFollows ==
    AtRest /\ ~reset /\ OnlyKeys =>
        /\ HOLDING \subseteq down
        /\ (down \ forgotten) \cap Used \subseteq HOLDING

\* After foreign bytes, and after the codes of keys whose last byte is no code
\* by itself, the controller is back in step with the codes as soon as the
\* keyboard rests after seven more bytes: ScanByteCntr wraps, and it may begin
\* anywhere in the code of any other key.
BackInStep == AtRest /\ noise >= 7 => ScanByteCntr = 0

\* From the comments on Keyboard_Controller and its table: the codes are read
\* and exported as events, that of Pause among them, so a key that has been
\* released does not stay held.
HeldOnlyIfDown == AtRest /\ ~reset => HOLDING \subseteq down

=============================================================================
