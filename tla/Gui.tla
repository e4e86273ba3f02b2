-------------------------------- MODULE Gui --------------------------------
(***************************************************************************)
(* The buttons on the screen: main draws them and gives the selectors      *)
(* their first values; task2 polls the cursor every 100 ms, and a press on *)
(* a button redraws its group and writes a selector or the flags of the    *)
(* player.  top.sv shows what the selectors choose.                        *)
(*                                                                         *)
(* A step of task2 is one picture drawn, or the write that ends a branch;  *)
(* the set-up of main takes four.  A picture is kept as the set of buttons *)
(* that are drawn down in a frame of FrameReader, the flags of the player  *)
(* as the mode they stand for (Player has their stores one by one).        *)
(***************************************************************************)
EXTENDS FrameReader, FiniteSets, Sequences

CONSTANT NColours            \* buttons that choose a colour

ASSUME GuiAssumption == NColours \in 1..8

Count == [modulation |-> 5, signal |-> 4, colour |-> NColours, player |-> 7]
Selectors == {"modulation", "signal", "colour"}
Button == UNION {[group : {g}, n : 0..(Count[g] - 1)] : g \in DOMAIN Count}
Group(g) == {b \in Button : b.group = g}

Modulation == <<"ASK", "FSK", "BPSK", "LFSR", "QPSK">>
Signal == <<"SINE", "COS", "SAW", "SQUARE">>
Control == <<"play", "stop", "pause", "back", "ford", "forward_arrow",
             "backward_arrow">>
Pad(name) == [group |-> "player",
              n |-> (CHOOSE k \in 1..7 : Control[k] = name) - 1]

VARIABLES
    modulation_selector, signal_selector, graph_colour,   \* output ports
    mode,                    \* play_song, pause_song, stop_song
    down,                    \* the buttons drawn down, in each frame
    pc, point, drawn         \* next step, where the press was, buttons redrawn
                             \* (mouse_pos keeps the last state of the space
                             \* bar too, but only to tell a release from no
                             \* event, and task2 does nothing at either)

ports == <<modulation_selector, signal_selector, graph_colour>>
vars == <<frameVars, ports, mode, down, pc, point, drawn>>

-----------------------------------------------------------------------------
(* Where a button is: <<left, top, width, height>> *)

Box(b) ==
    CASE b.group = "modulation" -> <<667, 252 + 30 * b.n, 120, 28>>
      [] b.group = "signal"     -> <<667, <<426, 470, 512, 554>>[b.n + 1], 120, 35>>
      [] b.group = "colour"     -> <<667, 5 + 30 * b.n, 120, 28>>
      [] b.group = "player"     ->
           <<<<296, 45, 94, 109>>, <<404, 45, 98, 111>>, <<523, 45, 108, 112>>,
             <<355, 177, 61, 57>>, <<500, 177, 61, 57>>,
             <<570, 173, 60, 60>>, <<285, 173, 60, 60>>>>[b.n + 1]

Covers(b, p) ==
    /\ p[1] \in Box(b)[1]..(Box(b)[1] + Box(b)[3])
    /\ p[2] \in Box(b)[2]..(Box(b)[2] + Box(b)[4])

\* Two opposite corners of every button, and a point beside them all.
Nowhere == <<0, 0>>
Points == {<<Box(b)[1], Box(b)[2]>> : b \in Button}
          \cup {<<Box(b)[1] + Box(b)[3], Box(b)[2] + Box(b)[4]>> : b \in Button}
          \cup {Nowhere}

\* The buttons at a point.
Under == [p \in Points |-> {b \in Button : Covers(b, p)}]

\* The chains of else-if never have to choose.
ASSUME BoxesDisjoint ==
    \A p \in Points : Cardinality(Under[p]) <= 1

Clicked == CHOOSE b \in Under[point] : TRUE

-----------------------------------------------------------------------------
(* What top.sv shows *)

modulator_mux(sel) ==        \* the second input is the carrier itself
    IF sel % 8 <= 4 THEN Modulation[(sel % 8) + 1] ELSE "ASK"
phase_inc_mux(sel) == IF sel % 4 = 1 THEN "dds_increment" ELSE "258"
sig_mux(sel) == Signal[(sel % 4) + 1]

-----------------------------------------------------------------------------
(* task2 *)

Poll(p, space_key) ==        \* mouse_pos, and the tests of the coordinates
    /\ pc = "poll"
    /\ point' = IF space_key = 1 THEN p ELSE Nowhere
    /\ pc' = IF Under[point'] # {} THEN "draw" ELSE "poll"
    /\ UNCHANGED <<frameVars, ports, mode, down, drawn>>

\* Which buttons of a group are drawn down when c is pressed.
DrawnDown(c) == IF c.group \in Selectors
                   \/ c \in {Pad("play"), Pad("stop"), Pad("pause"), Pad("back")}
                THEN {c} ELSE {}

\* draw_button and draw_nice_button draw a box and text, the rest is images.
Target(b) == IF b.group = "player" THEN ImageFrame ELSE VIPFR_GetDrawFrame

Fault_OthersStay ==          \* only the pressed button is drawn
    /\ pc = "draw"
    /\ down' = [down EXCEPT ![Target(Clicked)] = @ \cup DrawnDown(Clicked)]
    /\ pc' = "act"
    /\ UNCHANGED <<frameVars, ports, mode, point, drawn>>

Draw ==                      \* draw_button, draw_nice_button, DispIMAGE_from_gimp
    /\ pc = "draw"
    /\ LET b == [group |-> Clicked.group, n |-> drawn]
       IN  down' = [down EXCEPT ![Target(b)] =
                      (@ \ {b}) \cup (DrawnDown(Clicked) \cap {b})]
    /\ drawn' = (drawn + 1) % Count[Clicked.group]
    /\ pc' = IF drawn' = 0 THEN "act" ELSE "draw"
    /\ UNCHANGED <<frameVars, ports, mode, point>>

Fault_PauseStops(c) ==
    CASE c = Pad("play")  -> "play"
      [] c = Pad("pause") -> "stop"
      [] c = Pad("stop")  -> "stop"
      [] OTHER            -> mode

NextMode(c) ==
    CASE c = Pad("play")  -> "play"
      [] c = Pad("pause") -> "pause"
      [] c \in {Pad("stop"), Pad("forward_arrow"), Pad("backward_arrow")} -> "stop"
      [] OTHER            -> mode            \* back and ford change the frequency

Fault_FromOne(c, g, old) == IF c.group = g THEN c.n + 1 ELSE old
Chosen(c, g, old) == IF c.group = g THEN c.n ELSE old

Act ==                       \* select_modulation, select_signal, GRAPH_COLOUR, flags
    /\ pc = "act"
    /\ modulation_selector' = Chosen(Clicked, "modulation", modulation_selector)
    /\ signal_selector' = Chosen(Clicked, "signal", signal_selector)
    /\ graph_colour' = Chosen(Clicked, "colour", graph_colour)
    /\ mode' = NextMode(Clicked)
    /\ pc' = "poll"
    /\ UNCHANGED <<frameVars, down, point, drawn>>

-----------------------------------------------------------------------------
(* main *)

Black == -1                  \* the value of the colour port at power-up

StartVideo ==
    /\ pc = "video"
    /\ VIPFR_Init
    /\ pc' = "swap"
    /\ UNCHANGED <<ports, mode, down, point, drawn>>

SwapFrames ==
    /\ pc = "swap"
    /\ VIPFR_ActiveDrawFrame
    /\ pc' = "background"
    /\ UNCHANGED <<ports, mode, down, point, drawn>>

Background ==                \* init_background: images that are up, boxes
    /\ pc = "background"
    /\ down' = [down EXCEPT ![VIPFR_GetDrawFrame] =
                  {[group |-> "colour", n |-> 0], [group |-> "modulation", n |-> 0],
                   [group |-> "signal", n |-> 3]}]
    /\ pc' = "selectors"
    /\ UNCHANGED <<frameVars, ports, mode, point, drawn>>

Selectors0 ==                \* main; task2 does not run yet
    /\ pc = "selectors"
    /\ modulation_selector' = 0 /\ signal_selector' = 3 /\ graph_colour' = 0
    /\ pc' = "poll"
    /\ UNCHANGED <<frameVars, mode, down, point, drawn>>

Init ==
    /\ modulation_selector = 0 /\ signal_selector = 0 /\ graph_colour = Black
    /\ mode = "none" /\ down = [f \in Frames |-> {}]
    /\ DisplayFrame = 0 /\ selected = 0
    /\ pc = "video" /\ point = Nowhere /\ drawn = 0

Next ==
    \/ StartVideo \/ SwapFrames \/ Background \/ Selectors0
    \/ \E p \in Points, space_key \in 0..1 : Poll(p, space_key)
    \/ Draw \/ Act

Spec == Init /\ [][Next]_vars

-----------------------------------------------------------------------------

TypeOK ==
    /\ FrameTypeOK
    /\ modulation_selector \in 0..4 /\ signal_selector \in 0..3
    /\ graph_colour \in {Black} \cup 0..(NColours - 1)
    /\ mode \in {"none", "play", "pause", "stop"}
    /\ down \in [Frames -> SUBSET Button]
    /\ pc \in {"video", "swap", "background", "selectors", "poll", "draw", "act"}
    /\ point \in Points
    /\ drawn \in 0..7

Seen == down[OnScreen]

\* Between two clicks exactly one button of each selector group is down, and
\* the multiplexers show what its label says: the modulation (with the carrier
\* of the two tones for FSK alone), the plain signal and the colour.
GraphShowsPressed ==
    pc = "poll" =>
      \E m \in Group("modulation"), s \in Group("signal"), c \in Group("colour") :
        /\ Seen \ Group("player") = {m, s, c}
        /\ modulator_mux(modulation_selector) = Modulation[m.n + 1]
        /\ phase_inc_mux(modulation_selector) = "dds_increment"
             <=> Modulation[m.n + 1] = "FSK"
        /\ sig_mux(signal_selector) = Signal[s.n + 1]
        /\ graph_colour = c.n

\* Between two clicks a lamp of the player that is down names its mode.
LampsTellTruth ==
    pc = "poll" =>
      \A name \in {"play", "stop", "pause"} : Pad(name) \in Seen => mode = name

\* After a press on a button no other button of its group is down; the button
\* itself is, unless it has one picture only (the arrows) or is ford, which the
\* code draws up.
PressedUnderCursor ==
    pc = "poll" /\ point # Nowhere =>
      \A b \in Under[point] :
        Seen \cap Group(b.group) =
          IF b \in {Pad("ford"), Pad("forward_arrow"), Pad("backward_arrow")}
          THEN {} ELSE {b}

=============================================================================
