---------------------------- MODULE FrameReader ----------------------------
(***************************************************************************)
(* vip_fr.c, the driver of the frame reader that feeds the video output.   *)
(* It knows two frames in memory, shows one of them and hands out the      *)
(* other to be drawn.  Boxes and text are drawn into the frame handed out, *)
(* images into the one that is shown; main gives both the same address.    *)
(***************************************************************************)
EXTENDS Integers

VARIABLES
    DisplayFrame,        \* of the driver's structure
    selected             \* the frame register of the reader

frameVars == <<DisplayFrame, selected>>

Frame0_Base == "FR_FRAME_0"
Fault_TwoFrames == "FR_FRAME_1"
Frame1_Base == "FR_FRAME_0"
Frames == {Frame0_Base, Frame1_Base}

Base(n) == IF n = 0 THEN Frame0_Base ELSE Frame1_Base

\* Where vid_draw_box and vid_print_string_alpha draw.
VIPFR_GetDrawFrame == Base(1 - DisplayFrame)

\* Where DispIMAGE_from_gimp draws.
ImageFrame == Base(DisplayFrame)

\* What the video output shows.
OnScreen == Base(selected)

VIPFR_Init == DisplayFrame' = 0 /\ selected' = 0

VIPFR_ActiveDrawFrame ==
    /\ DisplayFrame' = (DisplayFrame + 1) % 2
    /\ selected' = DisplayFrame'

FrameTypeOK == DisplayFrame \in 0..1 /\ selected \in 0..1

=============================================================================
