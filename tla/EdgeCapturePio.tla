--------------------------- MODULE EdgeCapturePio ---------------------------
(***************************************************************************)
(* The parallel port lfsr_clk_interrupt_gen of the Qsys system.  It passes *)
(* its input through two flip-flops, latches a rising edge in edge_capture *)
(* and raises its interrupt while the latched edge is not masked.          *)
(*                                                                         *)
(* PioTick is one rising edge of the system clock; its arguments are the   *)
(* input pin and the register write, if any, that the processor makes in   *)
(* that cycle.                                                             *)
(***************************************************************************)
EXTENDS Integers

VARIABLES
    d1_data_in,
    d2_data_in,
    edge_capture,
    irq_mask

pioVars == <<d1_data_in, d2_data_in, edge_capture, irq_mask>>

\* Register writes the firmware makes: none, the mask, the capture register.
BusWrite == {"none", "mask", "edge_cap"}

\* A fault: edges of the other polarity.
Fault_FallingEdge == d1_data_in = 0 /\ d2_data_in = 1

edge_detect == d1_data_in = 1 /\ d2_data_in = 0

irq == edge_capture = 1 /\ irq_mask = 1

PioInit ==
    /\ d1_data_in = 0
    /\ d2_data_in = 0
    /\ edge_capture = 0
    /\ irq_mask = 0

\* The clear strobe has priority over an edge detected in the same cycle.
CaptureEdge(write) ==
    edge_capture' = IF write = "edge_cap" THEN 0
                    ELSE IF edge_detect THEN 1 ELSE edge_capture

PioTick(in_port, write) ==
    /\ d1_data_in' = in_port
    /\ d2_data_in' = d1_data_in
    /\ irq_mask' = IF write = "mask" THEN 1 ELSE irq_mask
    /\ CaptureEdge(write)

PioTypeOK ==
    /\ d1_data_in \in {0, 1}
    /\ d2_data_in \in {0, 1}
    /\ edge_capture \in {0, 1}
    /\ irq_mask \in {0, 1}

=============================================================================
