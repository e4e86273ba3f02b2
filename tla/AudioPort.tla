----------------------------- MODULE AudioPort -----------------------------
(***************************************************************************)
(* The three output ports in front of the audio FIFO, and the eleven       *)
(* writes with which audio_dac_wr_fifo of drivers.c hands over one sample. *)
(* The FIFO is a binary netlist; the driver uses it as one that takes the  *)
(* word on its data port at a rising edge of WRCLK while WRREQ is 1.       *)
(***************************************************************************)
EXTENDS Integers

VARIABLES
    access,              \* writes of audio_dac_wr_fifo so far
    wrreq, wrclk, data   \* AUDIO_WRREQ, AUDIO_WRCLK, AUDIO_OUT_DATA_AUDIO

portVars == <<access, wrreq, wrclk, data>>

Zero == [song |-> -1, index |-> -1]      \* the data port cleared

PortInit == access = 0 /\ wrreq = 0 /\ wrclk = 0 /\ data = Zero

LastAccess == access = 10

Fault_StaysUp ==         \* WRREQ is not cleared, and the clock runs twice
    /\ wrreq' = IF access = 4 THEN 1 ELSE wrreq
    /\ wrclk' = IF access \in {6, 9} THEN 1
                ELSE IF access \in {1, 5, 7} THEN 0 ELSE wrclk
DriveControl ==
    /\ wrreq' = IF access = 4 THEN 1 ELSE IF access \in {0, 8} THEN 0 ELSE wrreq
    /\ wrclk' = IF access = 6 THEN 1
                ELSE IF access \in {1, 5, 7, 9} THEN 0 ELSE wrclk

DriveData(sample) ==
    data' = IF access = 3 THEN sample ELSE IF access \in {2, 10} THEN Zero ELSE data

\* The next write to a port.
PortAccess(sample) ==
    /\ DriveControl /\ DriveData(sample)
    /\ access' = IF LastAccess THEN 0 ELSE access + 1

\* The FIFO takes a word in this step.
Clocked == wrclk = 0 /\ wrclk' = 1 /\ wrreq = 1

PortTypeOK ==
    access \in 0..10 /\ wrreq \in 0..1 /\ wrclk \in 0..1

=============================================================================
