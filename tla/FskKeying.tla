----------------------------- MODULE FskKeying -----------------------------
(***************************************************************************)
(* Frequency shift keying.  The symbol clock shifts the LFSR; its rising   *)
(* edge also reaches the interrupt port, whose interrupt makes the Nios    *)
(* processor read the transmitted bit lfsr[0] and write the phase          *)
(* increment of the tone for it.  This module composes SymbolClock, the    *)
(* port (EdgeCapturePio) and the firmware: init_lfsr_interrupt, run once   *)
(* by main, and the handler handle_lfsr_interrupts.                        *)
(*                                                                         *)
(* Every action but the push button is one CLOCK_50 cycle, in which the    *)
(* processor makes at most one access to a port: the order of the accesses *)
(* and of the hardware events between them is the subject of the module.   *)
(***************************************************************************)
EXTENDS SymbolClock, EdgeCapturePio

CONSTANT MaxLatency   \* cycles from a captured edge to the clear of its handler

\* What the processor must guarantee: a handler runs to its clear within the
\* symbol whose edge called it (five accesses are the least it needs).
ASSUME LatencyAssumption ==
    /\ MaxLatency \in Nat
    /\ MaxLatency >= 5
    /\ MaxLatency + 3 <= Divisor

VARIABLES
    pc,               \* the next port access of the firmware
    sample,           \* int lfsr of the handler
    dds_increment,    \* output of the port the handler writes
    clean             \* history: armed when this symbol began, no reset since

vars == <<clockVars, pioVars, pc, sample, dds_increment, clean>>

Booting  == {"mask", "clear", "register"}
Handling == {"enter", "read", "write", "ack", "flush"}

HighTone == 430       \* 0x1AE
LowTone  == 86        \* 0x56
Fault_ToneSwallowed(bit) == IF bit = 1 THEN 256 ELSE LowTone   \* a byte-wide write
Tone(bit) == IF bit = 1 THEN HighTone ELSE LowTone

-----------------------------------------------------------------------------

\* Accesses, this one included, up to the one that clears the capture.
AccessesLeft ==
    CASE pc = "register" -> 5
      [] pc = "flush"    -> 5
      [] pc = "enter"    -> 4
      [] pc = "read"     -> 3
      [] pc = "write"    -> 2
      [] pc = "ack"      -> 1
      [] OTHER           -> 0

\* The capture register holds an edge that the armed firmware must handle.
Owed == edge_capture = 1 /\ AccessesLeft > 0

\* The processor can do something else in this cycle and still be in time.
MayWait == Owed => Age + AccessesLeft < MaxLatency + 2

\* The hardware in one cycle; the history variable follows the symbol.
Hardware(write) ==
    /\ SymbolTick
    /\ PioTick(clk_out, write)
    /\ clean' = IF Rises THEN pc \notin {"mask", "clear"} ELSE clean

-----------------------------------------------------------------------------

Compute ==            \* code that is neither set-up nor handler
    /\ MayWait
    /\ Hardware("none")
    /\ UNCHANGED <<pc, sample, dds_increment>>

EnableInterrupt ==
    /\ pc = "mask"
    /\ Hardware("mask")
    /\ pc' = "clear"
    /\ UNCHANGED <<sample, dds_increment>>

ClearStaleEdge ==
    /\ pc = "clear"
    /\ Hardware("edge_cap")
    /\ pc' = "register"
    /\ UNCHANGED <<sample, dds_increment>>

RegisterHandler ==
    /\ pc = "register"
    /\ Hardware("none")
    /\ pc' = "enter"
    /\ UNCHANGED <<sample, dds_increment>>

EnterHandler ==
    /\ pc = "enter"
    /\ irq
    /\ Hardware("none")
    /\ pc' = "read"
    /\ UNCHANGED <<sample, dds_increment>>

ReadSymbol ==
    /\ pc = "read"
    /\ Hardware("none")
    /\ sample' = lfsr[0]
    /\ pc' = "write"
    /\ UNCHANGED dds_increment

Fault_KeepTone ==     \* writes the increment only for a one
    /\ pc = "write"
    /\ Hardware("none")
    /\ dds_increment' = IF sample = 1 THEN HighTone ELSE dds_increment
    /\ pc' = "ack"
    /\ UNCHANGED sample

WriteIncrement ==
    /\ pc = "write"
    /\ Hardware("none")
    /\ dds_increment' = Tone(sample)
    /\ pc' = "ack"
    /\ UNCHANGED sample

ClearEdgeCapture ==
    /\ pc = "ack"
    /\ Hardware("edge_cap")
    /\ pc' = "flush"
    /\ UNCHANGED <<sample, dds_increment>>

ReadBack ==           \* makes the posted clear arrive before the return
    /\ pc = "flush"
    /\ Hardware("none")
    /\ pc' = "enter"
    /\ UNCHANGED <<sample, dds_increment>>

Button ==
    /\ PressReset \/ ReleaseReset
    /\ clean' = (clean /\ rst' = 1)
    /\ UNCHANGED <<pioVars, pc, sample, dds_increment>>

-----------------------------------------------------------------------------

Init ==
    /\ SymbolInit
    /\ PioInit
    /\ pc = "mask"
    /\ sample = 0
    /\ dds_increment = 0
    /\ clean = FALSE

Boot == EnableInterrupt \/ ClearStaleEdge \/ RegisterHandler

Handler ==
    EnterHandler \/ ReadSymbol \/ WriteIncrement \/ ClearEdgeCapture \/ ReadBack

Cycle == Compute \/ Boot \/ Handler

Next == Cycle \/ Button

\* The clock never stops and main reaches the end of init_lfsr_interrupt.
\* The handler needs no fairness of its own: MayWait bounds its delay.
Spec ==
    /\ Init
    /\ [][Next]_vars
    /\ WF_vars(Cycle)
    /\ WF_vars(EnableInterrupt) /\ WF_vars(ClearStaleEdge) /\ WF_vars(RegisterHandler)

-----------------------------------------------------------------------------

TypeOK ==
    /\ SymbolTypeOK
    /\ PioTypeOK
    /\ pc \in Booting \cup Handling
    /\ sample \in Bit
    /\ dds_increment \in {0, LowTone, HighTone}
    /\ clean \in BOOLEAN

\* The shift register never holds the all-zero word, which it could not
\* leave: neither a shift nor a reset at any moment leads to it.
LfsrNeverLocks == \E i \in Stages : lfsr[i] = 1

\* Once the handler's time is over, the tone is that of the bit being sent,
\* unless KEY[0] changed the bit without an edge during this very symbol.
SymbolIsKeyed ==
    clean /\ Age >= MaxLatency + 2 => dds_increment = Tone(lfsr[0])

\* An edge is never swallowed by the clear of an earlier one: from the
\* moment it is latched, it stays latched until its tone is out.
EdgeNotLost ==
    clean /\ Age >= 2 => edge_capture = 1 \/ dds_increment = Tone(lfsr[0])

\* The handler never keys a tone that contradicts the bit on the LFSR.
KeysOnlyTheSymbol ==
    [][clean /\ dds_increment' # dds_increment
         => dds_increment' = Tone(lfsr'[0])]_vars

\* While KEY[0] stays released, the sequence passes through its longest run,
\* five ones, again and again, so the LFSR does not fall into a shorter cycle;
\* and the handler goes on sending both tones.
SequenceRecurs ==
    <>[](rst = 1) => /\ []<>(\A i \in Stages : lfsr[i] = 1)
                     /\ []<>(dds_increment = HighTone)
                     /\ []<>(dds_increment = LowTone)

=============================================================================
