------------------------------- MODULE Player -------------------------------
(***************************************************************************)
(* The audio player of hello_ucosii.c: task1 (priority 1, period 10 ms)    *)
(* sends the selected song to the audio FIFO in batches, task2 (priority   *)
(* 2, period 100 ms) polls the cursor and sets the flags that task1 reads. *)
(* The kernel is uC/OS-II: task2 runs only while task1 is delayed, and     *)
(* task1 may preempt it between any two stores.                            *)
(*                                                                         *)
(* An action is one store to shared memory, one access to a port (the      *)
(* eleven of a sample are in AudioPort) or one kernel call.  Drawing       *)
(* changes nothing that the player reads and is left out; so are the       *)
(* buttons that do not belong to the player.                               *)
(***************************************************************************)
EXTENDS AudioPort, Sequences

CONSTANTS
    Batch,                   \* NUMERO_DE_MUESTRAS
    Batches,                 \* size_song / NUMERO_DE_MUESTRAS
    Depth,                   \* words in the audio FIFO
    Delay1, Delay2,          \* ticks in OSTimeDlyHMSM of task1 and task2
    FREQ_READER_INCREMENT,
    FREQ_READER_NOMINAL

ASSUME PlayerAssumption ==
    /\ Batch \in Nat \ {0} /\ Batches \in Nat \ {0} /\ Depth \in Nat \ {0}
    /\ Delay1 \in Nat \ {0} /\ Delay2 \in Nat
    /\ Delay1 <= Delay2
    /\ FREQ_READER_INCREMENT \in Nat \ {0}
    /\ FREQ_READER_NOMINAL \in Nat
    /\ FREQ_READER_INCREMENT <= FREQ_READER_NOMINAL

VARIABLES
    play_song, pause_song, stop_song, which_song, freq_reader,   \* globals
    fregen,                  \* AUDIO_DATA_FREGEN register
    pc1, dly1,               \* task1: next step, OSTCBDly
    address_counter, buf, i, \* task1: local variables
    pc2, dly2,               \* task2: next step, OSTCBDly
    click, done,             \* task2: the button pressed, its stores so far
    used, overrun,           \* words in the FIFO, a write found it full
    last, beat,              \* history: the last word that the FIFO took; flips
                             \* with each
    rewound,                 \* history: none taken since a stop
    seen                     \* history: task1 has read the flags since the
                             \* last store of task2

flags == <<play_song, pause_song, stop_song, which_song>>
task1Vars == <<pc1, dly1, address_counter, buf, i>>
task2Vars == <<pc2, dly2, click, done>>
vars == <<flags, freq_reader, fregen, task1Vars, task2Vars, portVars, used,
          overrun, last, beat, rewound, seen>>

size_song == Batch * Batches
FREQ_READER_MAX == 2 * FREQ_READER_NOMINAL
Songs == 0..2
Silence == Zero

\* set_audio_frequency_audio_controller: what it writes for a frequency.
DivData(freq) == (50000000 \div (2 * freq)) - 1

-----------------------------------------------------------------------------
(* task1 *)

Ready1 == dly1 = 0

Task1Start ==                \* set_audio_frequency_audio_controller(freq_reader)
    /\ Ready1 /\ pc1 = "start"
    /\ fregen' = DivData(freq_reader)
    /\ pc1' = "check"
    /\ UNCHANGED <<flags, freq_reader, dly1, address_counter, buf, i, task2Vars,
                   used, overrun, last, beat, rewound, seen, portVars>>

Fault_EmptyLoop ==           \* the loop of send_audio_fifo ends at once
    /\ Ready1 /\ pc1 = "check" /\ play_song = 1
    /\ buf' = [song |-> which_song, base |-> address_counter % size_song]
    /\ i' = 0 /\ pc1' = "advance" /\ seen' = TRUE
    /\ UNCHANGED <<flags, freq_reader, fregen, dly1, address_counter, task2Vars,
                   used, overrun, last, beat, rewound, portVars>>

BeginBatch ==                \* if (play_song == 1) send_audio_fifo(...)
    /\ Ready1 /\ pc1 = "check"
    /\ play_song = 1
    /\ buf' = [song |-> which_song, base |-> address_counter % size_song]
    /\ i' = 0
    /\ pc1' = "full"
    /\ seen' = TRUE
    /\ UNCHANGED <<flags, freq_reader, fregen, dly1, address_counter, task2Vars,
                   used, overrun, last, beat, rewound, portVars>>

Fault_ResumeAfterStop == address_counter
AddressIfIdle == IF pause_song = 0 /\ stop_song = 1 THEN 0 ELSE address_counter

NoBatch ==                   \* the other branches, and the delay that follows
    /\ Ready1 /\ pc1 = "check"
    /\ play_song = 0
    /\ address_counter' = AddressIfIdle
    /\ dly1' = Delay1
    /\ seen' = TRUE
    /\ UNCHANGED <<flags, freq_reader, fregen, pc1, buf, i, task2Vars, used,
                   overrun, last, beat, rewound, portVars>>

Fault_IgnoreFull == TRUE     \* no wait
Room == used < Depth         \* audio_dac_fifo_full() == 0

FifoHasRoom ==               \* the last turn of while (audio_dac_fifo_full() == 1);
    /\ Ready1 /\ pc1 = "full"
    /\ Room
    /\ pc1' = "write"
    /\ UNCHANGED <<flags, freq_reader, fregen, dly1, address_counter, buf, i,
                   task2Vars, used, overrun, last, beat, rewound, seen, portVars>>

Sample == [song |-> buf.song, index |-> buf.base + (i % size_song)]

FifoTakes ==                 \* the FIFO, at an edge of WRCLK
    IF Clocked
    THEN /\ IF used = Depth THEN overrun' = TRUE /\ used' = used
                            ELSE overrun' = overrun /\ used' = used + 1
         /\ last' = data /\ beat' = ~beat
         /\ rewound' = FALSE
    ELSE UNCHANGED <<used, overrun, last, beat, rewound>>

WriteSample ==               \* an access of audio_dac_wr_fifo(buf[i % size_song])
    /\ Ready1 /\ pc1 = "write"
    /\ PortAccess(Sample)
    /\ FifoTakes
    /\ i' = IF LastAccess THEN i + 1 ELSE i
    /\ pc1' = IF ~LastAccess THEN "write" ELSE IF i + 1 < Batch THEN "full"
              ELSE "advance"
    /\ UNCHANGED <<flags, freq_reader, fregen, dly1, address_counter, buf,
                   task2Vars, seen>>

AddressAfterBatch ==
    IF address_counter < size_song THEN address_counter + Batch ELSE 0

Fault_NoSleep == 0
SleepAfterBatch == Delay1    \* OSTimeDlyHMSM(0, 0, 0, 10)

Advance ==                   \* move on in the song, then delay
    /\ Ready1 /\ pc1 = "advance"
    /\ address_counter' = AddressAfterBatch
    /\ pc1' = "check"
    /\ dly1' = SleepAfterBatch
    /\ UNCHANGED <<flags, freq_reader, fregen, buf, i, task2Vars, used, overrun,
                   last, beat, rewound, seen, portVars>>

Task1 ==
    Task1Start \/ BeginBatch \/ NoBatch \/ FifoHasRoom \/ WriteSample \/ Advance

-----------------------------------------------------------------------------
(* task2 *)

\* The scheduler runs the ready task of the highest priority.
Fault_NoPriority == dly2 = 0
Running2 == dly2 = 0 /\ dly1 # 0

Buttons == {"play", "stop", "pause", "back", "ford", "forward", "backward"}

\* The stores that task2 makes for a button, in program order.
Stores(button) ==
    CASE button = "play"     -> << <<"play", 1>>, <<"pause", 0>>, <<"stop", 0>> >>
      [] button = "stop"     -> << <<"play", 0>>, <<"pause", 0>>, <<"stop", 1>> >>
      [] button = "pause"    -> << <<"play", 0>>, <<"pause", 1>>, <<"stop", 0>> >>
      [] button = "back"     -> << <<"freq", -1>>, <<"fregen", 0>> >>
      [] button = "ford"     -> << <<"freq", 1>>, <<"fregen", 0>> >>
      [] button = "forward"  -> << <<"play", 0>>, <<"pause", 0>>, <<"stop", 1>>, <<"song", 1>> >>
      [] button = "backward" -> << <<"play", 0>>, <<"pause", 0>>, <<"stop", 1>>, <<"song", -1>> >>
      [] OTHER               -> << >>

\* freq_reader after a click, kept between the increment and the maximum.
Fault_NoLowerLimit(step) ==
    LET freq == freq_reader + step * FREQ_READER_INCREMENT IN
    IF freq > FREQ_READER_MAX THEN FREQ_READER_MAX ELSE freq

ClampedFreq(step) ==
    LET freq == freq_reader + step * FREQ_READER_INCREMENT IN
    IF freq < FREQ_READER_INCREMENT THEN FREQ_READER_INCREMENT
    ELSE IF freq > FREQ_READER_MAX THEN FREQ_READER_MAX ELSE freq

Poll ==                      \* event = mouse_pos(...): a click or nothing
    /\ Running2 /\ pc2 = "poll"
    /\ click' \in Buttons \cup {"none"}
    /\ done' = 0
    /\ pc2' = "apply"
    /\ UNCHANGED <<flags, freq_reader, fregen, task1Vars, dly2, used, overrun,
                   last, beat, rewound, seen, portVars>>

Fault_NoRetune(var) == fregen
Retuned(var) == IF var = "fregen" THEN DivData(freq_reader) ELSE fregen

Store ==
    /\ Running2 /\ pc2 = "apply" /\ done < Len(Stores(click))
    /\ LET var == Stores(click)[done + 1][1]
           val == Stores(click)[done + 1][2] IN
       /\ play_song'   = IF var = "play" THEN val ELSE play_song
       /\ pause_song'  = IF var = "pause" THEN val ELSE pause_song
       /\ stop_song'   = IF var = "stop" THEN val ELSE stop_song
       /\ which_song'  = IF var = "song" /\ which_song + val \in Songs
                         THEN which_song + val ELSE which_song
       /\ freq_reader' = IF var = "freq" THEN ClampedFreq(val) ELSE freq_reader
       /\ fregen'      = Retuned(var)
       /\ rewound'     = (rewound \/ (var = "stop" /\ val = 1))
    /\ done' = done + 1
    /\ seen' = FALSE
    /\ UNCHANGED <<task1Vars, pc2, dly2, click, used, overrun, last, beat, portVars>>

Task2Delay ==                \* OSTimeDlyHMSM(0, 0, 0, 100)
    /\ Running2 /\ pc2 = "apply" /\ done = Len(Stores(click))
    /\ pc2' = "poll"
    /\ dly2' = Delay2
    /\ UNCHANGED <<flags, freq_reader, fregen, task1Vars, click, done, used, overrun,
                   last, beat, rewound, seen, portVars>>

Task2 == Poll \/ Store \/ Task2Delay

-----------------------------------------------------------------------------
(* The kernel's tick and the reader of the FIFO *)

Tick ==                      \* OSTimeTick
    /\ dly1 > 0 \/ dly2 > 0
    /\ dly1' = IF dly1 > 0 THEN dly1 - 1 ELSE 0
    /\ dly2' = IF dly2 > 0 THEN dly2 - 1 ELSE 0
    /\ UNCHANGED <<flags, freq_reader, fregen, pc1, address_counter, buf, i, pc2,
                   click, done, used, overrun, last, beat, rewound, seen, portVars>>

Drain ==                     \* the audio controller takes a sample
    /\ used > 0
    /\ used' = used - 1
    /\ UNCHANGED <<flags, freq_reader, fregen, task1Vars, task2Vars, overrun, last, beat,
                   rewound, seen, portVars>>

-----------------------------------------------------------------------------

Init ==
    /\ play_song = 0 /\ pause_song = 0 /\ stop_song = 0 /\ which_song = 0
    /\ freq_reader = FREQ_READER_NOMINAL
    /\ fregen = 0
    /\ pc1 = "start" /\ dly1 = 0
    /\ address_counter = 0 /\ buf = [song |-> 0, base |-> 0] /\ i = 0
    /\ pc2 = "poll" /\ dly2 = 0 /\ click = "none" /\ done = 0
    /\ PortInit
    /\ used = 0 /\ overrun = FALSE
    /\ last = Silence /\ beat = FALSE /\ rewound = TRUE
    /\ seen = FALSE

Next == Task1 \/ Task2 \/ Tick \/ Drain

\* The processor runs task1 whenever it is ready and task2 often enough in
\* the delays of task1; the tick interrupt and the audio controller go on.
Spec ==
    /\ Init /\ [][Next]_vars
    /\ WF_vars(Task1) /\ SF_vars(Task2) /\ WF_vars(Tick) /\ WF_vars(Drain)

-----------------------------------------------------------------------------

TypeOK ==
    /\ play_song \in {0, 1} /\ pause_song \in {0, 1} /\ stop_song \in {0, 1}
    /\ which_song \in Songs
    /\ freq_reader \in FREQ_READER_INCREMENT..FREQ_READER_MAX
    /\ fregen \in Int
    /\ pc1 \in {"start", "check", "full", "write", "advance"}
    /\ dly1 \in 0..Delay1
    /\ address_counter \in 0..size_song
    /\ buf \in [song : Songs, base : 0..(size_song - 1)]
    /\ i \in 0..Batch
    /\ pc2 \in {"poll", "apply"}
    /\ dly2 \in 0..Delay2
    /\ click \in Buttons \cup {"none"}
    /\ done \in 0..Len(Stores(click))
    /\ PortTypeOK
    /\ used \in 0..Depth
    /\ overrun \in BOOLEAN /\ beat \in BOOLEAN
    /\ rewound \in BOOLEAN /\ seen \in BOOLEAN

\* A sample is written only when the FIFO has room, although the wait and
\* the write are separate and the FIFO is read all the time.
FifoNeverOverruns == ~overrun

\* The batch never reads past the end of the song's array.
ReadsInsideSong == pc1 = "write" => buf.base + (i % size_song) < size_song

\* task2 never reads the next click before task1 has acted on the last one.
NoCommandMissed == pc2 = "poll" /\ Running2 => seen

\* After a stop, and after a change of song, the first sample is the first.
StartsAtBeginning == rewound /\ pc1 = "write" => buf.base + (i % size_song) = 0

\* While task2 waits, the audio controller runs at the chosen frequency.
FrequencyApplied == pc1 # "start" /\ pc2 = "poll" => fregen = DivData(freq_reader)

\* The words that the FIFO takes are the samples of the abstract stream, each of
\* them once: every word counts, also one that is the same as the last.
Stream == INSTANCE SampleStream
            WITH Size <- size_song, last <- IF rewound THEN Silence ELSE last
PlaysTheStream == Stream!StreamSpec

\* The user interface keeps polling, however fast or slow the FIFO drains.
KeepsPolling == []<>(pc2 = "poll") /\ []<>(pc2 = "apply")

\* A song that is asked for is heard, unless the request is withdrawn.
PlayIsHeard == play_song = 1 ~> (pc1 = "write" \/ play_song = 0)

\* From the comment above send_audio_fifo: the song is read and sent.  Its
\* samples follow one another, and its end is followed by its beginning.
SongInOrder ==
    [][~rewound /\ last' # last =>
         last'.index = (last.index + 1) % size_song]_vars

=============================================================================
