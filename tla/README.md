# Verification of the digital modulation visualizer

The repository holds an FPGA design for a DE1-SoC board and the firmware of the
Nios II processor inside it.  A pseudo-random bit stream (an LFSR clocked once a
second) modulates a carrier in five ways (ASK, FSK, BPSK, the bits themselves,
QPSK); a VGA screen shows the modulated and the plain signal, buttons drawn on
the screen and pressed with a keyboard-driven cursor choose what is shown, and a
WAV player plays one of three songs.

This directory holds TLA+ models of it, the configurations that model-check
them on small instances, and proofs of their main properties for all instances.
`PROJECT.json` maps each definition to the lines it translates.  Paths below
are relative to `src/src/`; `fw/` stands for `software/dvc_code/`.

## Inventory

| part | source | state | operations | hard behaviour |
|---|---|---|---|---|
| symbol clock, LFSR | `my_Clk_divider.sv`, `LFSR.sv` | counter, clock, five bits | divide, shift, reset | asynchronous reset between two edges; a word it cannot leave |
| LFSR interrupt port | `DE1_SoC_QSYS_lfsr_clk_interrupt_gen.v` | two samples, capture, mask | sample, latch, mask, clear | the clear wins over an edge of the same cycle |
| FSK handler | `fw/student_code/student_code.c` | local bit | read bit, write increment, clear | an interrupt at any point, latency, set-up order |
| synchronizers | `synchronizer.sv` | three flip-flops each | take, resolve, pass on | two bits of one symbol resolve independently |
| modulators | `*_modulator.sv` | a registered sample each | choose a carrier | a dibit made of two symbols |
| waveform generator | `waveform_gen.vhd`, `sincos_lut.vhd` | phase accumulator | add, look up | none: data without control |
| multiplexers | `modulator_mux.sv`, `sig_mux.sv`, `phase_inc_mux.sv` | none | choose | different widths of one selector |
| oscilloscope | `plot_graph.v`, `sdram1.v` | write address, offset, flag, RAM, words read | sample, switch mode, read, light a pixel | mode switched anywhere in a turn, counters that wrap, RAM and offset written by another clock |
| PS/2 reader | `PS2_ScanCodeReader.v` | debouncer, shift register | sample, shift, report | bounce, data read late after their edge, cut frames |
| keyboard controller | `Keyboard_Controller.v`, `ScanCodeToEvent.v` | eight bytes, counter | gather, recognize, clear | codes that are parts of other codes; bytes of no code |
| key registers | `top.sv` | a bit per key | set, clear, reset | KEY[0] while keys are down |
| cursor | `Cursor.v`, `doublesync_no_reset.v` | position, repeat counter, synchronizers | move, wrap, reset | repeat counter that is stale, no clipping, three clocks |
| video counters | `hack_ltm_sincronization.v` | x, y | count pixels and ends of lines | no notion of a frame |
| buttons on screen | `fw/hello_ucosii.c` (`main`, `task2`) | pictures, selector ports | poll, redraw, select | each branch redraws a whole group by hand |
| audio player | `fw/hello_ucosii.c` (`task1`, `task2`) | flags, song, position, frequency | send a batch, pause, stop, click | preemption between two stores, full FIFO, end of the song |
| audio driver | `fw/drivers/drivers.c` | three ports, last state of the space bar | test full, write, set frequency, `mouse_pos` | eleven accesses for a sample, a position read across clocks |
| kernel | `uC/OS-II` (vendored) | delays, ready list | schedule, tick, delay | priorities |
| frame reader driver | `fw/vip_fr.c` | which frame is shown | set up, swap | both frames at one address |
| graphics, text | `fw/graphic_lib/` | the frame | lines, boxes, images, glyphs | clipping |
| generated and binary parts | Qsys system, SDRAM, `*.qxp` | | | |

How they interact.  The LFSR's bits go two ways: through the synchronizers to
the modulators, and through a port to the processor, which the rising edge of
the symbol clock interrupts and whose handler writes the carrier's increment
(only FSK uses it).  The multiplexers choose among the modulated and plain
signals by two output ports; the sampler feeds both choices to two instances of
`plot_graph`.  Keyboard bytes become key registers; these move the cursor and
are read, with its position, by `task2` every 100 ms.  A press on a button
redraws pictures in the frame and writes the selector ports or the flags that
`task1` reads; `task1` sends samples to the audio FIFO and has the higher
priority, so it may preempt `task2` between any two stores.

What makes each part correct:

- keying: each symbol gets its own tone within the symbol, no edge is lost, the
  LFSR never locks;
- modulators: every bit arrives once and in order at each modulator, and a torn
  dibit is over after one cycle;
- player: samples of one song in order, no overrun and no read past the array,
  a stop rewinds, no click is missed, the frequency register follows;
- oscilloscope: the newest sample is visible, a column per sample, a full turn
  shows the samples in order; the pixels of a column join its two samples;
- video counters: the pixel they show is the one on the screen, in every frame;
- cursor: an arrow moves it at its pace, a press acts where it is, a reset
  centres it;
- keyboard: edges counted once, bytes and codes neither split nor joined,
  registers that follow the keys;
- buttons: the screen shows what is selected.

## Modules

| module | models | uses |
|---|---|---|
| `SymbolClock` | divider, LFSR, KEY[0] | |
| `EdgeCapturePio` | the interrupt port | |
| `FskKeying` | the two above composed with the firmware's set-up and handler | `SymbolClock`, `EdgeCapturePio` |
| `SymbolChannel` | abstract: a bit taken is delivered before the next is taken | |
| `Modulators` | both synchronizers and the four modulators | `SymbolClock`; implements `SymbolChannel` twice |
| `SampleStream` | abstract: the stream of samples a listener may hear | |
| `AudioPort` | the three ports before the FIFO and the eleven writes of a sample | |
| `Player` | `task1`, the player's buttons, kernel, FIFO | `AudioPort`; implements `SampleStream` |
| `PlotGraph` | addresses and RAM of the oscilloscope | |
| `VideoSync` | video output and pixel counters | |
| `Scope` | reading the RAM of the oscilloscope and lighting pixels | `VideoSync`, `PlotGraph` |
| `ByteChannel` | abstract: bytes of the keyboard, each once and in time | |
| `Ps2Reader` | debouncer and frame reader, with a keyboard that bounces | implements `ByteChannel` |
| `KeyEvents` | keyboard controller, table of codes, key registers | starts from what `ByteChannel` promises |
| `Cursor` | position and repeat counter | |
| `Pointer` | key registers, synchronizers, both resets, `mouse_pos` | `Cursor`; its keys are those of `KeyEvents` |
| `FrameReader` | driver of the frame reader: the frame shown and the frame drawn | |
| `Gui` | set-up and buttons, selector ports, multiplexers | `FrameReader` |
| `*Proofs` | theorems of `FskKeying`, `Player`, `Modulators`, `PlotGraph`, `Scope`, `Pointer`, `Ps2Reader`, `KeyEvents` | |

State variables have the names of the code's registers and globals; those the
code does not have are marked in the declaration (the keyboard, the FIFO, `pc`
for the place in a program, and history variables, which no guard reads).
Operators called `Fault_...` are wrong variants of the definition after them;
nothing uses them, they serve to show that a property can fail.

**FskKeying.**  Every action but the push button is one cycle of CLOCK_50: the
hardware moves in all of them and the processor makes at most one port access.
`lfsr_clk` is a register of the same clock, so its edge belongs to the cycle
that sets it.  `Compute` is a cycle in which the processor does something else.
It may not delay a handler beyond `MaxLatency` (`MayWait`): this is the one
assumption about the processor, and the only one `SymbolIsKeyed` needs.

**Modulators.**  The first CLOCK_50 flip-flop of a synchronizer samples a
register that changes at the same edge; `Resolve` lets each of the two keep the
old bit for a cycle after a rise, independently.  Carriers are names of waves;
`QPSK` and the others are the tables of the code.

**Player.**  An action is one store to a shared variable, one port access or one
kernel call.  `Running2` is the kernel's choice: `task2` runs only while `task1`
is delayed.  A batch of 1000 samples is a loop of the wait for room and the
eleven writes of `AudioPort`, with the reader of the FIFO (`Drain`) between any two.
The FIFO takes what is on the data port at a rising edge of `WRCLK` with `WRREQ`
set, which is how the driver uses it.  `last` and `beat` record what it took: `beat`
flips with every word, so that `SampleStream` tells a sample sent twice from a
sample sent once.  Drawing takes time but changes nothing the
player reads.

**PlotGraph.**  The RAM maps every address to the age of its sample, so a picture
is a set of ages.  `Shown(x)` is the address of column x.

**VideoSync, Scope.**  A step is an edge of the video clock: the video output, the
RAM and the word register change at the rising one, the pixel counters at the
falling one.  `Sample` and `Switch` of `PlotGraph` come between any two edges.  The
rising edge after a sample may register any address, because the ten bits of the
offset change under it, and may read anything from the word that is written.
Registers hold ages; `Graph_on(h)` is whether the present pixel is lit when the
samples are `h`, and `TraceUnbroken` speaks of every `h`.  `vertical_line` is the mark
of the write address, in the inverse colour, that overpaint mode has.

**Cursor, Pointer.**  `Cycle` is an edge of the video clock, `KeyTick` one of the
key clock while it matters (it follows after one or two Cycles), the other steps
are key codes, the push button and the two reads of `mouse_pos`.  Each bit that
crosses a clock is taken old or new for itself: a set for the keys (`Taken`), a
number between two positions bit by bit (`Mixtures`).  Two key codes are half a
millisecond apart at least, so the change before has gone through the synchronizers
when the next comes (`Settled`).  `ReadKeys` keeps the two statics of `mouse_pos`
in the order of the code: `KeepStatics` saves `space` in `space_last`, compares and
overwrites, and `Result` looks at what it left.  `seen` and `owed` are history: what
the last call found the bar to be, and how many presses the calls have found more
than releases they have reported.  `ReleasesMatchPresses` compares the two; it
fails when the statics are compared before they are saved, saved after they are
overwritten, or reset by a call that finds no change.

**FrameReader.**  `main` shows frame 1 and draws boxes and text into frame 0, while
images go to the frame that is shown; the two have one address.

**Ps2Reader.**  A step is a cycle of `iCLK`.  The keyboard's clock line is
arbitrary for `Bounce` cycles after each change; its data line is arbitrary from
`Hold` cycles after the rising edge.  Levels last `Long` cycles or longer.

**KeyEvents.**  Starts from bytes that arrive one at a time, which is what
`Ps2Reader` is shown to deliver: a frame takes about a millisecond, the
controller needs two cycles for a byte.  The table of codes is the whole table of
`ScanCodeToEvent.v`: 103 keys, of which `Keys` says which ones are pressed; a key is
named by its make code read as a number.  The keyboard sends the code of any of
them at any moment.  It may also send bytes that are no code of the table: the
result of its self-test (`AA`) when it is plugged in, and the code of the key Pause,
for which the table has another one.  `noise` counts the bytes since the last one
from which the parser may have lost its place.

**Gui.**  A press is anywhere on the screen, so the properties hold whatever the
cursor does; that it acts where the cursor is, is a property of `Pointer`.  The
picture of a button is one step, and so is the write at the end of a branch.  The flags of the player are one variable, because `Player`
already takes their stores apart.

## Runs

| run | question | bounds |
|---|---|---|
| `fsk_keying` | Is every symbol keyed with its tone, whatever the latency and resets? Do both tones and the longest run recur? | 8 cycles a symbol, latency 5 |
| `modulators` | Does each synchronizer deliver each bit once?  How long is QPSK torn? | 5 cycles a symbol |
| `player` | Does preemption anywhere, also within a sample, leave the song intact, and is `task2` ever starved? | 3 batches of 2, FIFO of 2, delays 1 and 2 |
| `plot_graph` | Does the graph show the samples in order, wherever the mode is switched? | 10 columns of 16 addresses |
| `scope` | Are pixels where the counters say, and is the trace without gaps? | screen of 5 by 4, graph of 3 columns, 6 addresses, samples 0..5 |
| `pointer` | Does the cursor move at its pace, is a press where it stands, does KEY[0] centre it?  Does every press a poll finds get one release? | 4 by 4 positions, period 4, 2 keys at once |
| `ps2_reader` | Does bounce ever count an edge twice, and does every byte come out once? | debouncer of 3, 3 data bits, bounce 2 |
| `key_events` | Are codes ever split, joined or mistaken?  Do the registers follow? | 3 of 103 keys, codes behind one waiting byte at most, one plug, one Pause |
| `gui` | Does the screen say what is selected after any history of clicks? | all 8 colours |
| `player_loop` | is violated: the end of the song is not followed by its beginning | 2 batches of 2 |
| `plot_graph_latest` | is violated: the graph does not show the latest samples | as `plot_graph` |
| `key_events_pause` | is violated: a key that has been released stays held | 2 keys, empty buffer, one Pause |

Why the bounds are enough:

- `Divisor` = 8 and `MaxLatency` = 5 make the assumptions tight: five is the
  least number of accesses to the clear, and `MaxLatency + 3 = Divisor` leaves no
  cycle between the latest clear and the next edge.  Any larger symbol
  adds cycles in which nothing but the counter moves; the source has 50 000 000.
- A symbol of `Modulators` settles in three cycles; with five there is one left
  before the bits of the next one are taken.
- The source's song is 1 320 000 samples in batches of 1000: a whole number of
  batches, which `size_song == Batch * Batches` keeps.  Three batches have a
  first, an inner and a last one; a FIFO of two fills within a batch; `Delay1` <
  `Delay2` as in the source.  The frequency starts at its lower limit with its
  upper one step above, so both limits are reached.  The proofs cover the
  other values.
- A pixel of `Scope` depends on three neighbouring columns and on one wrap of the
  address, which three columns in six addresses have; the lines hold a graph of
  two lines with one line above.  Three blank clocks are what the left
  edge needs (a real line has 256).  Samples are four rising edges apart or
  more (some hundred thousand in the source), and with `Calm` = 3 `TraceUnbroken` fails.
- `Size` = 4 and `Period` = 4 (1024 and 2^21) let both coordinates wrap within a press
  and let the counter wrap within the time `HoldMoves` looks at; the speeds 2 and 3
  are one that divides the size and one that does not.  Two keys at a time give
  all pairs of arrows and an arrow with M or the space bar.  `MinPress` = 7: a press
  of KEY[0] of six video cycles (150 ns) leaves a moved cursor, `ResetCentres` then
  fails; a finger is slower.
- 10 of 16 addresses keep the proportion of 640 to 1024: both counters wrap, at
  different times, and the part of the RAM outside the window is not empty.
- A debouncer of three with a bounce of two is as short as bouncing allows, and
  `Hold` is the least the code needs; a smaller one is refused by the
  assumption.  Three data bits give the frame a first, an inner and a last one.
- The three keys of `key_events` are those whose codes have most to do with one another:
  the left arrow (`E0 6B`), the number pad's 4 whose code (`6B`) is the end of it, and
  PrtScr, whose codes are the longest and repeat the prefix inside.  A code put
  behind one waiting byte gives up to seven bytes under way, and more than one code.
  The proofs cover every other set of keys and every size of the buffer.
- `Gui` runs with all eight colours of the source, and nothing else in it is cut: the
  run visits the whole state space of the program's buttons.

Deadlock is checked in every run.

### Fairness

- `FskKeying`, `Modulators`: the clock never stops (`WF` of a cycle) and `main`
  reaches the end of its set-up.  The handler needs no fairness, since its delay is
  bounded.  The liveness properties assume that KEY[0] stays released.
- `Player`: `task1` has the highest priority (`WF`); `task2` runs in the delays of
  `task1`, which come again and again, and so does its turn (`SF`: it is enabled only
  then); the tick interrupt and the audio controller go on (`WF`).
- `Ps2Reader`: `iCLK` runs and a keyboard ends the frame it has begun (`WF`).
  `ByteChannel` promises `WF` of its delivery, and `ps2_reader` shows that it follows.
- `Modulators` states fairness of its clock and no liveness of its own: that a bit
  is delivered before the next one is taken is a safety property.
- `KeyEvents` states no liveness; `PlotGraph`, `Scope`, `Pointer` and `Gui` have none to
  state, since nothing obliges a user to press a key.

### What the runs found

1. *The first batch of a song is sent twice at its end* (`player_loop`,
   `fw/hello_ucosii.c:213`).  `address_counter` reaches `size_song`, is used
   modulo `size_song`, and only then reset.
2. *The graph can stay shifted* (`plot_graph_latest`, `plot_graph.v:167`).  The
   offset is cleared as soon as scrolling ends, the flag only at the end of the
   window; scrolling that begins again in between starts from the wrong offset.
3. *The key Pause leaves a key held* (`key_events_pause`, `ScanCodeToEvent.v:69`).  The
   table has `E1 14 77 E1 F0 14 E0 77`, a keyboard sends `F0` for the last prefix.  The
   eight bytes are never recognized nor cleared, the byte counter wraps onto them,
   and the `E0` or `F0` of the next code takes the first place: what is left behind it
   completes a code of another key, the rest of the bytes are read as a press.  In
   the run the space bar is held, Pause is pressed, the space bar is released, and its
   register stays set until it is released once more.

Seen in the code and not a property:

- a byte that begins no code (the `AA` of a keyboard that is plugged in) hides the
  codes after it, up to seven bytes (`Keyboard_Controller.v:75`); what holds, and is
  proved, is that the parser is back in step then (`BackInStep`);
- the arrow buttons select a song and stop the player, where their comments say
  that they play the next or previous one (`fw/hello_ucosii.c:407`, `:427`); an arrow
  button held for longer than 100 ms skips a song at each poll
  (`fw/drivers/drivers.c:127`);
- the branch of the back button draws the forward arrow seven rows too low
  (`fw/hello_ucosii.c:381`), and `ford` is the one button drawn up when pressed;
- after power-up in scroll mode the newest sample is one column behind the last
  one, because the write address starts at 640 and not below: this is why
  `NewestIsVisible` admits the sample before;
- column c joins the words of columns c - 2 and c - 1: the trace stands one column
  right of the line that marks the write address (`ScreenInOrder` says exactly where);
- the RAM is declared with 640 words (`sdram1.v:99`) and used with 1024; the mutant
  of `ScrollShowsHistory` shows what a device without the spare words would do.

## Proofs

TLAPS checks these for every value of the constants that satisfies the named
assumptions (`DivisorAssumption`, `LatencyAssumption`, `PlayerAssumption`,
`PlotAssumption`, `VideoAssumption`, `ScopeAssumption`, `PointerAssumption` with that of
the cursor, `Ps2Assumption`, `KeysAssumption`); TLC has checked the same formulas in the
runs above.  Each proof module defines `IInv`, shows `Init => IInv` and
`IInv /\ [Next]_vars => IInv'`, and derives the properties from it.

- `FskKeyingProofs`: `TypeCorrect`, `NeverLocks`, `NoEdgeLost`, `Keyed`,
  `KeysCorrectly`.  The properties are not inductive: that a tone is right at
  the deadline depends on where the edge is in the two flip-flops of the port
  (`Pipeline`), on the phase of the clock (`ClockPhase`), on how many accesses the
  handler has left (`Deadline`) and on what it has read (`HandlerData`).
- `ModulatorsProofs`: `TypeCorrect`, `Settled`, `TornBriefly`, and
  `SynchronizersImplementChannel`: both synchronizers implement `SymbolChannel`.
  `Pipeline` says which stage holds which bit at each age of the symbol;
  `TornSettles` bounds the torn point.
- `PlayerProofs`: `TypeCorrect`, `NoOverrun`, `NoReadPastEnd`, `EveryClickSeen`,
  `StopRewinds`, `FrequencyKept`, and `PlayerImplementsStream`, the refinement of
  `SampleStream`.  `ScheduleInv` carries the argument from the delays: `Delay1 <=
  Delay2` gives `task1` a turn between two polls.  `RewindInv` follows a stop
  through the stores of a click.  `BatchInv` keeps the position a multiple of the
  batch, which is why `Batch` divides the song.  For the refinement, `PortInv` says
  what the ports hold after each of the eleven accesses, so that the FIFO takes
  the sample at one of them and at no other; `RequestInv` that a batch under way is
  still the one the flags ask for, since `task2` cannot run in it; and `LastInv` where
  the last sample stands to the position, across the end of a batch and of the song.
- `PlotGraphProofs`: `TypeCorrect`, `NewestVisible`, `ScrollMoves`,
  `OverpaintInOrder`, `ScrollInOrder`.  `LagInv` relates the write address to the
  offset, `ScrollInv` and `OverpaintInv` give the age of every address the samples
  since the last switch have reached.
- `ScopeProofs`: `TypeCorrect`, `Coordinates`, `Unbroken`.  `Back(k)` is what the
  pixel counter showed k columns ago; `CountInv` ties the counters to the column and
  line of the video output in both halves of a clock, and `ReadInv` says that address,
  word and older word hold `Back(0)`, `Back(1)`, `Back(2)` once enough edges have passed
  since the last sample.  The blanking of three clocks is what brings the counters
  and the registers back to column 0 before the next line.  `ScopeImplementsGraph`:
  reading implements `PlotGraph`, so its theorems are used here through an instance of
  `PlotGraphProofs`; with them `ScreenInOrder` goes from the sampler to the pixel.  The
  trace on the screen joins each sample to the next in the order they were taken, in
  both modes, and the mark of overpaint mode stands at the one place where it does not.
  (No run lists its two formulas; TLC finds them true on the instance of `scope`.)
- `PointerProofs`: `TypeCorrect`, `Moves`, `ClicksTrue`, `Centres`, `Releases`, for every
  width of the position, every period of the repeat counter and any number of keys at
  once.  `PressInv` follows a press of KEY[0] through the flip-flops of both clocks: with
  seven video cycles it is through the slower way before it is over.  `QuietInv` says
  what each cycle without an arrow has cleared; after the fourth a position that is read
  is stable, and `StableRead` concludes that every mixture of its bits is the position
  itself (two numbers with the same bits are equal, by a least counterexample).
  `Releases` has an invariant of its own, `MouseInv`: between two calls `space` is what
  the last one found, so what it saves is what the next one must compare with.
  `TrustInv` carries this to the read of the keys.  `CentredInv`: an arrow that
  was held before the reset is in no flip-flop when the reset leaves it.  `HoldInv`:
  after n cycles of an arrow the cursor has made the steps of n or of n - 1 cycles,
  since the arrow is taken in the first cycle or in the second.
- `Ps2ReaderProofs`: `TypeCorrect` and `Ps2ImplementsChannel`, for every length of the
  debouncer and of a byte.  `BufferInv` says what each tap of the debouncer holds: the level
  of the line, past its bouncing, or the level before.  So taps that are all alike mean
  the level has changed for good, and `DebouncedInv` has each edge counted once and
  before the data line becomes arbitrary.  `FrameInv` ties the bit counter and the shift
  register to the bits of the frame taken in.
- `KeyEventsProofs`: `PrefixFree`, `TypeCorrect`, `InOrder`, `Follow`, `Back`, for any
  subset of the keys of the table, any number of bytes waiting and any number of plugs
  and of Pauses.  The table has 207 codes; they are compared by their shapes
  (`Shapes`: a plain byte, a prefix and a byte, both prefixes and a byte, and the three
  irregular codes) and not in pairs, since a prefix is no key's byte.  `PrefixFree`: no
  code begins another.  `Recognized`: gathered bytes which begin a code are recognized
  at its end and as no other.  `StreamInv` places the ends of all codes still owed among the
  bytes gathered and to be sent; `HoldingInv` says of each key that the last event
  about it under way tells whether it is down; `StepInv` that the parser stands inside
  a code that will be completed, or behind foreign bytes and on its way to the wrap of
  the counter, while the bytes to be sent end with a code.

Model-checked only:

- All liveness (the prover has no rule for fairness here): that `task2` is served, that
  both tones and the longest run recur, and the fairness that `DeliversBytes` promises
  besides the steps `Ps2ImplementsChannel` covers.
- `Gui`: its run takes all eight colours of the source and visits every state, so the
  run settles its four invariants for the program as it is.

## Abstractions, and what is not modelled

- Samples and pixels.  Carriers are names, ages stand for the words of the RAM,
  and drawing is a set of buttons.  The bitmaps of the cursor and the choice of a
  pixel among cursor, graph and frame are left out.
- PrtScr repeats with a code that differs from its make code; it is modelled as a key
  that does not repeat.
- `iRESET` of the keyboard controller is tied to 0 and is not modelled.
- Metastability is a free choice between the old and the new bit in one cycle.
- A frame of the keyboard that is cut short: nothing in the code brings the
  reader back in step, so there is no property to check.
- The waveform generator is a counter and a table that no other part's control
  depends on; `Modulators` keeps the names of its waves.
- The graphics library fills the frame with sequential loops; nothing reads the
  frame back.  Lines of the background that end beyond the frame, and the data
  cache that single pixels bypass, are listed as hazards without a property.
- Vendored and generated code (kernel services the program does not call, Qsys
  system, SDRAM, video pipeline), binary netlists (audio subsystem, sampler),
  tables of pixels and glyphs, and test benches, which have no assertions.

Most of the repository's lines are of that last kind: fonts and images are C
arrays, and the processor, the interconnect and the kernel are generated or
vendored.  They hold data, or state the program's own code does not reach.

## State of the plan

Everything that was planned is modelled and checked: keying, player with its
ports, modulators, oscilloscope from the sampler to the pixel with the mark of
overpaint mode, video counters, keyboard from the clock line to the registers with
the whole table of codes, cursor from the registers to the click, buttons and frames.
What a reader may want to add is the choice of a pixel among cursor, graph and
frame (`top.sv`), which is combinational.
