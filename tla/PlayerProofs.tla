---------------------------- MODULE PlayerProofs ----------------------------
(***************************************************************************)
(* Proofs about Player for every batch and song length, FIFO depth and     *)
(* pair of delays with Delay1 <= Delay2: no sample is lost or read outside *)
(* the song, no click is missed, a stop rewinds before the next play, and  *)
(* the words that the FIFO takes are those of SampleStream.                *)
(***************************************************************************)
EXTENDS Player, TLAPS, SequenceTheorems

\* The stores of a stop are made in order, so that a stop is announced only
\* when nothing plays or pauses any more.
Stopping == {"stop", "forward", "backward"}

ClickInv ==
    /\ click \in Buttons \cup {"none"}
    /\ done \in 0..Len(Stores(click))
    /\ pc2 = "poll" => done = Len(Stores(click))
    /\ click \in Stopping /\ done >= 1 => play_song = 0
    /\ click \in Stopping /\ done >= 2 => pause_song = 0

Positions == {k * Batch : k \in 0..Batches}
Starts == {k * Batch : k \in 0..(Batches - 1)}

Locals ==
    /\ play_song \in {0, 1} /\ pause_song \in {0, 1} /\ stop_song \in {0, 1}
    /\ which_song \in Songs
    /\ freq_reader \in FREQ_READER_INCREMENT..FREQ_READER_MAX
    /\ fregen \in Int
    /\ pc1 \in {"start", "check", "full", "write", "advance"}
    /\ dly1 \in 0..Delay1 /\ dly2 \in 0..Delay2
    /\ pc2 \in {"poll", "apply"}
    /\ used \in 0..Depth
    /\ overrun \in BOOLEAN /\ rewound \in BOOLEAN /\ seen \in BOOLEAN

\* task1 works on whole batches of the song.
BatchInv ==
    /\ address_counter \in Positions
    /\ buf \in [song : Songs, base : Starts]
    /\ i \in 0..Batch
    /\ pc1 \in {"full", "write"} => i < Batch

\* task1 is never preempted; task2 leaves it time to see every store.
ScheduleInv ==
    /\ pc1 \in {"full", "write", "advance"} => dly1 = 0 /\ seen
    /\ pc1 = "start" => dly1 = 0 /\ pc2 = "poll"
    /\ ~seen /\ pc2 = "poll" => dly1 <= dly2

\* Between a stop and the rewinding of the position, only the stop is seen.
RewindInv ==
    /\ rewound /\ address_counter # 0 =>
         /\ ~seen /\ play_song = 0 /\ pause_song = 0 /\ stop_song = 1
         /\ click \in Stopping /\ done >= 3
    /\ rewound /\ pc1 \in {"full", "write"} => buf.base = 0 /\ i = 0
    /\ pc1 = "advance" \/ (pc1 = "write" /\ access >= 7) => ~rewound

FifoInv ==
    /\ pc1 = "write" /\ access < 7 => used < Depth
    /\ ~overrun

\* The ports hold what the accesses so far have put there.
PortInv ==
    /\ access \in 0..10
    /\ pc1 # "write" => access = 0
    /\ wrclk = IF access = 7 THEN 1 ELSE 0
    /\ wrreq = IF access \in 5..8 THEN 1 ELSE 0
    /\ access \in 4..10 => data = Sample

\* What task1 sends is what the flags asked for, and the flags still ask.
Sending == pc1 \in {"full", "write", "advance"}
RequestInv ==
    /\ Sending => play_song = 1 /\ buf.song = which_song
                  /\ buf.base = address_counter % size_song
    /\ play_song = 1 /\ stop_song = 1 => click = "play" /\ done \in {1, 2}
    /\ stop_song = 1 => rewound \/ play_song = 1
    /\ click = "play" /\ done >= 1 => play_song = 1
    /\ click \in Stopping /\ done >= 3 => rewound

\* Where the last sample that was sent stands to the position of task1.
Taken == pc1 = "advance" \/ (pc1 = "write" /\ access >= 7)
Follows(n) ==
    \/ n = last.index + 1
    \/ n = 0 /\ last.index \in {size_song - 1, Batch - 1}
LastInv ==
    ~rewound =>
      /\ last \in [song : Songs, index : 0..(size_song - 1)]
      /\ last.song = which_song
      /\ ~Sending =>
           \/ address_counter = last.index + 1
           \/ address_counter = 0 /\ last.index = Batch - 1
      /\ Sending /\ ~Taken => Follows(buf.base + i)
      /\ Sending /\ Taken =>
           last.index = buf.base + (IF pc1 = "advance" THEN Batch ELSE i + 1) - 1

FreqInv ==
    pc1 # "start" /\ ~(click \in {"back", "ford"} /\ done = 1) => fregen = DivData(freq_reader)

Core ==
    /\ Locals /\ ClickInv /\ BatchInv /\ ScheduleInv /\ RewindInv
    /\ FifoInv /\ FreqInv

IInv == Core /\ PortInv /\ RequestInv /\ LastInv /\ beat \in BOOLEAN

-----------------------------------------------------------------------------
(* Facts about the positions in a song. *)

\* The next batch begins where this one ends, and the last ends the song.
LEMMA NextPosition ==
    ASSUME NEW a \in Positions, a < size_song
    PROVE  a \in Starts /\ a + Batch \in Positions
<1>1. PICK k \in 0..Batches : a = k * Batch
  BY DEF Positions
<1>2. k # Batches
  BY <1>1, PlayerAssumption DEF size_song
<1>3. k \in 0..(Batches - 1) /\ k + 1 \in 0..Batches
  BY <1>1, <1>2, PlayerAssumption
<1>4. a + Batch = (k + 1) * Batch
  BY <1>1, PlayerAssumption
<1> QED BY <1>1, <1>3, <1>4 DEF Positions, Starts

LEMMA PositionBounds ==
    /\ \A a \in Positions : a \in 0..size_song
    /\ \A a \in Starts : a \in Positions /\ a + Batch <= size_song
    /\ 0 \in Starts /\ size_song \in Positions /\ size_song \in Nat /\ Batch <= size_song
<1>1. ASSUME NEW k \in 0..Batches PROVE k * Batch \in 0..size_song
  BY PlayerAssumption DEF size_song
<1>2. ASSUME NEW k \in 0..(Batches - 1) PROVE k * Batch + Batch <= size_song
  <2>1. (k + 1) * Batch \in 0..size_song
    <3>1. k + 1 \in 0..Batches
      BY PlayerAssumption
    <3> QED BY <1>1, <3>1
  <2>2. (k + 1) * Batch = k * Batch + Batch
    BY PlayerAssumption
  <2> QED BY <2>1, <2>2
<1>3. 0 = 0 * Batch /\ 0 \in 0..(Batches - 1) /\ Batches \in 0..Batches
      /\ size_song = Batches * Batch /\ size_song \in Nat
  BY PlayerAssumption DEF size_song
<1>4. Batch <= size_song
  BY <1>2, <1>3, PlayerAssumption
<1>5. \A a \in Positions : a \in 0..size_song
  BY <1>1 DEF Positions
<1>6. \A a \in Starts : a \in Positions /\ a + Batch <= size_song
  <2> SUFFICES ASSUME NEW k \in 0..(Batches - 1)
               PROVE  k * Batch \in Positions /\ k * Batch + Batch <= size_song
    BY DEF Starts
  <2>1. k \in 0..Batches
    BY PlayerAssumption
  <2> QED BY <1>2, <2>1 DEF Positions
<1>7. 0 \in Starts /\ size_song \in Positions
  BY <1>3 DEF Positions, Starts
<1> QED BY <1>3, <1>4, <1>5, <1>6, <1>7

\* The position modulo the length is the start of a batch.
LEMMA PositionMod ==
    ASSUME NEW a \in Positions
    PROVE  /\ a % size_song \in Starts
           /\ a < size_song => a % size_song = a
           /\ a = size_song => a % size_song = 0
<1>1. a \in 0..size_song /\ size_song \in Nat /\ size_song > 0
  BY PositionBounds, PlayerAssumption
<1>2. a < size_song => a % size_song = a
  BY <1>1
<1>3. a = size_song => a % size_song = 0
  BY <1>1
<1> QED BY <1>1, <1>2, <1>3, NextPosition, PositionBounds

\* The stores of each button, one by one.
LEMMA StoresOf ==
    /\ Len(Stores("none")) = 0
    /\ \A b \in {"back", "ford"} :
         /\ Len(Stores(b)) = 2
         /\ Stores(b)[1][1] = "freq" /\ Stores(b)[1][2] \in {-1, 1}
         /\ Stores(b)[2][1] = "fregen"
    /\ \A b \in Stopping :
         /\ Len(Stores(b)) \in {3, 4}
         /\ Stores(b)[1] = <<"play", 0>>
         /\ Stores(b)[2] = <<"pause", 0>>
         /\ Stores(b)[3] = <<"stop", 1>>
         /\ Len(Stores(b)) = 4 => Stores(b)[4][1] = "song" /\ Stores(b)[4][2] \in {-1, 1}
    /\ \A b \in {"play", "pause"} :
         /\ Len(Stores(b)) = 3
         /\ Stores(b)[1][1] = "play"  /\ Stores(b)[1][2] \in {0, 1}
         /\ Stores(b)[2][1] = "pause" /\ Stores(b)[2][2] \in {0, 1}
         /\ Stores(b)[3] = <<"stop", 0>>
<1>1. Len(Stores("none")) = 0
  BY DEF Stores
<1>2. ASSUME NEW b \in {"back", "ford"}
      PROVE  /\ Len(Stores(b)) = 2
             /\ Stores(b)[1][1] = "freq" /\ Stores(b)[1][2] \in {-1, 1}
             /\ Stores(b)[2][1] = "fregen"
  BY DEF Stores
<1>3. ASSUME NEW b \in Stopping
      PROVE  /\ Len(Stores(b)) \in {3, 4}
             /\ Stores(b)[1] = <<"play", 0>>
             /\ Stores(b)[2] = <<"pause", 0>>
             /\ Stores(b)[3] = <<"stop", 1>>
             /\ Len(Stores(b)) = 4 => Stores(b)[4][1] = "song" /\ Stores(b)[4][2] \in {-1, 1}
  BY DEF Stores, Stopping
<1>4. ASSUME NEW b \in {"play", "pause"}
      PROVE  /\ Len(Stores(b)) = 3
             /\ Stores(b)[1][1] = "play"  /\ Stores(b)[1][2] \in {0, 1}
             /\ Stores(b)[2][1] = "pause" /\ Stores(b)[2][2] \in {0, 1}
             /\ Stores(b)[3] = <<"stop", 0>>
  BY DEF Stores
<1> QED BY <1>1, <1>2, <1>3, <1>4

LEMMA StoresLength ==
    ASSUME NEW b \in Buttons \cup {"none"}
    PROVE  Len(Stores(b)) \in 0..4
BY StoresOf DEF Buttons, Stopping

-----------------------------------------------------------------------------

LEMMA InitIInv == Init => IInv
<1> SUFFICES ASSUME Init PROVE IInv
  OBVIOUS
<1> USE PlayerAssumption DEF Init
<1>1. Locals
  <2>1. freq_reader \in FREQ_READER_INCREMENT..FREQ_READER_MAX
    BY DEF FREQ_READER_MAX
  <2>2. dly1 \in 0..Delay1 /\ dly2 \in 0..Delay2 /\ used \in 0..Depth
    OBVIOUS
  <2>3. overrun \in BOOLEAN /\ rewound \in BOOLEAN /\ seen \in BOOLEAN
    OBVIOUS
  <2> QED BY <2>1, <2>2, <2>3 DEF Locals, Songs
<1>2. ClickInv
  BY StoresOf, StoresLength DEF ClickInv, Stopping
<1>3. BatchInv
  BY PositionBounds DEF BatchInv, Songs
<1>4. ScheduleInv /\ RewindInv /\ FifoInv /\ FreqInv
  BY DEF ScheduleInv, RewindInv, FifoInv, FreqInv, PortInit
<1>5. PortInv
  BY DEF PortInv, PortInit
<1>6. RequestInv /\ LastInv
  BY DEF RequestInv, LastInv, Sending, Stopping
<1> QED BY <1>1, <1>2, <1>3, <1>4, <1>5, <1>6 DEF IInv, Core

\* When task2 may run, task1 is in a delay and between two batches.
LEMMA Task1Waits ==
    ASSUME IInv, Running2
    PROVE  pc1 = "check" /\ dly1 > 0 /\ dly2 = 0 /\ (pc2 = "poll" => seen)
BY PlayerAssumption DEF IInv, Core, Locals, ScheduleInv, Running2

LEMMA Task1Step == IInv /\ Task1 => Core'
<1> SUFFICES ASSUME IInv, Task1 PROVE Core'
  OBVIOUS
<1> USE PlayerAssumption DEF Ready1, flags, task1Vars, task2Vars, portVars
<1>1. CASE Task1Start
  <2>1. fregen' \in Int
    BY <1>1 DEF Task1Start, IInv, Core, Locals, DivData, FREQ_READER_MAX
  <2>2. Locals'
    BY <1>1, <2>1 DEF Task1Start, IInv, Core, Locals
  <2>3. ClickInv' /\ BatchInv' /\ ScheduleInv' /\ RewindInv' /\ FifoInv'
    BY <1>1 DEF Task1Start, IInv, Core, ClickInv, BatchInv, ScheduleInv, RewindInv, FifoInv
  <2>4. FreqInv'
    BY <1>1 DEF Task1Start, FreqInv, DivData
  <2> QED BY <2>2, <2>3, <2>4 DEF Core
<1>2. CASE BeginBatch
  <2>1. Locals'
    BY <1>2 DEF BeginBatch, IInv, Core, Locals
  <2>2. ClickInv' /\ FifoInv' /\ FreqInv'
    BY <1>2 DEF BeginBatch, IInv, Core, ClickInv, FifoInv, FreqInv, DivData
  <2>3. BatchInv'
    BY <1>2, PositionMod DEF BeginBatch, IInv, Core, BatchInv, Locals
  <2>4. ScheduleInv'
    BY <1>2 DEF BeginBatch, IInv, Core, ScheduleInv
  <2>5. RewindInv'
    <3>1. rewound => address_counter = 0
      BY <1>2 DEF BeginBatch, IInv, Core, RewindInv
    <3>2. rewound => buf'.base = 0 /\ i' = 0
      BY <1>2, <3>1, PositionMod, PositionBounds DEF BeginBatch, IInv, Core, BatchInv
    <3> QED BY <1>2, <3>1, <3>2 DEF BeginBatch, RewindInv
  <2> QED BY <2>1, <2>2, <2>3, <2>4, <2>5 DEF Core
<1>3. CASE NoBatch
  <2>1. Locals'
    BY <1>3 DEF NoBatch, AddressIfIdle, IInv, Core, Locals
  <2>2. ClickInv' /\ FifoInv' /\ FreqInv'
    BY <1>3 DEF NoBatch, AddressIfIdle, IInv, Core, ClickInv, FifoInv, FreqInv, DivData
  <2>3. BatchInv'
    BY <1>3, PositionBounds DEF NoBatch, AddressIfIdle, IInv, Core, BatchInv
  <2>4. ScheduleInv'
    BY <1>3 DEF NoBatch, AddressIfIdle, IInv, Core, ScheduleInv
  <2>5. RewindInv'
    BY <1>3 DEF NoBatch, AddressIfIdle, IInv, Core, RewindInv
  <2> QED BY <2>1, <2>2, <2>3, <2>4, <2>5 DEF Core
<1>4. CASE FifoHasRoom
  <2>1. Locals' /\ FifoInv'
    BY <1>4 DEF FifoHasRoom, Room, IInv, Core, Locals, FifoInv
  <2>2. ClickInv' /\ FreqInv' /\ BatchInv'
    BY <1>4 DEF FifoHasRoom, Room, IInv, Core, ClickInv, FreqInv, BatchInv, DivData
  <2>3. ScheduleInv' /\ RewindInv'
    BY <1>4 DEF FifoHasRoom, Room, IInv, Core, ScheduleInv, RewindInv, PortInv
  <2> QED BY <2>1, <2>2, <2>3 DEF Core
<1>5. CASE WriteSample
  <2> DEFINE rising == access = 6
  <2>1. /\ access \in 0..10 /\ i < Batch
        /\ UNCHANGED <<flags, freq_reader, fregen, dly1, address_counter, buf,
                       task2Vars, seen>>
        /\ access' = IF access = 10 THEN 0 ELSE access + 1
        /\ i' = IF access = 10 THEN i + 1 ELSE i
        /\ pc1' = IF access # 10 THEN "write" ELSE IF i + 1 < Batch THEN "full"
                  ELSE "advance"
    BY <1>5 DEF WriteSample, IInv, Core, BatchInv, PortInv, PortAccess, LastAccess
  <2>2. Clocked <=> rising
    BY <1>5 DEF WriteSample, IInv, PortInv, PortAccess, DriveControl, Clocked
  <2>3. IF rising THEN used < Depth /\ used' = used + 1 /\ rewound' = FALSE
                  ELSE used' = used /\ rewound' = rewound
    BY <1>5, <2>2 DEF WriteSample, FifoTakes, IInv, Core, FifoInv, Locals
  <2>4. overrun' = overrun
    BY <1>5, <2>2 DEF WriteSample, FifoTakes, IInv, Core, FifoInv, Locals
  <2>5. Locals'
    <3>1. used' \in 0..Depth
      BY <2>3 DEF IInv, Core, Locals
    <3>2. pc1' \in {"full", "write", "advance"} /\ rewound' \in BOOLEAN
      BY <2>1, <2>3 DEF IInv, Core, Locals
    <3> QED BY <2>1, <2>4, <3>1, <3>2 DEF IInv, Core, Locals
  <2>6. FifoInv'
    BY <1>5, <2>1, <2>3, <2>4 DEF WriteSample, IInv, Core, FifoInv
  <2>7. ClickInv' /\ FreqInv' /\ BatchInv'
    BY <1>5, <2>1 DEF WriteSample, IInv, Core, ClickInv, FreqInv, BatchInv, DivData
  <2>8. ScheduleInv'
    BY <1>5, <2>1 DEF WriteSample, IInv, Core, ScheduleInv
  <2>9. RewindInv'
    BY <1>5, <2>1, <2>3 DEF WriteSample, IInv, Core, RewindInv
  <2> QED BY <2>5, <2>6, <2>7, <2>8, <2>9 DEF Core
<1>6. CASE Advance
  <2>1. Locals' /\ FifoInv'
    BY <1>6 DEF Advance, AddressAfterBatch, SleepAfterBatch, IInv, Core, Locals, FifoInv
  <2>2. ClickInv' /\ FreqInv'
    BY <1>6 DEF Advance, AddressAfterBatch, SleepAfterBatch, IInv, Core, ClickInv, FreqInv, DivData
  <2>3. BatchInv'
    BY <1>6, NextPosition, PositionBounds DEF Advance, AddressAfterBatch, SleepAfterBatch, IInv, Core, BatchInv
  <2>4. ScheduleInv' /\ RewindInv'
    BY <1>6 DEF Advance, AddressAfterBatch, SleepAfterBatch, IInv, Core, ScheduleInv, RewindInv
  <2> QED BY <2>1, <2>2, <2>3, <2>4 DEF Core
<1> QED BY <1>1, <1>2, <1>3, <1>4, <1>5, <1>6 DEF Task1

LEMMA StoreStep == IInv /\ Store => Core'
<1> SUFFICES ASSUME IInv, Store PROVE Core'
  OBVIOUS
<1> USE PlayerAssumption
<1> DEFINE var == Stores(click)[done + 1][1]
           val == Stores(click)[done + 1][2]
<1>1. /\ pc1 = "check" /\ dly1 > 0 /\ dly2 = 0
      /\ pc2 = "apply" /\ pc2' = pc2
      /\ click \in Buttons \cup {"none"} /\ click' = click
      /\ done \in 0..3 /\ done < Len(Stores(click)) /\ done' = done + 1
      /\ seen' = FALSE
      /\ UNCHANGED <<pc1, dly1, dly2, address_counter, buf, i, used, overrun>>
  BY Task1Waits, StoresLength DEF Store, IInv, Core, ClickInv, task1Vars
<1>2. /\ play_song'   = IF var = "play" THEN val ELSE play_song
      /\ pause_song'  = IF var = "pause" THEN val ELSE pause_song
      /\ stop_song'   = IF var = "stop" THEN val ELSE stop_song
      /\ which_song'  = IF var = "song" /\ which_song + val \in Songs
                        THEN which_song + val ELSE which_song
      /\ freq_reader' = IF var = "freq" THEN ClampedFreq(val) ELSE freq_reader
      /\ fregen'      = IF var = "fregen" THEN DivData(freq_reader) ELSE fregen
      /\ rewound'     = (rewound \/ (var = "stop" /\ val = 1))
  BY DEF Store, Retuned
<1>3. BatchInv' /\ FifoInv'
  <2>1. access' = access
    BY DEF Store, portVars
  <2> QED BY <1>1, <2>1 DEF IInv, Core, BatchInv, FifoInv
<1>4. ScheduleInv'
  BY <1>1 DEF ScheduleInv
<1>5. done' \in 0..Len(Stores(click))
  BY <1>1, StoresLength
<1>10. rewound' \in BOOLEAN /\ seen' \in BOOLEAN
  BY <1>1, <1>2
<1>6. \/ click \in Stopping \/ click \in {"back", "ford"} \/ click \in {"play", "pause"}
  BY <1>1, StoresOf DEF Buttons, Stopping
<1>7. CASE click \in Stopping
  <2>1. /\ done = 0 => var = "play" /\ val = 0
        /\ done = 1 => var = "pause" /\ val = 0
        /\ done = 2 => var = "stop" /\ val = 1
        /\ done = 3 => var = "song"
    BY <1>1, <1>7, StoresOf
  <2>2. Locals'
    <3>1. /\ play_song' \in {0, 1} /\ pause_song' \in {0, 1} /\ stop_song' \in {0, 1}
          /\ which_song' \in Songs /\ freq_reader' = freq_reader /\ fregen' = fregen
      BY <1>1, <1>2, <2>1 DEF IInv, Core, Locals
    <3> QED BY <1>1, <1>10, <3>1 DEF IInv, Core, Locals
  <2>3. ClickInv'
    BY <1>1, <1>2, <1>5, <2>1 DEF IInv, Core, ClickInv
  <2>4. RewindInv'
    <3>1. ASSUME rewound', address_counter' # 0
          PROVE  play_song' = 0 /\ pause_song' = 0 /\ stop_song' = 1 /\ done' >= 3
      <4>1. CASE done < 2
        <5>1. rewound
          <6>1. done = 0 \/ done = 1
            BY <1>1, <4>1
          <6>2. var # "stop"
            BY <2>1, <6>1
          <6> QED BY <1>2, <3>1, <6>2
        <5> QED BY <1>1, <3>1, <4>1, <5>1 DEF IInv, Core, RewindInv
      <4>2. CASE done = 2
        BY <1>1, <1>2, <1>7, <2>1, <4>2 DEF IInv, Core, ClickInv
      <4>3. CASE done = 3
        <5>1. rewound
          BY <1>2, <2>1, <3>1, <4>3
        <5> QED BY <1>1, <1>2, <2>1, <3>1, <4>3, <5>1 DEF IInv, Core, RewindInv
      <4> QED BY <1>1, <4>1, <4>2, <4>3
    <3> QED BY <1>1, <1>7, <3>1 DEF RewindInv
  <2>5. FreqInv'
    BY <1>1, <1>2, <1>7, <2>1 DEF IInv, Core, FreqInv, DivData, Stopping
  <2> QED BY <1>3, <1>4, <2>2, <2>3, <2>4, <2>5 DEF IInv, Core
<1>8. CASE click \in {"back", "ford"}
  <2>1. /\ done \in {0, 1}
        /\ done = 0 => var = "freq" /\ val \in {-1, 1}
        /\ done = 1 => var = "fregen"
    <3>1. /\ Len(Stores(click)) = 2
          /\ Stores(click)[1][1] = "freq" /\ Stores(click)[1][2] \in {-1, 1}
          /\ Stores(click)[2][1] = "fregen"
      BY <1>8, StoresOf
    <3> QED BY <1>1, <3>1
  <2>2. Locals'
    <3>1. freq_reader \in Nat /\ freq_reader >= FREQ_READER_INCREMENT
      BY DEF IInv, Core, Locals, FREQ_READER_MAX
    <3>2. DivData(freq_reader) \in Int
      BY <3>1 DEF DivData
    <3>3. val \in Int => ClampedFreq(val) \in FREQ_READER_INCREMENT..FREQ_READER_MAX
      <4>1. SUFFICES ASSUME NEW k \in Int
                     PROVE  ClampedFreq(k) \in FREQ_READER_INCREMENT..FREQ_READER_MAX
        OBVIOUS
      <4>2. k * FREQ_READER_INCREMENT \in Int
        OBVIOUS
      <4> QED BY <3>1, <4>2 DEF ClampedFreq, FREQ_READER_MAX
    <3>4. freq_reader' \in FREQ_READER_INCREMENT..FREQ_READER_MAX /\ fregen' \in Int
      BY <1>2, <2>1, <3>2, <3>3 DEF IInv, Core, Locals
    <3> QED BY <1>1, <1>2, <2>1, <3>4 DEF IInv, Core, Locals
  <2>3. ClickInv'
    BY <1>1, <1>5, <1>8 DEF ClickInv, Stopping
  <2>4. RewindInv'
    BY <1>1, <1>2, <1>8, <2>1 DEF IInv, Core, RewindInv, Stopping
  <2>5. FreqInv'
    BY <1>1, <1>2, <1>8, <2>1 DEF FreqInv, DivData
  <2> QED BY <1>3, <1>4, <2>2, <2>3, <2>4, <2>5 DEF IInv, Core
<1>9. CASE click \in {"play", "pause"}
  <2>1. /\ done \in {0, 1, 2}
        /\ done = 0 => var = "play" /\ val \in {0, 1}
        /\ done = 1 => var = "pause" /\ val \in {0, 1}
        /\ done = 2 => var = "stop" /\ val = 0
    <3>1. /\ Len(Stores(click)) = 3
          /\ Stores(click)[1][1] = "play"  /\ Stores(click)[1][2] \in {0, 1}
          /\ Stores(click)[2][1] = "pause" /\ Stores(click)[2][2] \in {0, 1}
          /\ Stores(click)[3] = <<"stop", 0>>
      BY <1>9, StoresOf
    <3> QED BY <1>1, <3>1
  <2>2. Locals'
    BY <1>1, <1>2, <2>1 DEF IInv, Core, Locals
  <2>3. ClickInv'
    BY <1>1, <1>5, <1>9 DEF ClickInv, Stopping
  <2>4. RewindInv'
    BY <1>1, <1>2, <1>9, <2>1 DEF IInv, Core, RewindInv, Stopping
  <2>5. FreqInv'
    BY <1>1, <1>2, <1>9, <2>1 DEF IInv, Core, FreqInv, DivData
  <2> QED BY <1>3, <1>4, <2>2, <2>3, <2>4, <2>5 DEF IInv, Core
<1> QED BY <1>6, <1>7, <1>8, <1>9

LEMMA Task2Step == IInv /\ Task2 => Core'
<1> SUFFICES ASSUME IInv, Task2 PROVE Core'
  OBVIOUS
<1> USE PlayerAssumption DEF flags, task1Vars
<1>1. CASE Poll
  <2>1. pc1 = "check" /\ dly1 > 0 /\ seen
    BY <1>1, Task1Waits DEF Poll
  <2>2. /\ click' \in Buttons \cup {"none"} /\ done' = 0 /\ pc2' = "apply"
        /\ UNCHANGED <<flags, freq_reader, fregen, task1Vars, dly2, used, overrun,
                       last, rewound, seen, access>>
    BY <1>1 DEF Poll, portVars
  <2>3. Locals' /\ BatchInv' /\ ScheduleInv' /\ FifoInv'
    <3>1. Locals'
      BY <2>2 DEF IInv, Core, Locals
    <3>2. BatchInv' /\ FifoInv'
      BY <2>2 DEF IInv, Core, BatchInv, FifoInv
    <3>3. ScheduleInv'
      BY <2>1, <2>2 DEF ScheduleInv
    <3> QED BY <3>1, <3>2, <3>3
  <2>4. ClickInv'
    BY <2>2, StoresLength DEF ClickInv
  <2>5. RewindInv'
    BY <2>1, <2>2 DEF IInv, Core, RewindInv
  <2>6. FreqInv'
    <3>1. ~(click \in {"back", "ford"} /\ done = 1)
      BY <1>1, StoresOf DEF IInv, Core, ClickInv, Poll
    <3> QED BY <2>2, <3>1 DEF IInv, Core, FreqInv, DivData
  <2> QED BY <2>3, <2>4, <2>5, <2>6 DEF Core
<1>2. CASE Store
  BY <1>2, StoreStep
<1>3. CASE Task2Delay
  <2>1. pc1 = "check" /\ dly1 > 0 /\ dly2 = 0
    BY <1>3, Task1Waits DEF Task2Delay
  <2>2. /\ done = Len(Stores(click)) /\ pc2' = "poll" /\ dly2' = Delay2
        /\ UNCHANGED <<flags, freq_reader, fregen, task1Vars, click, done, used,
                       overrun, last, rewound, seen, access>>
    BY <1>3 DEF Task2Delay, portVars
  <2>3. Locals' /\ ClickInv' /\ BatchInv' /\ FifoInv'
    BY <2>2 DEF IInv, Core, Locals, ClickInv, BatchInv, FifoInv
  <2>4. ScheduleInv'
    BY <2>1, <2>2 DEF IInv, Core, ScheduleInv, Locals
  <2>5. RewindInv' /\ FreqInv'
    BY <2>2 DEF IInv, Core, RewindInv, FreqInv, DivData
  <2> QED BY <2>3, <2>4, <2>5 DEF Core
<1> QED BY <1>1, <1>2, <1>3 DEF Task2

LEMMA StepCore == IInv /\ [Next]_vars => Core'
<1> SUFFICES ASSUME IInv, [Next]_vars PROVE Core'
  OBVIOUS
<1>1. CASE Tick
  <2>1. /\ dly1' = IF dly1 > 0 THEN dly1 - 1 ELSE 0
        /\ dly2' = IF dly2 > 0 THEN dly2 - 1 ELSE 0
        /\ UNCHANGED <<flags, freq_reader, fregen, pc1, address_counter, buf, i, pc2,
                       click, done, used, overrun, last, rewound, seen, access>>
    BY <1>1 DEF Tick, portVars
  <2>2. Locals'
    BY <2>1, PlayerAssumption DEF IInv, Core, Locals, flags
  <2>3. ClickInv' /\ BatchInv' /\ FifoInv'
    BY <2>1 DEF IInv, Core, ClickInv, BatchInv, FifoInv, flags
  <2>4. ScheduleInv'
    BY <2>1, PlayerAssumption DEF IInv, Core, ScheduleInv, Locals
  <2>5. RewindInv' /\ FreqInv'
    BY <2>1 DEF IInv, Core, RewindInv, FreqInv, flags, DivData
  <2> QED BY <2>2, <2>3, <2>4, <2>5 DEF Core
<1>2. CASE Drain
  <2>1. /\ used > 0 /\ used' = used - 1
        /\ UNCHANGED <<flags, freq_reader, fregen, task1Vars, task2Vars, overrun, last,
                       rewound, seen, access>>
    BY <1>2 DEF Drain, portVars
  <2>2. Locals' /\ FifoInv'
    BY <2>1, PlayerAssumption DEF IInv, Core, Locals, FifoInv, flags, task1Vars, task2Vars
  <2>3. ClickInv' /\ BatchInv' /\ ScheduleInv'
    BY <2>1 DEF IInv, Core, ClickInv, BatchInv, ScheduleInv, flags, task1Vars, task2Vars
  <2>4. RewindInv' /\ FreqInv'
    BY <2>1 DEF IInv, Core, RewindInv, FreqInv, flags, task1Vars, task2Vars, DivData
  <2> QED BY <2>2, <2>3, <2>4 DEF Core
<1>3. CASE UNCHANGED vars
  BY <1>3 DEF vars, flags, task1Vars, task2Vars, portVars, IInv, Core, Locals, ClickInv, BatchInv,
     ScheduleInv, RewindInv, FifoInv, FreqInv, DivData
<1> QED BY <1>1, <1>2, <1>3, Task1Step, Task2Step DEF Next

\* The ports: only WriteSample drives them, and only FifoHasRoom leads there.
LEMMA PortStep == IInv /\ [Next]_vars => PortInv'
<1> SUFFICES ASSUME IInv, [Next]_vars PROVE PortInv'
  OBVIOUS
<1>1. CASE WriteSample
  <2>1. /\ access \in 0..10 /\ pc1 = "write"
        /\ access' = IF access = 10 THEN 0 ELSE access + 1
        /\ pc1' # "write" => access = 10
        /\ access # 10 => buf' = buf /\ i' = i
    BY <1>1 DEF WriteSample, IInv, PortInv, PortAccess, LastAccess
  <2>2. wrclk' = IF access' = 7 THEN 1 ELSE 0
    BY <1>1, <2>1 DEF WriteSample, IInv, PortInv, PortAccess, DriveControl
  <2>3. wrreq' = IF access' \in 5..8 THEN 1 ELSE 0
    BY <1>1, <2>1 DEF WriteSample, IInv, PortInv, PortAccess, DriveControl
  <2>4. access' \in 4..10 => data' = Sample'
    <3>1. access # 10 => Sample' = Sample
      BY <2>1 DEF Sample
    <3>2. data' = IF access = 3 THEN Sample ELSE IF access \in {2, 10} THEN Zero ELSE data
      BY <1>1 DEF WriteSample, PortAccess, DriveData
    <3> QED BY <2>1, <3>1, <3>2 DEF IInv, PortInv
  <2> QED BY <2>1, <2>2, <2>3, <2>4 DEF PortInv
<1>2. CASE FifoHasRoom
  <2>1. pc1 = "full" /\ UNCHANGED <<access, wrreq, wrclk, data, buf, i>>
    BY <1>2 DEF FifoHasRoom, portVars
  <2> QED BY <2>1 DEF IInv, PortInv, Sample
<1>3. CASE Task1Start \/ BeginBatch \/ NoBatch \/ Advance
  <2>1. pc1 # "write" /\ pc1' # "write" /\ UNCHANGED <<access, wrreq, wrclk, data>>
    BY <1>3 DEF Task1Start, BeginBatch, NoBatch, Advance, portVars
  <2> QED BY <2>1 DEF IInv, PortInv
<1>4. CASE Task2 \/ Tick \/ Drain \/ UNCHANGED vars
  <2>1. UNCHANGED <<pc1, buf, i, access, wrreq, wrclk, data>>
    BY <1>4 DEF Task2, Poll, Store, Task2Delay, Tick, Drain, vars, task1Vars, portVars
  <2> QED BY <2>1 DEF IInv, PortInv, Sample
<1> QED BY <1>1, <1>2, <1>3, <1>4 DEF Next, Task1

\* The requests: a store of task2 is never seen half done by a batch.
LEMMA RequestStep == IInv /\ [Next]_vars => RequestInv'
<1> SUFFICES ASSUME IInv, [Next]_vars PROVE RequestInv'
  OBVIOUS
<1>1. CASE Task1Start \/ NoBatch \/ Advance
  <2>1. ~Sending' /\ UNCHANGED <<play_song, stop_song, click, done, rewound>>
    BY <1>1 DEF Task1Start, NoBatch, Advance, Sending, flags, task2Vars
  <2> QED BY <2>1 DEF IInv, RequestInv
<1>2. CASE BeginBatch
  <2>1. /\ play_song = 1 /\ buf'.song = which_song /\ buf'.base = address_counter % size_song
        /\ UNCHANGED <<play_song, stop_song, which_song, address_counter, click, done, rewound>>
    BY <1>2 DEF BeginBatch, flags, task2Vars
  <2> QED BY <2>1 DEF IInv, RequestInv
<1>3. CASE FifoHasRoom
  <2>1. /\ Sending
        /\ UNCHANGED <<play_song, stop_song, which_song, buf, address_counter, click, done,
                       rewound>>
    BY <1>3 DEF FifoHasRoom, flags, task2Vars, Sending
  <2> QED BY <2>1 DEF IInv, RequestInv
<1>4. CASE WriteSample
  <2>1. /\ Sending
        /\ UNCHANGED <<play_song, stop_song, which_song, buf, address_counter, click, done>>
    BY <1>4 DEF WriteSample, flags, task2Vars, Sending
  <2>2. play_song = 1 /\ ~(click \in Stopping /\ done >= 3)
    BY <2>1 DEF IInv, Core, ClickInv, RequestInv
  <2> QED BY <2>1, <2>2 DEF IInv, RequestInv
<1>5. CASE Poll
  <2>1. /\ ~Sending' /\ UNCHANGED <<play_song, stop_song, rewound>>
        /\ pc2 = "poll" /\ done' = 0
    BY <1>5, Task1Waits DEF Poll, flags, task1Vars, Sending
  <2>2. ~(click = "play" /\ done \in {1, 2})
    BY <2>1, StoresOf DEF IInv, Core, ClickInv
  <2> QED BY <2>1, <2>2 DEF IInv, RequestInv
<1>6. CASE Store
  <2> DEFINE var == Stores(click)[done + 1][1]
             val == Stores(click)[done + 1][2]
  <2>1. /\ ~Sending' /\ click' = click /\ done' = done + 1
        /\ click \in Buttons \cup {"none"}
        /\ done \in 0..3 /\ done < Len(Stores(click))
    BY <1>6, Task1Waits, StoresLength DEF Store, task1Vars, Sending, IInv, Core, ClickInv
  <2>2. /\ play_song' = IF var = "play" THEN val ELSE play_song
        /\ stop_song' = IF var = "stop" THEN val ELSE stop_song
        /\ rewound'   = (rewound \/ (var = "stop" /\ val = 1))
    BY <1>6 DEF Store
  <2>3. CASE click \in Stopping
    <3>1. /\ done = 0 => var = "play" /\ val = 0
          /\ done = 1 => var = "pause"
          /\ done = 2 => var = "stop" /\ val = 1
          /\ done = 3 => var = "song"
      BY <2>1, <2>3, StoresOf
    <3>2. play_song = 0 \/ done = 0
      BY <2>1, <2>3 DEF IInv, Core, ClickInv
    <3>3. done = 0 \/ done = 1 \/ done = 2 \/ done = 3
      BY <2>1
    <3>4. play_song' = 0
      BY <2>2, <3>1, <3>2, <3>3
    <3>5. stop_song' = 1 => rewound'
      <4>1. CASE done = 2
        BY <2>2, <3>1, <4>1
      <4>2. CASE done # 2
        <5>1. stop_song' = stop_song
          <6>1. var # "stop"
            BY <3>1, <3>3, <4>2
          <6> QED BY <2>2, <6>1
        <5>2. ~(click = "play")
          BY <2>3 DEF Stopping
        <5>3. stop_song = 1 => rewound
          BY <5>2, <3>2 DEF IInv, RequestInv
        <5> QED BY <2>2, <5>1, <5>3
      <4> QED BY <4>1, <4>2
    <3>6. done' >= 3 => rewound'
      <4>1. CASE done = 2
        BY <2>2, <3>1, <4>1
      <4>2. CASE done = 3
        <5>1. rewound
          BY <2>3, <4>2 DEF IInv, RequestInv
        <5> QED BY <2>2, <5>1
      <4> QED BY <2>1, <3>3, <4>1, <4>2
    <3> QED BY <2>1, <2>3, <3>4, <3>5, <3>6 DEF RequestInv, Stopping
  <2>4. CASE click \in {"back", "ford"}
    <3>1. var # "play" /\ var # "stop"
      <4>1. /\ Len(Stores(click)) = 2
            /\ Stores(click)[1][1] = "freq" /\ Stores(click)[2][1] = "fregen"
        BY <2>4, StoresOf
      <4>2. done = 0 \/ done = 1
        BY <2>1, <4>1
      <4> QED BY <4>1, <4>2
    <3> QED BY <2>1, <2>2, <2>4, <3>1 DEF IInv, RequestInv, Stopping
  <2>5. CASE click = "play"
    <3>1. /\ done \in {0, 1, 2}
          /\ done = 0 => var = "play" /\ val = 1
          /\ done = 1 => var = "pause"
          /\ done = 2 => var = "stop" /\ val = 0
      BY <2>1, <2>5 DEF Stores
    <3> QED BY <2>1, <2>2, <2>5, <3>1 DEF IInv, RequestInv, Stopping
  <2>6. CASE click = "pause"
    <3>1. /\ done \in {0, 1, 2}
          /\ done = 0 => var = "play" /\ val = 0
          /\ done = 1 => var = "pause"
          /\ done = 2 => var = "stop" /\ val = 0
      BY <2>1, <2>6 DEF Stores
    <3> QED BY <2>1, <2>2, <2>6, <3>1 DEF IInv, RequestInv, Stopping
  <2> QED BY <2>1, <2>3, <2>4, <2>5, <2>6, StoresOf DEF Buttons, Stopping
<1>7. CASE Task2Delay \/ Tick \/ Drain \/ UNCHANGED vars
  <2>1. UNCHANGED <<pc1, play_song, stop_song, which_song, buf, address_counter, click, done,
                   rewound>>
    BY <1>7 DEF Task2Delay, Tick, Drain, vars, flags, task1Vars, task2Vars
  <2> QED BY <2>1 DEF IInv, RequestInv, Sending
<1> QED BY <1>1, <1>2, <1>3, <1>4, <1>5, <1>6, <1>7 DEF Next, Task1, Task2

\* The batch of the position a, and the position after it.
LEMMA BatchInSong ==
    ASSUME IInv, Sending
    PROVE  /\ buf.base \in Nat /\ buf.base + Batch <= size_song /\ size_song \in Nat
           /\ i \in 0..Batch
           /\ pc1 # "advance" => i < Batch /\ i % size_song = i
<1>1. /\ buf.base \in Starts /\ i \in 0..Batch
      /\ pc1 # "advance" => i < Batch
  BY DEF IInv, Core, BatchInv, Sending
<1>2. /\ buf.base \in 0..size_song /\ buf.base + Batch <= size_song
      /\ size_song \in Nat /\ Batch <= size_song
  BY <1>1, PositionBounds
<1>3. pc1 # "advance" => i % size_song = i
  BY <1>1, <1>2, PlayerAssumption
<1> QED BY <1>1, <1>2, <1>3

\* The sample that the FIFO takes follows the last one, or repeats a batch.
LEMMA TakenSample ==
    ASSUME IInv, WriteSample
    PROVE  /\ access = 6 <=> Clocked
           /\ access = 6 => /\ last' = [song |-> which_song, index |-> buf.base + i]
                            /\ beat' = ~beat
                            /\ ~rewound' /\ buf.base + i \in 0..(size_song - 1)
           /\ access # 6 => last' = last /\ beat' = beat /\ rewound' = rewound
<1>1. Clocked <=> access = 6
  BY DEF WriteSample, IInv, PortInv, PortAccess, DriveControl, Clocked
<1>2. Sending /\ pc1 = "write"
  BY DEF WriteSample, Sending
<1>3. access = 6 => data = [song |-> which_song, index |-> buf.base + i]
  BY <1>2, BatchInSong DEF IInv, PortInv, Sample, RequestInv
<1>4. buf.base + i \in 0..(size_song - 1)
  <2>1. /\ buf.base \in Nat /\ buf.base + Batch <= size_song /\ size_song \in Nat
        /\ i \in 0..Batch /\ i < Batch
    BY <1>2, BatchInSong
  <2> QED BY <2>1, PlayerAssumption
<1>5. access = 6 => last' = data /\ beat' = ~beat /\ ~rewound'
  BY <1>1 DEF WriteSample, FifoTakes
<1>6. access # 6 => last' = last /\ beat' = beat /\ rewound' = rewound
  BY <1>1 DEF WriteSample, FifoTakes
<1> QED BY <1>1, <1>3, <1>4, <1>5, <1>6

LEMMA LastStep == IInv /\ [Next]_vars => LastInv'
<1> SUFFICES ASSUME IInv, [Next]_vars, ~rewound' PROVE LastInv'
  BY DEF LastInv
<1>1. CASE Task1Start \/ FifoHasRoom \/ Poll \/ Task2Delay \/ Tick \/ Drain \/ UNCHANGED vars
  <2>1. UNCHANGED <<last, rewound, which_song, address_counter, buf, i, access>>
    BY <1>1 DEF Task1Start, FifoHasRoom, Poll, Task2Delay, Tick, Drain, vars, flags, task1Vars, portVars
  <2>2. (Sending' <=> Sending) /\ (Taken' <=> Taken) /\ (pc1' = "advance" <=> pc1 = "advance")
    BY <1>1 DEF Task1Start, FifoHasRoom, Poll, Task2Delay, Tick, Drain, vars, task1Vars, portVars,
       Sending, Taken, IInv, PortInv
  <2> QED BY <2>1, <2>2 DEF IInv, LastInv, Follows, size_song
<1>2. CASE BeginBatch
  <2>1. /\ ~rewound /\ ~Sending /\ Sending' /\ ~Taken' /\ i' = 0
        /\ buf'.base = address_counter % size_song
        /\ UNCHANGED <<last, which_song>>
    BY <1>2 DEF BeginBatch, flags, portVars, Sending, Taken
  <2>2. /\ last \in [song : Songs, index : 0..(size_song - 1)] /\ last.song = which_song
        /\ \/ address_counter = last.index + 1
           \/ address_counter = 0 /\ last.index = Batch - 1
    BY <2>1 DEF IInv, LastInv
  <2>3. /\ address_counter \in Positions /\ address_counter \in 0..size_song
        /\ size_song \in Nat /\ size_song > 0
    BY PositionBounds, PlayerAssumption DEF IInv, Core, BatchInv
  <2>4. Follows(buf'.base + i')
    <3>1. CASE address_counter = size_song
      <4>1. buf'.base + i' = 0
        BY <2>1, <2>3, <3>1, PositionMod
      <4>2. last.index = size_song - 1
        BY <2>2, <2>3, <3>1
      <4> QED BY <4>1, <4>2 DEF Follows
    <3>2. CASE address_counter < size_song
      <4>1. buf'.base + i' = address_counter
        BY <2>1, <2>3, <3>2, PositionMod
      <4> QED BY <2>2, <4>1 DEF Follows
    <3> QED BY <2>3, <3>1, <3>2
  <2> QED BY <2>1, <2>2, <2>4 DEF LastInv, Follows, size_song
<1>3. CASE NoBatch
  <2>1. /\ ~rewound /\ ~Sending /\ ~Sending' /\ play_song = 0
        /\ address_counter' = AddressIfIdle /\ UNCHANGED <<last, which_song>>
    BY <1>3 DEF NoBatch, flags, Sending
  <2>2. address_counter' = address_counter
    BY <2>1 DEF IInv, RequestInv, AddressIfIdle
  <2> QED BY <2>1, <2>2 DEF IInv, LastInv, size_song
<1>4. CASE WriteSample
  <2>1. /\ Sending /\ Sending' /\ pc1 = "write" /\ access \in 0..10
        /\ UNCHANGED <<which_song, buf>>
        /\ access' = IF access = 10 THEN 0 ELSE access + 1
        /\ i' = IF access = 10 THEN i + 1 ELSE i
        /\ pc1' = IF access # 10 THEN "write" ELSE IF i + 1 < Batch THEN "full"
                  ELSE "advance"
    BY <1>4 DEF WriteSample, flags, Sending, IInv, PortInv, PortAccess, LastAccess
  <2>2. /\ buf.base \in Nat /\ i \in 0..Batch /\ i < Batch
    BY <2>1, BatchInSong
  <2>3. CASE access = 6
    <3>1. /\ last' = [song |-> which_song, index |-> buf.base + i]
          /\ buf.base + i \in 0..(size_song - 1)
      BY <1>4, <2>3, TakenSample
    <3>2. Taken' /\ pc1' = "write" /\ i' = i
      BY <2>1, <2>3 DEF Taken
    <3>3. which_song \in Songs
      BY DEF IInv, Core, Locals
    <3>4. last'.index = buf'.base + (i' + 1) - 1
      BY <2>1, <2>2, <3>1, <3>2
    <3> QED BY <2>1, <3>1, <3>2, <3>3, <3>4 DEF LastInv, size_song
  <2>4. CASE access < 6
    <3>1. last' = last /\ ~rewound /\ i' = i /\ pc1' = "write" /\ ~Taken /\ ~Taken'
      BY <1>4, <2>1, <2>4, TakenSample DEF Taken
    <3> QED BY <2>1, <3>1 DEF IInv, LastInv, Follows, size_song
  <2>5. CASE access > 6
    <3>1. last' = last /\ ~rewound /\ Taken
      BY <1>4, <2>1, <2>5, TakenSample DEF Taken
    <3>2. last.index = buf.base + (i + 1) - 1
      BY <2>1, <3>1 DEF IInv, LastInv
    <3>3. CASE access = 10
      <4>1. CASE i + 1 < Batch
        <5>1. ~Taken' /\ pc1' = "full" /\ i' = i + 1
          BY <2>1, <3>3, <4>1 DEF Taken
        <5>2. buf'.base + i' = last'.index + 1
          BY <2>1, <2>2, <3>1, <3>2, <5>1
        <5> QED BY <2>1, <3>1, <5>1, <5>2 DEF IInv, LastInv, Follows, size_song
      <4>2. CASE ~(i + 1 < Batch)
        <5>1. Taken' /\ pc1' = "advance" /\ i + 1 = Batch
          BY <2>1, <2>2, <3>3, <4>2, PlayerAssumption DEF Taken
        <5>2. last'.index = buf'.base + Batch - 1
          BY <2>1, <2>2, <3>1, <3>2, <5>1
        <5> QED BY <2>1, <3>1, <5>1, <5>2 DEF IInv, LastInv, size_song
      <4> QED BY <4>1, <4>2
    <3>4. CASE access # 10
      <4>1. Taken' /\ pc1' = "write" /\ i' = i
        BY <2>1, <2>5, <3>4 DEF Taken
      <4> QED BY <2>1, <3>1, <3>2, <4>1 DEF IInv, LastInv, size_song
    <3> QED BY <3>3, <3>4
  <2> QED BY <2>1, <2>3, <2>4, <2>5
<1>5. CASE Advance
  <2>1. /\ ~rewound /\ Sending /\ Taken /\ pc1 = "advance" /\ ~Sending'
        /\ address_counter' = AddressAfterBatch
        /\ UNCHANGED <<last, which_song>>
    BY <1>5 DEF Advance, flags, Sending, Taken
  <2>2. /\ last.index = buf.base + Batch - 1 /\ buf.base = address_counter % size_song
        /\ last \in [song : Songs, index : 0..(size_song - 1)] /\ last.song = which_song
    BY <2>1 DEF IInv, LastInv, RequestInv
  <2>3. address_counter \in Positions /\ address_counter \in 0..size_song /\ size_song \in Nat
    BY PositionBounds DEF IInv, Core, BatchInv
  <2>4. \/ address_counter' = last.index + 1
        \/ address_counter' = 0 /\ last.index = Batch - 1
    <3>1. CASE address_counter < size_song
      <4>1. buf.base = address_counter /\ address_counter' = address_counter + Batch
        BY <2>1, <2>2, <2>3, <3>1, PositionMod DEF AddressAfterBatch
      <4> QED BY <2>2, <2>3, <4>1, PlayerAssumption
    <3>2. CASE address_counter = size_song
      <4>1. buf.base = 0 /\ address_counter' = 0
        BY <2>1, <2>2, <2>3, <3>2, PositionMod DEF AddressAfterBatch
      <4> QED BY <2>2, <4>1, PlayerAssumption
    <3> QED BY <2>3, <3>1, <3>2
  <2> QED BY <2>1, <2>2, <2>4 DEF LastInv, size_song
<1>6. CASE Store
  <2> DEFINE var == Stores(click)[done + 1][1]
             val == Stores(click)[done + 1][2]
  <2>1. /\ ~Sending /\ ~Sending' /\ UNCHANGED <<last, address_counter>>
        /\ click \in Buttons \cup {"none"} /\ done \in 0..3 /\ done < Len(Stores(click))
    BY <1>6, Task1Waits, StoresLength DEF Store, task1Vars, Sending, IInv, Core, ClickInv
  <2>2. /\ which_song' = IF var = "song" /\ which_song + val \in Songs
                         THEN which_song + val ELSE which_song
        /\ rewound'   = (rewound \/ (var = "stop" /\ val = 1))
    BY <1>6 DEF Store
  <2>3. ~rewound
    BY <2>2
  <2>4. var # "song"
    <3>1. CASE click \in Stopping
      <4>1. done = 0 \/ done = 1 \/ done = 2
        BY <2>1, <2>3, <3>1 DEF IInv, RequestInv
      <4> QED BY <3>1, <4>1, StoresOf
    <3>2. CASE click \in {"back", "ford"}
      <4>1. /\ Len(Stores(click)) = 2
            /\ Stores(click)[1][1] = "freq" /\ Stores(click)[2][1] = "fregen"
        BY <3>2, StoresOf
      <4>2. done = 0 \/ done = 1
        BY <2>1, <4>1
      <4> QED BY <4>1, <4>2
    <3>3. CASE click \in {"play", "pause"}
      <4>1. /\ Len(Stores(click)) = 3
            /\ Stores(click)[1][1] = "play" /\ Stores(click)[2][1] = "pause"
            /\ Stores(click)[3] = <<"stop", 0>>
        BY <3>3, StoresOf
      <4>2. done = 0 \/ done = 1 \/ done = 2
        BY <2>1, <4>1
      <4> QED BY <4>1, <4>2
    <3> QED BY <2>1, <3>1, <3>2, <3>3, StoresOf DEF Buttons, Stopping
  <2> QED BY <2>1, <2>2, <2>3, <2>4 DEF IInv, LastInv, size_song
<1> QED BY <1>1, <1>2, <1>3, <1>4, <1>5, <1>6 DEF Next, Task1, Task2

\* Only a word that the FIFO takes counts.
LEMMA BeatStep ==
    ASSUME IInv, [Next]_vars
    PROVE  beat' = IF WriteSample /\ access = 6 THEN ~beat ELSE beat
<1>1. CASE WriteSample
  BY <1>1, TakenSample
<1>2. CASE ~WriteSample
  BY <1>2 DEF Next, Task1, Task2, Task1Start, BeginBatch, NoBatch, FifoHasRoom, Advance,
     Poll, Store, Task2Delay, Tick, Drain, vars
<1> QED BY <1>1, <1>2

LEMMA StepIInv == IInv /\ [Next]_vars => IInv'
<1> SUFFICES ASSUME IInv, [Next]_vars PROVE IInv'
  OBVIOUS
<1>1. beat' \in BOOLEAN
  BY BeatStep DEF IInv
<1> QED BY <1>1, StepCore, PortStep, RequestStep, LastStep DEF IInv

THEOREM Invariance == Spec => []IInv
BY InitIInv, StepIInv, PTL DEF Spec

\* The player keeps to its types.
THEOREM TypeCorrect == Spec => []TypeOK
<1>1. IInv => TypeOK
  <2> SUFFICES ASSUME IInv PROVE TypeOK
    OBVIOUS
  <2>1. address_counter \in 0..size_song /\ i \in 0..Batch
    BY PositionBounds DEF IInv, Core, BatchInv
  <2>2. buf \in [song : Songs, base : 0..(size_song - 1)]
    <3>1. ASSUME NEW b \in Starts
          PROVE  b \in 0..(size_song - 1)
      <4>1. b \in 0..size_song /\ b + Batch <= size_song
        BY PositionBounds
      <4>2. size_song \in Int /\ b \in Int /\ 0 <= b
        BY <4>1, PositionBounds
      <4>3. PICK n \in Int : n = size_song
        BY <4>2
      <4>4. b <= n - 1
        BY <4>1, <4>2, <4>3, PlayerAssumption
      <4> QED BY <4>2, <4>3, <4>4
    <3> QED BY <3>1 DEF IInv, Core, BatchInv
  <2>3. click \in Buttons \cup {"none"} /\ done \in 0..Len(Stores(click))
    BY DEF IInv, Core, ClickInv
  <2>4. PortTypeOK
    BY DEF IInv, PortInv, PortTypeOK
  <2> QED BY <2>1, <2>2, <2>3, <2>4 DEF IInv, Core, Locals, TypeOK
<1> QED BY <1>1, Invariance, PTL

\* No sample is written to a full FIFO.
THEOREM NoOverrun == Spec => []FifoNeverOverruns
<1>1. IInv => FifoNeverOverruns
  BY DEF IInv, Core, FifoInv, FifoNeverOverruns
<1> QED BY <1>1, Invariance, PTL

\* No batch reads past the end of the song.
THEOREM NoReadPastEnd == Spec => []ReadsInsideSong
<1>1. IInv => ReadsInsideSong
  <2> SUFFICES ASSUME IInv, pc1 = "write"
               PROVE  buf.base + (i % size_song) < size_song
    BY DEF ReadsInsideSong
  <2>1. i \in 0..(Batch - 1) /\ buf.base \in Starts
    BY PlayerAssumption DEF IInv, Core, BatchInv
  <2>2. buf.base \in 0..size_song /\ buf.base + Batch <= size_song /\ Batch <= size_song
    BY <2>1, PositionBounds
  <2>3. i % size_song = i
    BY <2>1, <2>2, PositionBounds, PlayerAssumption
  <2>4. buf.base + i < buf.base + Batch
    BY <2>1, <2>2, PlayerAssumption
  <2>5. buf.base + Batch \in Int /\ buf.base + i \in Int /\ size_song \in Int
    BY <2>1, <2>2, PositionBounds, PlayerAssumption
  <2>6. buf.base + i < size_song
    BY <2>2, <2>4, <2>5
  <2> QED BY <2>3, <2>6
<1> QED BY <1>1, Invariance, PTL

\* task1 has acted on every click before task2 reads the next.
THEOREM EveryClickSeen == Spec => []NoCommandMissed
<1>1. IInv => NoCommandMissed
  BY Task1Waits DEF NoCommandMissed
<1> QED BY <1>1, Invariance, PTL

\* After a stop, the next sample is the first of a song.
THEOREM StopRewinds == Spec => []StartsAtBeginning
<1>1. IInv => StartsAtBeginning
  <2> SUFFICES ASSUME IInv, rewound, pc1 = "write"
               PROVE  buf.base + (i % size_song) = 0
    BY DEF StartsAtBeginning
  <2>1. buf.base = 0 /\ i = 0
    BY DEF IInv, Core, RewindInv
  <2>2. 0 % size_song = 0
    BY PositionBounds, PlayerAssumption
  <2> QED BY <2>1, <2>2
<1> QED BY <1>1, Invariance, PTL

\* While task2 waits, the register holds the divisor of the frequency.
THEOREM FrequencyKept == Spec => []FrequencyApplied
<1>1. IInv => FrequencyApplied
  <2> SUFFICES ASSUME IInv, pc1 # "start", pc2 = "poll"
               PROVE  fregen = DivData(freq_reader)
    BY DEF FrequencyApplied
  <2>1. ~(click \in {"back", "ford"} /\ done = 1)
    BY StoresOf DEF IInv, Core, ClickInv
  <2> QED BY <2>1 DEF IInv, Core, FreqInv
<1> QED BY <1>1, Invariance, PTL

\* The player implements the abstract stream: each sample that the FIFO takes
\* follows the last one, or begins a song again as the stream allows.
THEOREM PlayerImplementsStream == Spec => PlaysTheStream
<1> DEFINE heard == <<IF rewound THEN Silence ELSE last, beat>>
<1>1. Init => Stream!SilentInit
  BY DEF Init, Stream!SilentInit, Stream!Silence, Silence, Zero
<1>2. IInv /\ [Next]_vars => [Stream!StreamNext]_heard
  <2> SUFFICES ASSUME IInv, [Next]_vars PROVE [Stream!StreamNext]_heard
    OBVIOUS
  <2>1. rewound \in BOOLEAN /\ Silence = Stream!Silence
    BY DEF IInv, Core, Locals, Silence, Zero, Stream!Silence
  <2>2. CASE rewound'
    <3>1. beat' = beat
      BY <2>2, BeatStep, TakenSample
    <3> QED BY <2>1, <2>2, <3>1 DEF Stream!StreamNext, Stream!Rewind
  <2>3. CASE ~rewound' /\ WriteSample /\ access = 6
    <3>1. last' = [song |-> which_song, index |-> buf.base + i]
          /\ buf.base + i \in 0..(size_song - 1) /\ heard' = <<last', ~beat>>
      BY <2>3, TakenSample
    <3>2. CASE rewound
      <4>1. buf.base = 0 /\ i = 0 /\ which_song \in Songs
        BY <2>3, <3>2 DEF WriteSample, IInv, Core, RewindInv, Locals
      <4>2. last' = [song |-> which_song, index |-> 0] /\ heard = <<Stream!Silence, beat>>
        BY <2>1, <3>1, <3>2, <4>1
      <4>3. Stream!Start
        BY <3>1, <4>1, <4>2 DEF Stream!Start
      <4> QED BY <4>3 DEF Stream!StreamNext
    <3>3. CASE ~rewound
      <4>1. /\ Follows(buf.base + i) /\ last.song = which_song
            /\ last \in [song : Songs, index : 0..(size_song - 1)]
        BY <2>3, <3>3 DEF WriteSample, IInv, LastInv, Sending, Taken
      <4>2. heard = <<last, beat>> /\ last # Stream!Silence
        BY <3>3, <4>1 DEF Stream!Silence, Songs
      <4>3. last' = [last EXCEPT !.index = buf.base + i]
        BY <3>1, <4>1
      <4>4. CASE buf.base + i = last.index + 1
        <5>1. last.index + 1 < size_song
          <6>1. size_song \in Nat
            BY PositionBounds
          <6> QED BY <3>1, <4>1, <4>4, <6>1
        <5>2. Stream!Continue
          BY <3>1, <4>2, <4>3, <4>4, <5>1 DEF Stream!Continue
        <5> QED BY <5>2 DEF Stream!StreamNext
      <4>5. CASE buf.base + i = 0 /\ last.index \in {size_song - 1, Batch - 1}
        <5>1. Stream!Repeat
          BY <3>1, <4>2, <4>3, <4>5 DEF Stream!Repeat
        <5> QED BY <5>1 DEF Stream!StreamNext
      <4> QED BY <4>1, <4>4, <4>5 DEF Follows
    <3> QED BY <2>1, <3>2, <3>3
  <2>4. CASE ~rewound' /\ ~(WriteSample /\ access = 6)
    <3>1. last' = last /\ ~rewound /\ beat' = beat
      <4>b. beat' = beat
        BY <2>4, BeatStep
      <4>1. CASE WriteSample
        BY <2>4, <4>1, TakenSample
      <4>2. CASE Store
        BY <2>4, <4>2 DEF Store
      <4>3. CASE Task1Start \/ BeginBatch \/ NoBatch \/ FifoHasRoom \/ Advance \/ Poll
                 \/ Task2Delay \/ Tick \/ Drain \/ UNCHANGED vars
        BY <2>4, <4>3 DEF Task1Start, BeginBatch, NoBatch, FifoHasRoom, Advance, Poll,
           Task2Delay, Tick, Drain, vars
      <4> QED BY <4>b, <4>1, <4>2, <4>3 DEF Next, Task1, Task2
    <3> QED BY <2>4, <3>1
  <2> QED BY <2>2, <2>3, <2>4
<1> QED BY <1>1, <1>2, Invariance, PTL DEF Spec, PlaysTheStream, Stream!StreamSpec

=============================================================================
