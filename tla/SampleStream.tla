---------------------------- MODULE SampleStream ----------------------------
(***************************************************************************)
(* What the player promises to whoever listens to it: the samples of one   *)
(* song follow one another from its first sample on, and the song changes  *)
(* only by starting another from the beginning.  At the end of a song it   *)
(* begins again, and the first batch after the last sample is sent twice:  *)
(* the implementation's loop does that, and the promise admits it.         *)
(***************************************************************************)
EXTENDS Integers

CONSTANTS
    Batch,            \* samples sent in one go
    Size,             \* samples in a song
    Songs             \* the songs

VARIABLES
    last,             \* the last sample sent, or Silence since a rewind
    beat              \* flips with every sample, which tells two of a kind apart

Silence == [song |-> -1, index |-> -1]
Sample == [song : Songs, index : 0..(Size - 1)]

SilentInit == last = Silence /\ beat = FALSE

Start ==
    /\ last = Silence
    /\ \E s \in Songs : last' = [song |-> s, index |-> 0]
    /\ beat' = ~beat

Continue ==
    /\ last # Silence
    /\ last.index + 1 < Size
    /\ last' = [last EXCEPT !.index = @ + 1]
    /\ beat' = ~beat

Repeat ==
    /\ last # Silence
    /\ last.index \in {Size - 1, Batch - 1}
    /\ last' = [last EXCEPT !.index = 0]
    /\ beat' = ~beat

Rewind ==
    /\ last' = Silence
    /\ UNCHANGED beat

StreamNext == Start \/ Continue \/ Repeat \/ Rewind

StreamSpec == SilentInit /\ [][StreamNext]_<<last, beat>>

=============================================================================
