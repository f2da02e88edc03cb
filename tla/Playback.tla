------------------------------- MODULE Playback -------------------------------
(* What a listener is promised: songs one after the other, each from its     *)
(* first sample on, without a gap, a repetition or a swap, and in full unless*)
(* its file cannot be read to the end.                                       *)
EXTENDS Integers

CONSTANTS Songs,        \* the songs
          Length        \* samples in each song

VARIABLES heard,        \* <<song, samples of it heard>>
          cut           \* the file could not be read to the end

NoSong == 0

Init == heard = <<NoSong, 0>> /\ cut = FALSE

Finished == heard[1] = NoSong \/ heard[2] = Length[heard[1]]

Start(song) ==
    /\ Finished \/ cut
    /\ heard' = <<song, 0>>
    /\ cut' = FALSE

Hear ==
    /\ ~Finished
    /\ heard' = <<heard[1], heard[2] + 1>>
    /\ UNCHANGED cut

Cut == cut' = TRUE /\ UNCHANGED heard

Next == (\E song \in Songs : Start(song)) \/ Hear \/ Cut

Spec == Init /\ [][Next]_<<heard, cut>>

=============================================================================
