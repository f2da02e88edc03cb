------------------------------ MODULE PcmSource -------------------------------
(* The circuit that drives pcm_fs, pcm_l and pcm_r, as the README requires   *)
(* it: the sample stays on the bus for 6 clocks after pcm_fs rises.  pcm_fs  *)
(* is asynchronous: the edge at which it is first seen may be one later than *)
(* the edge that follows its rise, which leaves HOLD edges of the six.       *)
(* FsPeriod is the least number of clocks between two rises; in the supported*)
(* range it is at least 25 MHz / 192 kHz = 130, and 8 are enough.            *)
EXTENDS AudioPacket

CONSTANT FsPeriod      \* least clocks from one rise of pcm_fs to the next

ASSUME SourceAssumption == FsPeriod \in Nat /\ FsPeriod >= 8

VARIABLES fsAge,       \* edges since pcm_fs was first seen high
          sample       \* the sample announced by that rise

sourceVars == <<fsAge, sample>>

HOLD    == 5
FS_HIGH == 4           \* edges pcm_fs is seen high

SourceInit == fsAge = FsPeriod /\ sample \in Pcm

FsRises(pcm_fs, pcm) ==
    /\ fsAge = FsPeriod
    /\ pcm_fs = TRUE
    /\ sample' \in IF Pcm = {sample} THEN Pcm ELSE Pcm \ {sample}
    /\ pcm = sample'
    /\ fsAge' = 1

FsContinues(pcm_fs, pcm) ==
    /\ pcm_fs = (fsAge < FS_HIGH)
    /\ fsAge < HOLD => pcm = sample
    /\ fsAge' = IF fsAge < FsPeriod THEN fsAge + 1 ELSE FsPeriod
    /\ UNCHANGED sample

SourceEdge(pcm_fs, pcm) == FsRises(pcm_fs, pcm) \/ FsContinues(pcm_fs, pcm)

=============================================================================
