----------------------------- MODULE AudioStream ------------------------------
(* The audio packet generator between a PCM source that keeps the timing the *)
(* README asks for and a consumer that lets a packet wait before its first   *)
(* byte only.  PacketPath shows that the arbiter and the island assembler    *)
(* are such a consumer.                                                      *)
EXTENDS PcmSource

VARIABLE audioEna      \* the enable input: rises once, after the first infoframes

streamVars == <<audioVars, sourceVars, audioEna>>

StreamInit == AudioInit /\ SourceInit /\ audioEna = FALSE

MayStall == dataCounter \in {0, 1}

StreamClock(pcm_fs, pcm, out_ready) ==
    /\ ~out_ready => MayStall
    /\ SourceEdge(pcm_fs, pcm)
    /\ AudioEdge(audioEna, pcm_fs, pcm, out_ready)

(* Here the source restarts with the reset; in PacketPath it goes on, and    *)
(* the long way to the first enable makes the false rise harmless that a     *)
(* cleared pcm_fs_reg sees in a high pcm_fs.                                 *)
StreamReset == AudioReset /\ fsAge' = FsPeriod /\ sample' = sample /\ audioEna' = FALSE

StreamNext ==
    \/ /\ \E pcm_fs, out_ready \in BOOLEAN, pcm \in Pcm :
             StreamClock(pcm_fs, pcm, out_ready)
       /\ audioEna' \in {audioEna, TRUE}
    \/ StreamReset

StreamSpec == StreamInit /\ [][StreamNext]_streamVars

-----------------------------------------------------------------------------
StreamTypeOK ==
    /\ AudioTypeOK
    /\ fsAge \in 1..FsPeriod /\ sample \in Pcm
    /\ audioEna \in BOOLEAN

(* The FIFO is never read when empty nor written when full: seven writes are *)
(* under way when the level is next looked at, and 28 reads follow a look at *)
(* the level, while the other side keeps working.                            *)
FifoContract ==
    \A out_ready \in BOOLEAN :
        Fifo!LegalUse(fifoWrite, pcmFifoAck(out_ready))

Follows(v, w) ==
    IF v[1] = SUBFRAME
    THEN w[1] = 1 /\ w[2] = NextFrame(v[2])
    ELSE w = <<v[1] + 1, v[2], v[3]>>

(* The words in the FIFO are whole sub-frames in frame order: the seven words*)
(* of one sample have one and the same origin, none is torn by a capture     *)
(* that overtakes the byte counter, and the parity covers exactly them.      *)
WholeSubframes ==
    /\ \A i \in 1..(Len(queue) - 1) : Follows(queue[i], queue[i + 1])
    /\ \A i \in 1..Len(queue) : \E p \in Pcm : queue[i][3] = {p}
    /\ fifoWrite /\ queue # <<>> => Follows(queue[Len(queue)], fifoWord)

(* What is captured is the sample the rise of pcm_fs announced, although it  *)
(* is latched three edges later from a bus that has only 6 clocks to live.   *)
SampleIsAnnounced == byteCounter \in 1..4 => pcmData = {sample}

=============================================================================
