----------------------------- MODULE AudioPacket ------------------------------
(* hdmi_tx_audiopacket_submodule.  The capture side cuts each stereo sample  *)
(* into six bytes and a status byte and queues these seven words, the first  *)
(* flag of the channel-status block riding on bit 8.  The send side waits    *)
(* for 28 words, four samples, and streams them as one audio sample packet   *)
(* of 31 bytes.                                                              *)
(*                                                                           *)
(* Words are tagged instead of being bits: <<k, frame, samples>> is byte k   *)
(* (1..7) queued at frame count "frame" and made from "samples": one sample  *)
(* for the six data bytes, and for the status byte the samples its parity    *)
(* was accumulated over - one, unless a capture overtook the byte counter.   *)
EXTENDS Integers, Sequences

CONSTANTS PcmFifoDepth,  \* words of the FIFO: 2**PCMFIFO_DEPTH, 256 or more
          Frames,        \* length of a channel-status block: 192
          Pcm,           \* the values of pcm_r & pcm_l
          NoWord         \* what the FIFO output shows when it shows no word

ASSUME AudioAssumption == PcmFifoDepth \in Nat /\ Frames \in Nat \ {0}

VARIABLES pcmFs,         \* pcm_fs_reg, newest last: <<(2), (1), (0)>>
          byteCounter,   \* bytecounter_reg
          frameCount,    \* framecount
          pcmData,       \* pcmdata_reg
          parity,        \* samples behind pl_bit_reg and pr_bit_reg
          queue, q,      \* u_fifo
          dataCounter,   \* datacounter_reg
          readAck,       \* readack_reg
          marker         \* marker_reg

captureVars == <<pcmFs, byteCounter, frameCount, pcmData, parity>>
senderVars  == <<dataCounter, readAck, marker>>
audioVars   == <<captureVars, queue, q, senderVars>>

SUBFRAME == 7                         \* words per stereo sample
PACKET   == 4 * SUBFRAME              \* words per audio sample packet

Word == (1..SUBFRAME) \X (0..(Frames - 1)) \X SUBSET Pcm

ASSUME NoWordAssumption == NoWord \notin Word

Fifo == INSTANCE SampleQueue
            WITH Depth <- PcmFifoDepth, Data <- Word, Stale <- {NoWord}

AudioInit ==
    /\ pcmFs = <<FALSE, FALSE, FALSE>>
    /\ byteCounter = 0
    /\ frameCount = 0
    /\ pcmData = {}                   \* no sample yet
    /\ parity = {}
    /\ Fifo!Init
    /\ dataCounter = 0
    /\ readAck = FALSE
    /\ marker = [i \in 0..3 |-> FALSE]

-----------------------------------------------------------------------------
(* Capture.                                                                  *)

fifoReadyFault(enable) == enable /\ Fifo!usedw < PcmFifoDepth
fifoReady(enable) == enable /\ Fifo!usedw < PcmFifoDepth - 8

\* pcm_fs_reg(2 downto 1) = "01"
fsRiseFault == pcmFs[1] /\ ~pcmFs[2]            \* the falling edge
fsRise == ~pcmFs[1] /\ pcmFs[2]

capture(enable) == fsRise /\ fifoReady(enable)

NextFrame(f) == IF f = Frames - 1 THEN 0 ELSE f + 1

(* The parity chain restarts with the first byte.                            *)
nextParityFault == IF byteCounter \in 1..6 THEN parity \cup pcmData ELSE parity
nextParity == CASE byteCounter = 1      -> pcmData
                [] byteCounter \in 2..6 -> parity \cup pcmData
                [] OTHER                -> parity

CaptureEdge(enable, pcm_fs, pcm) ==
    /\ pcmFs' = <<pcmFs[2], pcmFs[3], pcm_fs>>
    /\ byteCounter' = IF capture(enable) \/ byteCounter # 0
                      THEN (byteCounter + 1) % 8 ELSE 0
    /\ frameCount' = IF byteCounter = SUBFRAME THEN NextFrame(frameCount)
                                               ELSE frameCount
    /\ pcmData' = IF capture(enable) THEN {pcm} ELSE pcmData
    /\ parity' = nextParity

fifoWrite == byteCounter # 0
fifoWord  == <<byteCounter, frameCount,
               IF byteCounter = SUBFRAME THEN parity ELSE pcmData>>

\* Bit 8 of a word: the first frame of a channel-status block.
FirstFlag(word) == word[2] = 0

-----------------------------------------------------------------------------
(* Send.                                                                     *)

arrival == Fifo!usedw >= PACKET

\* The byte at which the read acknowledge is taken back.
LastRead == PACKET

pcmFifoAck(out_ready) == readAck /\ out_ready

\* Where the marker of sub-packet i is latched.
MarkerSlot(i) == 7 * i + 1

SendEdge(out_ready) ==
    /\ dataCounter' =
         IF (dataCounter = 0 /\ arrival) \/ (dataCounter # 0 /\ out_ready)
         THEN (dataCounter + 1) % 32 ELSE dataCounter
    /\ readAck' = \/ dataCounter = 0 /\ arrival
                  \/ dataCounter # LastRead /\ readAck
    /\ marker' = [i \in 0..3 |->
                    /\ dataCounter # 0
                    /\ IF dataCounter = MarkerSlot(i)
                       THEN q # NoWord /\ FirstFlag(q) ELSE marker[i]]

FifoEdge(out_ready) == Fifo!Edge(fifoWrite, fifoWord, pcmFifoAck(out_ready))

audioValid == dataCounter # 0
audioSop   == dataCounter = 1
audioEop   == dataCounter = 31
audioData  == CASE dataCounter = 29 -> <<"AudioHB0">>
                [] dataCounter = 30 -> <<"AudioHB1">>
                [] dataCounter = 31 -> <<"AudioHB2", {i \in 0..3 : marker[i]}>>
                [] OTHER            -> q

AudioEdge(enable, pcm_fs, pcm, out_ready) ==
    /\ CaptureEdge(enable, pcm_fs, pcm)
    /\ SendEdge(out_ready)
    /\ FifoEdge(out_ready)

\* pcmdata_reg and marker_reg are not reset: the model forgets what they held,
\* which is rewritten before it is used.
AudioReset ==
    /\ pcmFs' = <<FALSE, FALSE, FALSE>>
    /\ byteCounter' = 0
    /\ frameCount' = 0
    /\ pcmData' = {}
    /\ parity' = {}
    /\ Fifo!Clear
    /\ dataCounter' = 0
    /\ readAck' = FALSE
    /\ marker' = [i \in 0..3 |-> FALSE]

-----------------------------------------------------------------------------
AudioTypeOK ==
    /\ pcmFs \in BOOLEAN \X BOOLEAN \X BOOLEAN
    /\ byteCounter \in 0..SUBFRAME
    /\ frameCount \in 0..(Frames - 1)
    /\ pcmData \in SUBSET Pcm /\ parity \in SUBSET Pcm
    /\ queue \in Seq(Word) /\ Len(queue) <= PcmFifoDepth
    /\ q \in Word \cup {NoWord}
    /\ dataCounter \in 0..31
    /\ readAck \in BOOLEAN
    /\ marker \in [0..3 -> BOOLEAN]

=============================================================================
