------------------------------ MODULE PacketPath ------------------------------
(* The packet side of hdmi_tx in HDMI mode: the audio packet generator, the  *)
(* infoframe generator with its arbiter, and the island assembler, on one    *)
(* clock.  A falling vsync requests a set of infoframes; the assembler sends *)
(* one packet per data island when the timing allows one.                    *)
EXTENDS PcmSource, InfoPacket, DataIsland

VARIABLES vsyncOld,    \* vsync_old_reg
          requestReg   \* request_reg

requestVars == <<vsyncOld, requestReg>>
pathVars == <<audioVars, sourceVars, infoVars, islandVars, requestVars>>

Init ==
    /\ AudioInit /\ SourceInit /\ InfoInit /\ IslandInit
    /\ vsyncOld = FALSE /\ requestReg = FALSE

-----------------------------------------------------------------------------
(* The arbiter's output to the assembler.                                    *)
packetValid == IF infoSel THEN infoValid ELSE audioValid
packetData  == IF infoSel THEN infoData  ELSE audioData
packetSop   == IF infoSel THEN infoSop   ELSE audioSop
packetEop   == IF infoSel THEN infoEop   ELSE audioEop

startBool(vsync) == vsyncOld /\ ~vsync
clearBoolFault == readyOld                    \* before the set has started
clearBool == readyOld /\ ~infoReady

RequestEdge(vsync) ==
    /\ vsyncOld' = vsync
    /\ requestReg' = IF requestReg THEN ~clearBool ELSE startBool(vsync)

Clock(vsync, pcm_fs, pcm, packetready) ==
    /\ vsyncOld \/ vsync          \* vsync pulses are drawn one clock long
    /\ SourceEdge(pcm_fs, pcm)
    /\ RequestEdge(vsync)
    /\ AudioEdge(pcmEna, pcm_fs, pcm, audioReady(inReady))
    /\ InfoEdge(requestReg, audioValid, audioEop, inReady)
    /\ IslandEdge(packetValid, packetData, packetSop, packetEop, packetready)

Tick == \E vsync, pcm_fs, packetready \in BOOLEAN, pcm \in Pcm :
            Clock(vsync, pcm_fs, pcm, packetready)

(* The asynchronous reset; the PCM source goes on by itself.                 *)
Reset ==
    /\ AudioReset /\ InfoReset /\ IslandReset
    /\ vsyncOld' = FALSE /\ requestReg' = FALSE
    /\ UNCHANGED sourceVars

Next == Tick \/ Reset

Spec == Init /\ [][Next]_pathVars

(* The clock runs on, resets cease, and a blanking long enough for an island *)
(* comes round again and again (PacketIsSent of IslandTiming).               *)
WindowOpens ==
    /\ counter = READY_COUNT
    /\ \E vsync, pcm_fs \in BOOLEAN, pcm \in Pcm : Clock(vsync, pcm_fs, pcm, TRUE)

FairSpec ==
    /\ Spec
    /\ WF_pathVars(Tick)
    /\ WF_pathVars(WindowOpens)
    /\ <>[][Tick]_pathVars

-----------------------------------------------------------------------------
TypeOK ==
    /\ AudioTypeOK /\ InfoTypeOK /\ IslandTypeOK
    /\ fsAge \in 1..FsPeriod /\ sample \in Pcm
    /\ vsyncOld \in BOOLEAN /\ requestReg \in BOOLEAN

(* Once the assembler has taken the first byte of an audio packet nothing    *)
(* stalls it: the arbiter does not change hands and the assembler does not   *)
(* become busy before the last byte.  The audio sender depends on it, since  *)
(* it takes back its read acknowledge at byte 28 whether or not that byte is *)
(* accepted: a stall there would shift every later packet by one word.       *)
AudioNeverStalls == dataCounter \in 2..31 => audioReady(inReady)

-----------------------------------------------------------------------------
(* The packet in the buffer, as the sink will decode it.                     *)
IsInfo(p) == \A i \in 0..30 : buf[i] = TableByte(PACKET_LENGTH * p + i)

IsAudio(f) ==
    /\ \A i \in 0..(PACKET - 1) :
          \E p \in Pcm :
             buf[i] = <<(i % SUBFRAME) + 1, (f + i \div SUBFRAME) % Frames, {p}>>
    /\ buf[28] = <<"AudioHB0">> /\ buf[29] = <<"AudioHB1">>
    /\ buf[30] = <<"AudioHB2", {j \in 0..3 : (f + j) % Frames = 0}>>

packetLoaded == counter \in READY_COUNT..63

LoadedPackets ==
    {<<"Info", p>> : p \in {n \in 0..2 : IsInfo(n)}}
        \cup {<<"Audio", f>> : f \in {n \in 0..(Frames - 1) : IsAudio(n)}}

(* Every packet that is handed to a data island is one whole packet: a table *)
(* entry, or four complete sub-frames of consecutive frames with the header  *)
(* whose markers flag exactly the first frame of a channel-status block.     *)
WholePacket == packetLoaded => LoadedPackets # {}

(* Bus refinement.  The frame that is due is the one being transmitted, else *)
(* the oldest in the FIFO, else the one about to be captured.                *)
frameDue ==
    IF dataCounter \in 2..31 THEN buf[0][2]
    ELSE IF queue # <<>>      THEN queue[1][2]
    ELSE frameCount

Bus == INSTANCE PacketBus
          WITH NoPacket  <- Blank,
               loaded    <- IF packetLoaded
                            THEN CHOOSE packet \in LoadedPackets : TRUE
                            ELSE Blank,
               infoNext  <- infoCounter \div PACKET_LENGTH,
               enabled   <- pcmEna,
               frameNext <- frameDue

(* The interleaving of two generators, an arbiter and an assembler, with     *)
(* vsync, pcm_fs and the blanking windows at any time, is a packet bus.      *)
ImplementsPacketBus == Bus!Spec

-----------------------------------------------------------------------------
\* Only a reset (or the power-up) leaves this state.
restarted == infoReady /\ ~readyOld /\ ~pcmEna

(* Unless a reset intervenes, a request that finds the generator idle is     *)
(* answered by a complete set, and four queued samples are sent, even if     *)
(* every frame asks for infoframes again at once: neither side starves the   *)
(* other.                                                                    *)
RequestIsAnswered ==
    requestReg /\ infoReady
        ~> infoCounter = PACKET_NUM * PACKET_LENGTH - 1 \/ restarted

AudioIsSent == arrival ~> (audioEop /\ audioReady(inReady)) \/ restarted

=============================================================================
