------------------------------ MODULE PacketBus -------------------------------
(* What the sink is promised of the packets of hdmi_tx, one per data island: *)
(*   - the infoframes come in whole sets, AVI, Audio, ACR, with no other     *)
(*     packet between them;                                                  *)
(*   - no audio sample is sent before a first complete set;                  *)
(*   - audio packets carry consecutive frames of the channel-status block,   *)
(*     four each, with no frame lost, repeated or torn;                      *)
(*   - a packet is loaded only when the previous one has left.               *)
EXTENDS Integers

CONSTANTS Frames,      \* length of the channel-status block
          NoPacket

VARIABLES loaded,      \* the packet in the assembler, or NoPacket
          infoNext,    \* the member of the set that is due: 0 AVI, 1 Audio, 2 ACR
          enabled,     \* a complete set has been sent
          frameNext    \* the frame the next audio packet starts with

busVars == <<loaded, infoNext, enabled, frameNext>>

InfoPackets  == {"Info"} \X (0..2)
AudioPackets == {"Audio"} \X (0..(Frames - 1))

Init ==
    /\ loaded = NoPacket
    /\ infoNext = 0
    /\ enabled = FALSE
    /\ frameNext = 0

LoadInfo ==
    /\ loaded = NoPacket
    /\ loaded' = <<"Info", infoNext>>
    /\ infoNext' = (infoNext + 1) % 3
    /\ enabled' = (enabled \/ infoNext = 2)
    /\ UNCHANGED frameNext

LoadAudio ==
    /\ loaded = NoPacket
    /\ enabled /\ infoNext = 0
    /\ loaded' = <<"Audio", frameNext>>
    /\ frameNext' = (frameNext + 4) % Frames
    /\ UNCHANGED <<infoNext, enabled>>

Send ==
    /\ loaded # NoPacket
    /\ loaded' = NoPacket
    /\ UNCHANGED <<infoNext, enabled, frameNext>>

Reset ==
    /\ loaded' = NoPacket
    /\ infoNext' = 0
    /\ enabled' = FALSE
    /\ frameNext' = 0

Next == LoadInfo \/ LoadAudio \/ Send \/ Reset

Spec == Init /\ [][Next]_busVars

=============================================================================
