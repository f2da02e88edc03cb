--------------------------- MODULE IslandSequencer ---------------------------
(* The island sequencer of hdmi_tx_dataisland_submodule: a 6-bit counter     *)
(* that accepts packets while it rests at STOP_COUNT, waits at READY_COUNT   *)
(* for permission to transmit, and then runs once through the whole data     *)
(* island: preamble 22..29, leading guard band 30..31, data 32..63, trailing *)
(* guard band 0..1, gap 2..5.                                                *)
EXTENDS Integers

VARIABLE counter      \* counter_reg

READY_COUNT == 21
STOP_COUNT  == 6
START_COUNT == 22

Count == 0..63

SequencerInit == counter = STOP_COUNT

inReady    == counter = STOP_COUNT             \* ready_sig, in_ready
preamble   == counter \in 22..29
guardband  == counter \in {30, 31, 0, 1}
dataenable == counter \in 32..63               \* counter_reg(5)

\* Faulty variants, named ...Fault here and in the other modules, replace the
\* definition that follows them when a property's sensitivity is examined.

Increment(c) == IF c = 63 THEN 0 ELSE c + 1

(* One clock edge, a disjunct per branch of the process.  lastByte is        *)
(* in_valid and in_eop.                                                      *)
AcceptPacket(lastByte) ==
    /\ inReady /\ lastByte
    /\ counter' = READY_COUNT

StartIsland(packetready) ==
    /\ counter = READY_COUNT /\ packetready
    /\ counter' = START_COUNT

RunIsland ==
    /\ counter \notin {READY_COUNT, STOP_COUNT}
    /\ counter' = Increment(counter)

HoldSequencer(lastByte, packetready) ==
    /\ \/ inReady /\ ~lastByte
       \/ counter = READY_COUNT /\ ~packetready
    /\ counter' = counter

SequencerEdge(lastByte, packetready) ==
    \/ AcceptPacket(lastByte)
    \/ StartIsland(packetready)
    \/ RunIsland
    \/ HoldSequencer(lastByte, packetready)

=============================================================================
