------------------------------- MODULE EccBlock -------------------------------
(* The output side of hdmi_tx_dataisland_submodule, for the packet header    *)
(* and one of its four identical sub-packets: the buffers are shifted out    *)
(* while two BCH registers run along, and the error correction code in them  *)
(* is sent in the last clocks of the island.  Bit vectors are the sets of    *)
(* their 1 positions.                                                        *)
EXTENDS IslandSequencer

CONSTANT Packets       \* [sb, hb]: 56 bits of a sub-packet, 24 of the header

ASSUME PacketsAssumption ==
    Packets \subseteq [sb : SUBSET (0..55), hb : SUBSET (0..23)]

VARIABLES sb, hb,            \* sb_reg (one sub-packet), hb_reg
          bchSb, bchHb,      \* bch_sb_reg (one sub-packet), bch_hb_reg
          packet,            \* the packet that was loaded (observer)
          sentSb, sentHb     \* the bits sent in this island (observer)

eccVars == <<counter, sb, hb, bchSb, bchHb, packet, sentSb, sentHb>>

Xor(a, b) == (a \ b) \cup (b \ a)

ShiftRight(v, n) == {i - n : i \in {j \in v : j >= n}}

bchFault(v, d) ==                               \* feedback from the wrong end
    IF (7 \in v) # d THEN Xor(ShiftRight(v, 1), {0, 1, 7}) ELSE ShiftRight(v, 1)
bch(v, d) ==
    IF (0 \in v) # d THEN Xor(ShiftRight(v, 1), {0, 1, 7}) ELSE ShiftRight(v, 1)

bch2(v, d0, d1) == bch(bch(v, d0), d1)

hbEcc == counter \in 56..63                     \* hb_bch_sig
sbEcc == counter \in 60..63                     \* sb_bch_sig

\* packetdata: two bits of the sub-packet (on channels 1 and 2), one of the
\* header (on channel 0) at each clock.
sbOut == (IF sbEcc THEN bchSb ELSE sb) \cap {0, 1}
hbOut == (IF hbEcc THEN bchHb ELSE hb) \cap {0}

-----------------------------------------------------------------------------
(* The buffers come up with any content; the registers are reset.            *)
Init ==
    /\ SequencerInit
    /\ packet \in Packets
    /\ sb = packet.sb /\ hb = packet.hb
    /\ bchSb = {} /\ bchHb = {}
    /\ sentSb = {} /\ sentHb = {}

(* The last byte of a packet completes the buffers (DataIsland).             *)
LoadPacket ==
    /\ AcceptPacket(TRUE)
    /\ packet' \in Packets
    /\ sb' = packet'.sb /\ hb' = packet'.hb

ShiftOut ==
    /\ dataenable /\ RunIsland
    /\ sb' = ShiftRight(sb, 2)
    /\ hb' = ShiftRight(hb, 1)
    /\ UNCHANGED packet

RestBuffers(packetready) ==
    /\ ~dataenable
    /\ \/ StartIsland(packetready)
       \/ RunIsland
       \/ HoldSequencer(FALSE, packetready)
    /\ UNCHANGED <<sb, hb, packet>>

EccEdge ==
    /\ bchSb' = IF ~dataenable THEN {}
                ELSE IF sbEcc THEN ShiftRight(bchSb, 2)
                ELSE bch2(bchSb, 0 \in sb, 1 \in sb)
    /\ bchHb' = IF ~dataenable THEN {}
                ELSE IF hbEcc THEN ShiftRight(bchHb, 1)
                ELSE bch(bchHb, 0 \in hb)

\* Numbers the bits in the order of transmission, from 0.
ObserveOutput ==
    /\ sentSb' = IF ~dataenable THEN {}
                 ELSE sentSb \cup {2 * (counter - 32) + i : i \in sbOut}
    /\ sentHb' = IF ~dataenable THEN {}
                 ELSE sentHb \cup {counter - 32 + i : i \in hbOut}

Clock(packetready) ==
    /\ LoadPacket \/ ShiftOut \/ RestBuffers(packetready)
    /\ EccEdge
    /\ ObserveOutput

(* The reset clears the BCH registers and leaves the buffers alone.          *)
Reset ==
    /\ counter' = STOP_COUNT
    /\ bchSb' = {} /\ bchHb' = {}
    /\ sentSb' = {} /\ sentHb' = {}
    /\ UNCHANGED <<sb, hb, packet>>

Next == (\E packetready \in BOOLEAN : Clock(packetready)) \/ Reset

Spec == Init /\ [][Next]_eccVars

-----------------------------------------------------------------------------
TypeOK ==
    /\ counter \in Count
    /\ packet \in Packets
    /\ sb \subseteq 0..55 /\ hb \subseteq 0..23
    /\ bchSb \subseteq 0..7 /\ bchHb \subseteq 0..7
    /\ sentSb \subseteq 0..63 /\ sentHb \subseteq 0..31

(* The remainder of a block of n bits, first bit sent = highest power,       *)
(* divided by the generator x^8 + x^7 + x^6 + 1 of the HDMI BCH codes, by    *)
(* long division from the highest power down.                                *)
Remainder(sent, n) ==
    LET block == {n - 1 - i : i \in sent}
        divided[p \in 8..n] ==
            IF p = n THEN block
            ELSE LET rest == divided[p + 1]
                 IN  IF p \in rest THEN Xor(rest, {p, p - 1, p - 2, p - 8})
                                   ELSE rest
    IN  divided[8]

(* When the data of an island has passed, the sink has received the packet   *)
(* that was loaded, bit by bit, followed by a code that makes each block a   *)
(* word of its BCH code - in every island, whatever the last one left behind *)
(* and wherever a reset cut it.                                              *)
IslandIsCodeword ==
    counter = 0 =>
        /\ sentSb \cap (0..55) = packet.sb /\ Remainder(sentSb, 64) = {}
        /\ sentHb \cap (0..23) = packet.hb /\ Remainder(sentHb, 32) = {}

=============================================================================
