------------------------------ MODULE InfoIsland ------------------------------
(* The infoframes and clock regeneration packets of hdmi_tx on their way     *)
(* through the island assembler: EccBlock sends the packets of InfoTable,    *)
(* and a sink reads the bits that arrive.                                    *)
EXTENDS EccBlock, InfoTable

CONSTANTS AviGenerics,     \* the sets of AVI generics considered
          ClockGenerics    \* the pairs CLOCK_FREQUENCY, AUDIO_FREQUENCY

\* The frequencies the packets are declared for, with any clock from 10 MHz to
\* 900 MHz: 20 bits hold its CTS, and their rounding is within the tolerance.
ASSUME GenericsAssumption ==
    /\ \A g \in AviGenerics : g.VIDEO_CODE \in Nat /\ g.REPETITION \in Nat
    /\ \A c \in ClockGenerics :
           /\ c[1] \in Nat /\ 10000 <= c[1] /\ c[1] <= 900000
           /\ c[2] \in {320, 441, 480, 882, 960, 1764, 1920}

\* Bytes 0..6 fill a sub-packet buffer and bytes 28..30 the header buffer,
\* the lowest bit of the lowest byte first.
BitsOf(bytes) ==
    {n \in 0..(8 * Len(bytes) - 1) : (bytes[n \div 8 + 1] \div 2^(n % 8)) % 2 = 1}

Buffers(packetBytes) ==
    [sb |-> BitsOf(packetBytes.pb), hb |-> BitsOf(packetBytes.header)]

TablePackets ==
    {Buffers(AviInfoframe(g)) : g \in AviGenerics}
        \cup {Buffers(AudioInfoframe)}
        \cup {Buffers(AcrPacket(c[1], c[2])) : c \in ClockGenerics}

-----------------------------------------------------------------------------
(* The sink's view of an island.                                             *)
ByteAt(sent, k) ==
    MapThenSumSet(LAMBDA j : IF 8 * k + j \in sent THEN 2^j ELSE 0, 0..7)

receivedHeader == [k \in 1..3 |-> ByteAt(sentHb, k - 1)]
receivedBytes  == [k \in 1..7 |-> ByteAt(sentSb, k - 1)]

\* The frequency the sink regenerates, df * N / (128 * CTS), is within 50 ppm
\* of the sampling frequency, and N is in the range HDMI allows, 128 * fs
\* over 1500 Hz to 300 Hz.
Regenerates(df, af) ==
    LET b == receivedBytes
        CTS == b[2] * 65536 + b[3] * 256 + b[4]
        N   == b[5] * 65536 + b[6] * 256 + b[7]
        ideal == af * CTS
        sent  == df * 10 * (N \div 128)
    IN  /\ N % 128 = 0
        /\ 128 * af * 100 <= 1500 * N /\ 300 * N <= 128 * af * 100
        /\ sent - ideal <= ideal \div 20000
        /\ ideal - sent <= ideal \div 20000

(* A sink that reads the bits of an island finds an infoframe whose checksum *)
(* is right, for all settings of the generics, or a clock regeneration       *)
(* packet from which it recovers the sampling frequency that was configured. *)
SinkAcceptsInfo ==
    counter = 0 /\ packet \in TablePackets =>
        /\ receivedHeader[1] \in {130, 132} =>
               (SumOf(receivedHeader) + SumOf(receivedBytes)) % 256 = 0
        /\ \A c \in ClockGenerics :
               packet = Buffers(AcrPacket(c[1], c[2])) => Regenerates(c[1], c[2])

=============================================================================
