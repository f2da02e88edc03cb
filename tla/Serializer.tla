------------------------------ MODULE Serializer ------------------------------
(* hdmi_tx_pdiff_submodule: ten-bit words of four lanes cross from clk to    *)
(* clk_x5, five times as fast, and leave two bits per edge.  Nothing aligns  *)
(* the load of the shift register with clk: start_reg runs freely from the   *)
(* first edge of clk_x5, so that clk may rise at any of its five places.     *)
(* The last stage, the DDR output cell, is a vendor primitive.               *)
(*                                                                           *)
(* A bit is <<source, n, i>>: bit i of the n-th word, counted modulo         *)
(* WordNumbers, of encoder 0, 1 or 2 or of the clock pattern.                *)
EXTENDS Integers

CONSTANTS WordNumbers, \* words told apart, enough to see one lost or repeated
          Unknown      \* a bit nothing has been written to

ASSUME WordsAssumption == WordNumbers \in Nat /\ WordNumbers >= 3

VARIABLES phase,       \* clk_x5 edges until clk rises, 0: together with this one
          word,        \* the word the encoders present, q_sig
          swap,        \* cc_swap_reg
          dataIn,      \* data_in_reg, by lane
          start,       \* start_reg: the ones in it, 4 downto 0
          ser,         \* ser_reg, by lane
          out          \* data_p_reg: two bits for each lane

serVars == <<phase, word, swap, dataIn, start, ser, out>>

Lane == 0..3

CLOCK == 3            \* the source of the pattern "0000011111"

Source(lane, swapped) ==
    IF swapped THEN <<2, CLOCK, 0, 1>>[lane + 1]
    ELSE <<0, 1, 2, CLOCK>>[lane + 1]

Bits(lane, n, swapped) == [i \in 0..9 |-> <<Source(lane, swapped), n, i>>]

NoBits == [i \in 0..9 |-> Unknown]

SerialInit ==
    /\ phase \in 0..4
    /\ word = 0
    /\ swap \in BOOLEAN
    /\ dataIn = [lane \in Lane |-> NoBits]
    /\ start = 0
    /\ ser = [lane \in Lane |-> NoBits]
    /\ out = [lane \in Lane |-> <<Unknown, Unknown>>]

-----------------------------------------------------------------------------
(* An edge of clk: the encoders go on to the next word.                      *)
PixelEdge(cc_swap) ==
    /\ dataIn' = [lane \in Lane |-> Bits(lane, word, swap)]
    /\ word' = (word + 1) % WordNumbers
    /\ swap' = cc_swap

Load ==
    /\ start = 0
    /\ start' = 4
    /\ ser' = dataIn

ShiftFault ==                                   \* starts again one edge early
    /\ start > 0
    /\ start' = IF start = 2 THEN 0 ELSE start - 1
    /\ ser' = [lane \in Lane |->
                  [i \in 0..9 |-> IF i < 8 THEN ser[lane][i + 2] ELSE Unknown]]
Shift ==
    /\ start > 0
    /\ start' = start - 1
    /\ ser' = [lane \in Lane |->
                  [i \in 0..9 |-> IF i < 8 THEN ser[lane][i + 2] ELSE Unknown]]

(* An edge of clk_x5, every fifth of which is an edge of clk too.            *)
Edge(cc_swap) ==
    /\ Load \/ Shift
    /\ out' = [lane \in Lane |-> <<ser[lane][0], ser[lane][1]>>]
    /\ \/ phase = 0 /\ phase' = 4 /\ PixelEdge(cc_swap)
       \/ phase > 0 /\ phase' = phase - 1 /\ UNCHANGED <<dataIn, word, swap>>

SerialNext == \E cc_swap \in BOOLEAN : Edge(cc_swap)

SerialSpec == SerialInit /\ [][SerialNext]_serVars

-----------------------------------------------------------------------------
Sent(lane) == out[lane][1]

\* What follows bit <<source, n, i>> on its lane, two bits later.
Follows(bit, next) ==
    IF bit[3] < 8 THEN next = <<bit[1], bit[2], bit[3] + 2>>
    ELSE next[2] = (bit[2] + 1) % WordNumbers /\ next[3] = 0

(* The four lanes carry the same bit of the same pixel, and their sources    *)
(* are one of the two arrangements of the connector.                         *)
LanesTogether ==
    \E swapped \in BOOLEAN, n \in 0..(WordNumbers - 1), i \in {0, 2, 4, 6, 8} :
       \A lane \in Lane :
          Sent(lane) = <<CASE lane = 0 -> IF swapped THEN 2 ELSE 0
                           [] lane = 1 -> IF swapped THEN CLOCK ELSE 1
                           [] lane = 2 -> IF swapped THEN 0 ELSE 2
                           [] lane = 3 -> IF swapped THEN 1 ELSE CLOCK,
                         n, i>>

(* From the first word that reaches it on, a lane carries all ten bits of    *)
(* every word, each once, in order, whatever the place of clk among the      *)
(* edges of clk_x5: no undefined bit, no word lost, repeated or mixed.  The  *)
(* lanes stay together while cc_swap changes: the clock lane never carries   *)
(* data in the middle of a word.                                             *)
WordsInOrder ==
    [][\A lane \in Lane :
          Sent(lane) # Unknown =>
              /\ LanesTogether'
              /\ Follows(Sent(lane), Sent(lane)')
              /\ out'[lane][2] = [Sent(lane)' EXCEPT ![3] = @ + 1]]_serVars

=============================================================================
