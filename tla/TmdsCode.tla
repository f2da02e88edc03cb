------------------------------- MODULE TmdsCode -------------------------------
(* The code of hdmi_tx_tmds_encoder_submodule: how a pixel byte becomes a    *)
(* 10-bit TMDS word and moves the running disparity c of its line.  Bit      *)
(* vectors are the sets of their 1 positions.                                *)
EXTENDS Integers, FiniteSets

AllBytes == SUBSET (0..7)

Ones(v) == Cardinality(v)                       \* number1s

\* Bit i of the transition-reduced byte: a running XOR or XNOR.
Chain(d, code) ==
    LET bit[i \in 0..7] ==
          IF i = 0 THEN 0 \in d ELSE (bit[i - 1] # (i \in d)) # code
    IN  {i \in 0..7 : bit[i]}

useXnorFault(d) == Ones(d) > 4                  \* no rule for the tie
useXnor(d) == Ones(d) > 4 \/ (Ones(d) = 4 /\ 0 \notin d)

\* byteencode: bit 8 says that XOR was used.
byteencode(d) ==
    Chain(d, useXnor(d)) \cup (IF useXnor(d) THEN {} ELSE {8})

-----------------------------------------------------------------------------
(* Choosing the inversion that brings cnt back to zero.                      *)
num(qm) == Ones(qm \cap (0..7)) - 4

balanced(qm, c) == c = 0 \/ num(qm) = 0
sameSign(qm, c) == (c >= 0 /\ num(qm) >= 0) \/ (c < 0 /\ num(qm) < 0)

invert(qm, c) == IF balanced(qm, c) THEN 8 \notin qm ELSE sameSign(qm, c)

increment(qm, c) ==
    IF ~balanced(qm, c) /\ ((8 \in qm) <=> sameSign(qm, c))
    THEN num(qm) - 1 ELSE num(qm)

nextCnt(qm, c) ==
    IF invert(qm, c) THEN c - increment(qm, c) ELSE c + increment(qm, c)

videoWord(qm, c) ==
    IF invert(qm, c) THEN {9} \cup (qm \cap {8}) \cup ((0..7) \ qm) ELSE qm

-----------------------------------------------------------------------------
(* The sink's decoder, from the definition of the code.                      *)
Decode(w) ==
    LET raw == IF 9 \in w THEN (0..7) \ w ELSE w \cap (0..7)
    IN  {i \in 0..7 : IF i = 0 THEN 0 \in raw
                      ELSE ((i \in raw) # (i - 1 \in raw)) = (8 \in w)}

Transitions(w) == Cardinality({i \in 0..8 : (i \in w) # (i + 1 \in w)})

=============================================================================
