---------------------------- MODULE EncoderProofs -----------------------------
(* The TMDS encoder, for every set of inputs and all three channels: what    *)
(* the sink decodes is what was put in two clocks before, and the counter of *)
(* the encoder is the disparity of the line.                                 *)
(*                                                                           *)
(* The words are treated bit by bit: byteencode is a chain of which each bit *)
(* follows from the last one, so that the transitions the sink looks at are  *)
(* the bits of the pixel; the fixed words are numbers, and the positions of  *)
(* a number below 2^10 determine it.  SinkDecodes alone is not inductive: it *)
(* speaks of the second stage, and the registers of the first decide what    *)
(* comes there next.  PipelineInv says for both stages which input is in     *)
(* them and what their registers hold of it.                                 *)
EXTENDS TmdsEncoder, FiniteSetTheorems, TLAPS

-----------------------------------------------------------------------------
(* The number of ones of a word is the sum of its bits.                      *)
Bit(v, i) == IF i \in v THEN 1 ELSE 0

LEMMA NoOnes == ASSUME NEW v PROVE IsFiniteSet(v \cap (0..(-1))) /\ Ones(v \cap (0..(-1))) = 0
<1>1. v \cap (0..(-1)) = {}
  OBVIOUS
<1> QED
  BY <1>1, FS_EmptySet DEF Ones

LEMMA OneMoreBit ==
    ASSUME NEW v, NEW i \in 0..9, IsFiniteSet(v \cap (0..(i - 1)))
    PROVE  /\ IsFiniteSet(v \cap (0..i))
           /\ Ones(v \cap (0..i)) = Ones(v \cap (0..(i - 1))) + Bit(v, i)
<1>0. Ones(v \cap (0..(i - 1))) \in Nat
  BY FS_CardinalityType DEF Ones
<1>1. CASE i \in v
  <2>1. v \cap (0..i) = (v \cap (0..(i - 1))) \cup {i} /\ i \notin v \cap (0..(i - 1))
    BY <1>1
  <2> QED
    BY <1>0, <1>1, <2>1, FS_AddElement DEF Ones, Bit
<1>2. CASE i \notin v
  <2>1. v \cap (0..i) = v \cap (0..(i - 1))
    BY <1>2
  <2> QED
    BY <1>0, <1>2, <2>1 DEF Bit
<1> QED
  BY <1>1, <1>2

LEMMA OnesOfByte ==
    ASSUME NEW v
    PROVE  /\ IsFiniteSet(v \cap (0..7))
           /\ Ones(v \cap (0..7)) = Bit(v, 0) + Bit(v, 1) + Bit(v, 2) + Bit(v, 3)
                                  + Bit(v, 4) + Bit(v, 5) + Bit(v, 6) + Bit(v, 7)
<1>0. IsFiniteSet(v \cap (0..(-1))) /\ Ones(v \cap (0..(-1))) = 0
  BY NoOnes
<1>1. IsFiniteSet(v \cap (0..0)) /\ Ones(v \cap (0..0)) = Bit(v, 0)
  <2>1. 0 \in 0..9 /\ 0 - 1 = -1
    OBVIOUS
  <2>2. /\ IsFiniteSet(v \cap (0..0))
        /\ Ones(v \cap (0..0)) = Ones(v \cap (0..(-1))) + Bit(v, 0)
    BY <1>0, <2>1, OneMoreBit
  <2>3. Bit(v, 0) \in 0..1
    BY DEF Bit
  <2> QED
    BY <1>0, <2>2, <2>3
<1>2. IsFiniteSet(v \cap (0..1)) /\ Ones(v \cap (0..1)) = Bit(v, 0) + Bit(v, 1)
  BY <1>1, OneMoreBit, 1 \in 0..9, 1 - 1 = 0
<1>3. /\ IsFiniteSet(v \cap (0..2))
      /\ Ones(v \cap (0..2)) = Bit(v, 0) + Bit(v, 1) + Bit(v, 2)
  BY <1>2, OneMoreBit, 2 \in 0..9, 2 - 1 = 1
<1>4. /\ IsFiniteSet(v \cap (0..3))
      /\ Ones(v \cap (0..3)) = Bit(v, 0) + Bit(v, 1) + Bit(v, 2) + Bit(v, 3)
  BY <1>3, OneMoreBit, 3 \in 0..9, 3 - 1 = 2
<1>5. /\ IsFiniteSet(v \cap (0..4))
      /\ Ones(v \cap (0..4)) = Bit(v, 0) + Bit(v, 1) + Bit(v, 2) + Bit(v, 3) + Bit(v, 4)
  BY <1>4, OneMoreBit, 4 \in 0..9, 4 - 1 = 3
<1>6. /\ IsFiniteSet(v \cap (0..5))
      /\ Ones(v \cap (0..5)) = Bit(v, 0) + Bit(v, 1) + Bit(v, 2) + Bit(v, 3) + Bit(v, 4)
                                 + Bit(v, 5)
  BY <1>5, OneMoreBit, 5 \in 0..9, 5 - 1 = 4
<1>7. /\ IsFiniteSet(v \cap (0..6))
      /\ Ones(v \cap (0..6)) = Bit(v, 0) + Bit(v, 1) + Bit(v, 2) + Bit(v, 3) + Bit(v, 4)
                                 + Bit(v, 5) + Bit(v, 6)
  BY <1>6, OneMoreBit, 6 \in 0..9, 6 - 1 = 5
<1> QED
  BY <1>7, OneMoreBit, 7 \in 0..9, 7 - 1 = 6

LEMMA OnesOfWord ==
    ASSUME NEW v, v \subseteq 0..9
    PROVE  Ones(v) = Ones(v \cap (0..7)) + Bit(v, 8) + Bit(v, 9)
<1>1. IsFiniteSet(v \cap (0..7))
  BY OnesOfByte
<1>2. IsFiniteSet(v \cap (0..8)) /\ Ones(v \cap (0..8)) = Ones(v \cap (0..7)) + Bit(v, 8)
  BY <1>1, OneMoreBit, 8 \in 0..9, 8 - 1 = 7
<1>3. Ones(v \cap (0..9)) = Ones(v \cap (0..8)) + Bit(v, 9)
  BY <1>2, OneMoreBit, 9 \in 0..9, 9 - 1 = 8
<1>4. v \cap (0..9) = v
  OBVIOUS
<1> QED
  BY <1>2, <1>3, <1>4

LEMMA OnesInByte ==
    ASSUME NEW v PROVE Ones(v \cap (0..7)) \in 0..8 /\ num(v) \in -4..4
  BY OnesOfByte DEF Bit, num

LEMMA OnesOfComplement ==
    ASSUME NEW v PROVE Ones(((0..7) \ v) \cap (0..7)) = 8 - Ones(v \cap (0..7))
<1> DEFINE w == (0..7) \ v
<1>1. /\ Bit(w, 0) = 1 - Bit(v, 0) /\ Bit(w, 1) = 1 - Bit(v, 1)
      /\ Bit(w, 2) = 1 - Bit(v, 2) /\ Bit(w, 3) = 1 - Bit(v, 3)
      /\ Bit(w, 4) = 1 - Bit(v, 4) /\ Bit(w, 5) = 1 - Bit(v, 5)
      /\ Bit(w, 6) = 1 - Bit(v, 6) /\ Bit(w, 7) = 1 - Bit(v, 7)
  BY DEF Bit
<1>2. /\ Bit(v, 0) \in 0..1 /\ Bit(v, 1) \in 0..1 /\ Bit(v, 2) \in 0..1
      /\ Bit(v, 3) \in 0..1 /\ Bit(v, 4) \in 0..1 /\ Bit(v, 5) \in 0..1
      /\ Bit(v, 6) \in 0..1 /\ Bit(v, 7) \in 0..1
  BY DEF Bit
<1>3. Ones(w \cap (0..7)) = Bit(w, 0) + Bit(w, 1) + Bit(w, 2) + Bit(w, 3)
                                  + Bit(w, 4) + Bit(w, 5) + Bit(w, 6) + Bit(w, 7)
  BY OnesOfByte
<1>4. Ones(v \cap (0..7)) = Bit(v, 0) + Bit(v, 1) + Bit(v, 2) + Bit(v, 3)
                                  + Bit(v, 4) + Bit(v, 5) + Bit(v, 6) + Bit(v, 7)
  BY OnesOfByte
<1>5. Ones(w \cap (0..7)) = 8 - Ones(v \cap (0..7))
  <2> HIDE DEF w
  <2> QED
    BY <1>1, <1>2, <1>3, <1>4
<1> QED
  BY <1>5

-----------------------------------------------------------------------------
(* Whichever form of a word is chosen, the counter moves by the disparity of *)
(* that word and stays in its range.                                         *)
LEMMA WordMovesCnt ==
    ASSUME NEW v, v \subseteq 0..8, NEW c \in -4..4
    PROVE  /\ nextCnt(v, c) = c + Ones(videoWord(v, c)) - 5
           /\ nextCnt(v, c) \in -4..4
           /\ videoWord(v, c) \subseteq 0..9
<1>1. num(v) \in -4..4 /\ Ones(v \cap (0..7)) = num(v) + 4
  BY OnesInByte DEF num
<1>2. Ones(v) = num(v) + 4 + Bit(v, 8)
  <2>1. v \subseteq 0..9 /\ 9 \notin v
    OBVIOUS
  <2>2. Ones(v) = Ones(v \cap (0..7)) + Bit(v, 8) + Bit(v, 9)
    BY <2>1, OnesOfWord
  <2>3. Bit(v, 8) \in 0..1 /\ Bit(v, 9) = 0
    BY <2>1 DEF Bit
  <2> QED
    BY <1>1, <2>2, <2>3
<1> DEFINE w == {9} \cup (v \cap {8}) \cup ((0..7) \ v)
<1>3. Ones(w) = 5 - num(v) + Bit(v, 8)
  <2>1. w \cap (0..7) = ((0..7) \ v) \cap (0..7) /\ w \subseteq 0..9
    OBVIOUS
  <2>2. Bit(w, 9) = 1 /\ Bit(w, 8) = Bit(v, 8)
    BY DEF Bit
  <2>3. Ones(w) = Ones(((0..7) \ v) \cap (0..7)) + Bit(w, 8) + Bit(w, 9)
    BY <2>1, OnesOfWord
  <2>4. Bit(v, 8) \in 0..1
    BY DEF Bit
  <2> HIDE DEF w
  <2> QED
    BY <1>1, <2>2, <2>3, <2>4, OnesOfComplement
<1>4. videoWord(v, c) = IF invert(v, c) THEN w ELSE v
  BY DEF videoWord
<1>5. w \subseteq 0..9 /\ v \subseteq 0..9
  OBVIOUS
<1> HIDE DEF w
<1>6. /\ nextCnt(v, c) = c + Ones(videoWord(v, c)) - 5
      /\ nextCnt(v, c) \in -4..4
  BY <1>1, <1>2, <1>3, <1>4 DEF nextCnt, increment, invert, balanced, sameSign, Bit
<1> QED
  BY <1>4, <1>5, <1>6

-----------------------------------------------------------------------------
(* The bits of a byte, one after the other: the chain is defined, and unique.*)
ChainStep(f, d, code) ==
    [i \in 0..7 |-> IF i = 0 THEN 0 \in d ELSE (f[i - 1] # (i \in d)) # code]

LEMMA ChainExists ==
    ASSUME NEW d, NEW code \in BOOLEAN PROVE \E f : f = ChainStep(f, d, code)
<1> DEFINE b0 == 0 \in d
           b1 == (b0 # (1 \in d)) # code
           b2 == (b1 # (2 \in d)) # code
           b3 == (b2 # (3 \in d)) # code
           b4 == (b3 # (4 \in d)) # code
           b5 == (b4 # (5 \in d)) # code
           b6 == (b5 # (6 \in d)) # code
           b7 == (b6 # (7 \in d)) # code
           f == [i \in 0..7 |-> CASE i = 0 -> b0 [] i = 1 -> b1 [] i = 2 -> b2
                                  [] i = 3 -> b3 [] i = 4 -> b4 [] i = 5 -> b5
                                  [] i = 6 -> b6 [] i = 7 -> b7]
<1>1. /\ f[0] = b0 /\ f[1] = b1 /\ f[2] = b2 /\ f[3] = b3
      /\ f[4] = b4 /\ f[5] = b5 /\ f[6] = b6 /\ f[7] = b7
  <2> HIDE DEF b0, b1, b2, b3, b4, b5, b6, b7
  <2> QED
    OBVIOUS
<1>2. ASSUME NEW i \in 0..7
      PROVE  f[i] = IF i = 0 THEN 0 \in d ELSE (f[i - 1] # (i \in d)) # code
  <2> HIDE DEF f
  <2> QED
    BY <1>1
<1>3. f = ChainStep(f, d, code)
  <2>1. f = [i \in 0..7 |-> f[i]]
    OBVIOUS
  <2> HIDE DEF f
  <2> QED
    BY <1>2, <2>1 DEF ChainStep
<1> QED
  BY <1>3

LEMMA ChainBits ==
    ASSUME NEW d, NEW code \in BOOLEAN
    PROVE  /\ Chain(d, code) \subseteq 0..7
           /\ (0 \in Chain(d, code)) <=> (0 \in d)
           /\ \A i \in 1..7 :
                 (i \in Chain(d, code)) <=> (((i - 1 \in Chain(d, code)) # (i \in d)) # code)
<1>1. PICK f : f = ChainStep(f, d, code)
  BY ChainExists
<1>2. PICK g : g = ChainStep(g, d, code) /\ Chain(d, code) = {i \in 0..7 : g[i]}
  BY <1>1 DEF Chain, ChainStep
<1>3. ASSUME NEW i \in 0..7 PROVE (i \in Chain(d, code)) <=> g[i]
  BY <1>2
<1>4. \A i \in 0..7 :
         g[i] = IF i = 0 THEN 0 \in d ELSE (g[i - 1] # (i \in d)) # code
  BY <1>2, Zenon DEF ChainStep
<1>9. ASSUME NEW i \in 0..7 PROVE g[i] \in BOOLEAN
  <2>1. CASE i = 0
    <3>1. g[i] = (0 \in d)
      BY <1>4, <2>1, Zenon
    <3> QED
      BY <3>1
  <2>2. CASE i # 0
    <3>1. g[i] = ((g[i - 1] # (i \in d)) # code)
      BY <1>4, <2>2, Zenon
    <3> QED
      BY <3>1
  <2> QED
    BY <2>1, <2>2
<1>5. (0 \in Chain(d, code)) <=> (0 \in d)
  <2>1. 0 \in 0..7
    OBVIOUS
  <2>2. g[0] = (0 \in d)
    BY <1>4, <2>1, Zenon
  <2> QED
    BY <1>3, <2>1, <2>2, Zenon
<1>6. ASSUME NEW i \in 1..7
      PROVE (i \in Chain(d, code)) <=> (((i - 1 \in Chain(d, code)) # (i \in d)) # code)
  <2>1. i \in 0..7 /\ i # 0 /\ i - 1 \in 0..7
    OBVIOUS
  <2>2. g[i] = ((g[i - 1] # (i \in d)) # code)
    BY <1>4, <2>1, Zenon
  <2>3. (i \in Chain(d, code)) <=> g[i]
    BY <1>3, <2>1
  <2>4. g[i - 1] \in BOOLEAN
    BY <1>9, <2>1
  <2>5. (i - 1 \in Chain(d, code)) = g[i - 1]
    <3>1. (i - 1 \in Chain(d, code)) <=> g[i - 1]
      BY <1>3, <2>1
    <3> QED
      BY <2>4, <3>1
  <2> QED
    BY <2>2, <2>3, <2>5, Zenon
<1> QED
  BY <1>2, <1>5, <1>6

LEMMA EncodedBits ==
    ASSUME NEW d
    PROVE  /\ byteencode(d) \subseteq 0..8
           /\ (8 \in byteencode(d)) <=> ~useXnor(d)
           /\ byteencode(d) \cap (0..7) = Chain(d, useXnor(d))
<1>1. useXnor(d) \in BOOLEAN
  BY DEF useXnor
<1>2. Chain(d, useXnor(d)) \subseteq 0..7
  BY <1>1, ChainBits
<1>3. CASE useXnor(d)
  <2>1. byteencode(d) = Chain(d, useXnor(d))
    BY <1>3 DEF byteencode
  <2>2. byteencode(d) \subseteq 0..8 /\ 8 \notin byteencode(d)
    BY <1>2, <2>1
  <2>3. byteencode(d) \cap (0..7) = Chain(d, useXnor(d))
    BY <1>2, <2>1
  <2> QED
    BY <1>3, <2>2, <2>3
<1>4. CASE ~useXnor(d)
  <2>1. byteencode(d) = Chain(d, useXnor(d)) \cup {8}
    BY <1>4 DEF byteencode
  <2> QED
    BY <1>2, <1>4, <2>1
<1> QED
  BY <1>3, <1>4

\* The word, as the sink takes it apart.
LEMMA WordBits ==
    ASSUME NEW v, v \subseteq 0..8, NEW c
    PROVE  /\ (9 \in videoWord(v, c)) <=> invert(v, c)
           /\ (8 \in videoWord(v, c)) <=> (8 \in v)
           /\ \A i \in 0..7 :
                 (i \in videoWord(v, c)) <=> IF invert(v, c) THEN i \notin v ELSE i \in v
<1>1. CASE invert(v, c)
  <2>1. videoWord(v, c) = {9} \cup (v \cap {8}) \cup ((0..7) \ v)
    BY <1>1 DEF videoWord
  <2> QED
    BY <1>1, <2>1
<1>2. CASE ~invert(v, c)
  <2>1. videoWord(v, c) = v
    BY <1>2 DEF videoWord
  <2> QED
    BY <1>2, <2>1
<1> QED
  BY <1>1, <1>2

\* A bit of the pixel makes a transition of the word (XOR) or prevents it (XNOR).
LEMMA TransitionBits ==
    ASSUME NEW d, NEW c, NEW i \in 1..7
    PROVE  LET w == videoWord(byteencode(d), c)
           IN  ((i - 1 \in w) # (i \in w)) <=> ((i \in d) # useXnor(d))
<1> DEFINE v == byteencode(d)
           w == videoWord(v, c)
<1>1. useXnor(d) \in BOOLEAN
  BY DEF useXnor
<1>2. (i \in Chain(d, useXnor(d))) <=>
         (((i - 1 \in Chain(d, useXnor(d))) # (i \in d)) # useXnor(d))
  BY <1>1, ChainBits
<1>3. /\ (i \in Chain(d, useXnor(d))) <=> (i \in v)
      /\ (i - 1 \in Chain(d, useXnor(d))) <=> (i - 1 \in v)
  BY EncodedBits
<1>4. /\ (i \in w) <=> IF invert(v, c) THEN i \notin v ELSE i \in v
      /\ (i - 1 \in w) <=> IF invert(v, c) THEN i - 1 \notin v ELSE i - 1 \in v
  BY WordBits, EncodedBits
<1> QED
  <2> HIDE DEF v, w
  <2>1. ((i - 1 \in w) # (i \in w)) <=> ((i - 1 \in v) # (i \in v))
    BY <1>4
  <2>2. ((i - 1 \in v) # (i \in v)) <=> ((i \in d) # useXnor(d))
    BY <1>1, <1>2, <1>3
  <2>3. ((i - 1 \in w) # (i \in w)) <=> ((i \in d) # useXnor(d))
    BY <2>1, <2>2
  <2> QED
    BY <2>3 DEF v, w

LEMMA FirstBit ==
    ASSUME NEW d, NEW c
    PROVE  LET w == videoWord(byteencode(d), c)
           IN  (0 \in w) <=> IF 9 \in w THEN 0 \notin d ELSE 0 \in d
<1>1. useXnor(d) \in BOOLEAN
  BY DEF useXnor
<1>2. (0 \in Chain(d, useXnor(d))) <=> (0 \in d)
  BY <1>1, ChainBits
<1> QED
  BY <1>2, EncodedBits, WordBits

(* The sink takes every word of a pixel apart, in either form and from any   *)
(* counter.                                                                  *)
LEMMA VideoWordDecodes ==
    ASSUME NEW d \in AllBytes, NEW c PROVE Decode(videoWord(byteencode(d), c)) = d
<1> DEFINE w == videoWord(byteencode(d), c)
           raw == IF 9 \in w THEN (0..7) \ w ELSE w \cap (0..7)
<1>1. (8 \in w) <=> ~useXnor(d)
  BY EncodedBits, WordBits
<1>2. (0 \in raw) <=> (0 \in d)
  BY FirstBit
<1>3. ASSUME NEW i \in 1..7
      PROVE  (((i \in raw) # (i - 1 \in raw)) = (8 \in w)) <=> (i \in d)
  <2>1. ((i - 1 \in w) # (i \in w)) <=> ((i \in d) # useXnor(d))
    BY TransitionBits
  <2>2. ((i \in raw) # (i - 1 \in raw)) <=> ((i - 1 \in w) # (i \in w))
    <3> HIDE DEF w
    <3> QED
      OBVIOUS
  <2>3. useXnor(d) \in BOOLEAN
    BY DEF useXnor
  <2> HIDE DEF raw, w
  <2> QED
    BY <1>1, <2>1, <2>2, <2>3
<1>4. d \subseteq 0..7
  BY DEF AllBytes
<1>5. Decode(w) = {i \in 0..7 : IF i = 0 THEN 0 \in raw
                                ELSE ((i \in raw) # (i - 1 \in raw)) = (8 \in w)}
  BY DEF Decode
<1>6. ASSUME NEW i \in 0..7
      PROVE  (i \in d) <=> IF i = 0 THEN 0 \in raw
                           ELSE ((i \in raw) # (i - 1 \in raw)) = (8 \in w)
  <2> HIDE DEF raw, w
  <2>1. CASE i = 0
    BY <1>2, <2>1
  <2>2. CASE i # 0
    <3>1. i \in 1..7
      BY <2>2
    <3> QED
      BY <1>3, <2>2, <3>1
  <2> QED
    BY <2>1, <2>2
<1>7. Decode(w) = d
  <2> HIDE DEF raw, w
  <2> QED
    BY <1>4, <1>5, <1>6
<1> QED
  BY <1>7

\* The places where a word changes.
Changes(w) == {i \in 0..8 : (i \in w) # (i + 1 \in w)}

LEMMA TransitionsAreChanges ==
    ASSUME NEW w
    PROVE  Transitions(w) =
             Bit(Changes(w), 0) + Bit(Changes(w), 1) + Bit(Changes(w), 2)
           + Bit(Changes(w), 3) + Bit(Changes(w), 4) + Bit(Changes(w), 5)
           + Bit(Changes(w), 6) + Bit(Changes(w), 7) + Bit(Changes(w), 8)
<1> DEFINE t == Changes(w)
<1>1. Transitions(w) = Ones(t)
  BY DEF Transitions, Ones, Changes
<1>2. t \subseteq 0..9 /\ 9 \notin t
  BY DEF Changes
<1> HIDE DEF t
<1>3. Bit(t, 9) = 0 /\ Bit(t, 8) \in 0..1
  BY <1>2 DEF Bit
<1>4. Ones(t) = Ones(t \cap (0..7)) + Bit(t, 8)
  <2>1. Ones(t) = Ones(t \cap (0..7)) + Bit(t, 8) + Bit(t, 9)
    BY <1>2, OnesOfWord
  <2>2. Ones(t \cap (0..7)) \in 0..8
    BY OnesInByte
  <2> QED
    BY <1>3, <2>1, <2>2
<1>5. Transitions(w) = Bit(t, 0) + Bit(t, 1) + Bit(t, 2) + Bit(t, 3)
                     + Bit(t, 4) + Bit(t, 5) + Bit(t, 6) + Bit(t, 7) + Bit(t, 8)
  BY <1>1, <1>4, OnesOfByte
<1> QED
  BY <1>5 DEF t

LEMMA TransitionsAreNat == ASSUME NEW w PROVE Transitions(w) \in Nat
<1>1. \A i \in 0..8 : Bit(Changes(w), i) \in 0..1
  BY DEF Bit
<1> QED
  BY <1>1, TransitionsAreChanges

(* The chain is XNOR where the pixel has many ones: half of the transitions  *)
(* at most remain.                                                           *)
LEMMA FewTransitions ==
    ASSUME NEW d \in AllBytes, NEW c
    PROVE  Transitions(videoWord(byteencode(d), c)) <= 5
<1> DEFINE w == videoWord(byteencode(d), c)
           t == Changes(w)
<1>1. Transitions(w) = Bit(t, 0) + Bit(t, 1) + Bit(t, 2) + Bit(t, 3)
                     + Bit(t, 4) + Bit(t, 5) + Bit(t, 6) + Bit(t, 7) + Bit(t, 8)
  BY TransitionsAreChanges
<1>2. Ones(d) = Bit(d, 0) + Bit(d, 1) + Bit(d, 2) + Bit(d, 3)
              + Bit(d, 4) + Bit(d, 5) + Bit(d, 6) + Bit(d, 7)
  <2>1. d \cap (0..7) = d
    BY DEF AllBytes
  <2> QED
    BY <2>1, OnesOfByte
<1>3. ASSUME NEW i \in 0..6
      PROVE  Bit(t, i) = IF useXnor(d) THEN 1 - Bit(d, i + 1) ELSE Bit(d, i + 1)
  <2>1. i + 1 \in 1..7 /\ (i + 1) - 1 = i /\ i \in 0..8
    OBVIOUS
  <2>2. ((i \in w) # (i + 1 \in w)) <=> ((i + 1 \in d) # useXnor(d))
    BY <2>1, TransitionBits
  <2>3. (i \in t) <=> ((i + 1 \in d) # useXnor(d))
    <3> HIDE DEF w
    <3> QED
      BY <2>1, <2>2 DEF Changes
  <2>4. useXnor(d) \in BOOLEAN
    BY DEF useXnor
  <2> HIDE DEF w, t
  <2> QED
    BY <2>3, <2>4 DEF Bit
<1> HIDE DEF w, t
<1>4. /\ Bit(d, 0) \in 0..1 /\ Bit(d, 1) \in 0..1 /\ Bit(d, 2) \in 0..1
      /\ Bit(d, 3) \in 0..1 /\ Bit(d, 4) \in 0..1 /\ Bit(d, 5) \in 0..1
      /\ Bit(d, 6) \in 0..1 /\ Bit(d, 7) \in 0..1
      /\ Bit(t, 7) \in 0..1 /\ Bit(t, 8) \in 0..1
  BY DEF Bit
<1>5. (0 \in d) <=> Bit(d, 0) = 1
  BY DEF Bit
<1>6. CASE useXnor(d)
  <2>1. /\ Bit(t, 0) = 1 - Bit(d, 1) /\ Bit(t, 1) = 1 - Bit(d, 2)
        /\ Bit(t, 2) = 1 - Bit(d, 3) /\ Bit(t, 3) = 1 - Bit(d, 4)
        /\ Bit(t, 4) = 1 - Bit(d, 5) /\ Bit(t, 5) = 1 - Bit(d, 6)
        /\ Bit(t, 6) = 1 - Bit(d, 7)
    BY <1>3, <1>6
  <2>2. Ones(d) > 4 \/ (Ones(d) = 4 /\ Bit(d, 0) = 0)
    BY <1>4, <1>5, <1>6 DEF useXnor
  <2>3. Transitions(w) <= 5
    BY <1>1, <1>2, <1>4, <2>1, <2>2
  <2> QED
    BY <2>3 DEF w
<1>7. CASE ~useXnor(d)
  <2>1. /\ Bit(t, 0) = Bit(d, 1) /\ Bit(t, 1) = Bit(d, 2) /\ Bit(t, 2) = Bit(d, 3)
        /\ Bit(t, 3) = Bit(d, 4) /\ Bit(t, 4) = Bit(d, 5) /\ Bit(t, 5) = Bit(d, 6)
        /\ Bit(t, 6) = Bit(d, 7)
    BY <1>3, <1>7
  <2>2. ~(Ones(d) > 4) /\ ~(Ones(d) = 4 /\ Bit(d, 0) = 0)
    BY <1>4, <1>5, <1>7 DEF useXnor
  <2>3. Transitions(w) <= 5
    BY <1>1, <1>2, <1>4, <2>1, <2>2
  <2> QED
    BY <2>3 DEF w
<1> QED
  BY <1>6, <1>7

-----------------------------------------------------------------------------
(* The fixed words.  Their positions are those of a number below 2^10, which *)
(* they determine.                                                           *)
Digit(n, p) == (n \div p) % 2

Numbers == 0..1023

Weighs(i, p) == i \in 0..9 /\ p \in 1..512 /\ p = 2^i

DigitAt(n, i, p) == Bit(Bits(n), i) = Digit(n, p) /\ Digit(n, p) \in 0..1

DigitsMatch(n) ==
    /\ Bits(n) \subseteq 0..9
    /\ DigitAt(n, 0, 1)
    /\ DigitAt(n, 1, 2)
    /\ DigitAt(n, 2, 4)
    /\ DigitAt(n, 3, 8)
    /\ DigitAt(n, 4, 16)
    /\ DigitAt(n, 5, 32)
    /\ DigitAt(n, 6, 64)
    /\ DigitAt(n, 7, 128)
    /\ DigitAt(n, 8, 256)
    /\ DigitAt(n, 9, 512)

\* One digit: i is the position of the digit that p = 2^i weighs.
LEMMA DigitOfBits ==
    ASSUME NEW n \in Numbers, NEW i, NEW p, Weighs(i, p)
    PROVE  DigitAt(n, i, p)
<1>1. n \div p \in Nat
  BY DEF Numbers, Weighs
<1>2. \A m \in Nat : m % 2 \in 0..1
  OBVIOUS
<1>3. Digit(n, p) \in 0..1
  BY <1>1, <1>2 DEF Digit
<1>4. (i \in Bits(n)) <=> Digit(n, p) = 1
  BY DEF Bits, Digit, Weighs
<1>5. Bit(Bits(n), i) = Digit(n, p)
  BY <1>3, <1>4 DEF Bit
<1> QED
  BY <1>3, <1>5 DEF DigitAt

LEMMA BitsOfNumber == ASSUME NEW n \in Numbers PROVE DigitsMatch(n)
<1>1. Bits(n) \subseteq 0..9
  BY DEF Bits
<1>2. DigitAt(n, 0, 1)
  <2>1. Weighs(0, 1)
    BY DEF Weighs
  <2> QED
    BY <2>1, DigitOfBits
<1>3. DigitAt(n, 1, 2)
  <2>1. Weighs(1, 2)
    BY DEF Weighs
  <2> QED
    BY <2>1, DigitOfBits
<1>4. DigitAt(n, 2, 4)
  <2>1. Weighs(2, 4)
    BY DEF Weighs
  <2> QED
    BY <2>1, DigitOfBits
<1>5. DigitAt(n, 3, 8)
  <2>1. Weighs(3, 8)
    BY DEF Weighs
  <2> QED
    BY <2>1, DigitOfBits
<1>6. DigitAt(n, 4, 16)
  <2>1. Weighs(4, 16)
    BY DEF Weighs
  <2> QED
    BY <2>1, DigitOfBits
<1>7. DigitAt(n, 5, 32)
  <2>1. Weighs(5, 32)
    BY DEF Weighs
  <2> QED
    BY <2>1, DigitOfBits
<1>8. DigitAt(n, 6, 64)
  <2>1. Weighs(6, 64)
    BY DEF Weighs
  <2> QED
    BY <2>1, DigitOfBits
<1>9. DigitAt(n, 7, 128)
  <2>1. Weighs(7, 128)
    BY DEF Weighs
  <2> QED
    BY <2>1, DigitOfBits
<1>10. DigitAt(n, 8, 256)
  <2>1. Weighs(8, 256)
    BY DEF Weighs
  <2> QED
    BY <2>1, DigitOfBits
<1>11. DigitAt(n, 9, 512)
  <2>1. Weighs(9, 512)
    BY DEF Weighs
  <2> QED
    BY <2>1, DigitOfBits
<1> QED
  BY <1>1, <1>2, <1>3, <1>4, <1>5, <1>6, <1>7, <1>8, <1>9, <1>10, <1>11 DEF DigitsMatch

Halves(n) ==
    /\ n = 2 * (n \div 2) + Digit(n, 1)
    /\ n \div 2 = 2 * (n \div 4) + Digit(n, 2)
    /\ n \div 4 = 2 * (n \div 8) + Digit(n, 4)
    /\ n \div 8 = 2 * (n \div 16) + Digit(n, 8)
    /\ n \div 16 = 2 * (n \div 32) + Digit(n, 16)
    /\ n \div 32 = 2 * (n \div 64) + Digit(n, 32)
    /\ n \div 64 = 2 * (n \div 128) + Digit(n, 64)
    /\ n \div 128 = 2 * (n \div 256) + Digit(n, 128)
    /\ n \div 256 = 2 * (n \div 512) + Digit(n, 256)
    /\ n \div 512 = Digit(n, 512)

LEMMA HalvesOfNumber == ASSUME NEW n \in Numbers PROVE Halves(n)
<1>1. n = 2 * (n \div 2) + Digit(n, 1)
  BY DEF Digit, Numbers
<1>2. n \div 2 = 2 * (n \div 4) + Digit(n, 2)
  BY DEF Digit, Numbers
<1>3. n \div 4 = 2 * (n \div 8) + Digit(n, 4)
  BY DEF Digit, Numbers
<1>4. n \div 8 = 2 * (n \div 16) + Digit(n, 8)
  BY DEF Digit, Numbers
<1>5. n \div 16 = 2 * (n \div 32) + Digit(n, 16)
  BY DEF Digit, Numbers
<1>6. n \div 32 = 2 * (n \div 64) + Digit(n, 32)
  BY DEF Digit, Numbers
<1>7. n \div 64 = 2 * (n \div 128) + Digit(n, 64)
  BY DEF Digit, Numbers
<1>8. n \div 128 = 2 * (n \div 256) + Digit(n, 128)
  BY DEF Digit, Numbers
<1>9. n \div 256 = 2 * (n \div 512) + Digit(n, 256)
  BY DEF Digit, Numbers
<1>10. n \div 512 = Digit(n, 512)
  BY DEF Digit, Numbers
<1> QED
  BY <1>1, <1>2, <1>3, <1>4, <1>5, <1>6, <1>7, <1>8, <1>9, <1>10 DEF Halves

LEMMA BitsAreUnique ==
    ASSUME NEW n \in Numbers, NEW m \in Numbers, Bits(n) = Bits(m) PROVE n = m
<1>1. DigitsMatch(n) /\ DigitsMatch(m)
  BY BitsOfNumber
<1>2. Halves(n) /\ Halves(m)
  BY HalvesOfNumber
<1>3. Digit(n, 1) = Digit(m, 1)
  BY <1>1 DEF DigitsMatch, DigitAt
<1>4. Digit(n, 2) = Digit(m, 2)
  BY <1>1 DEF DigitsMatch, DigitAt
<1>5. Digit(n, 4) = Digit(m, 4)
  BY <1>1 DEF DigitsMatch, DigitAt
<1>6. Digit(n, 8) = Digit(m, 8)
  BY <1>1 DEF DigitsMatch, DigitAt
<1>7. Digit(n, 16) = Digit(m, 16)
  BY <1>1 DEF DigitsMatch, DigitAt
<1>8. Digit(n, 32) = Digit(m, 32)
  BY <1>1 DEF DigitsMatch, DigitAt
<1>9. Digit(n, 64) = Digit(m, 64)
  BY <1>1 DEF DigitsMatch, DigitAt
<1>10. Digit(n, 128) = Digit(m, 128)
  BY <1>1 DEF DigitsMatch, DigitAt
<1>11. Digit(n, 256) = Digit(m, 256)
  BY <1>1 DEF DigitsMatch, DigitAt
<1>12. Digit(n, 512) = Digit(m, 512)
  BY <1>1 DEF DigitsMatch, DigitAt
<1>13. n \div 512 = m \div 512
  BY <1>2, <1>12 DEF Halves
<1>14. n \div 256 = m \div 256
  <2>1. /\ n \div 256 = 2 * (n \div 512) + Digit(n, 256)
        /\ m \div 256 = 2 * (m \div 512) + Digit(m, 256)
    BY <1>2 DEF Halves
  <2> QED
    BY <1>11, <1>13, <2>1
<1>15. n \div 128 = m \div 128
  <2>1. /\ n \div 128 = 2 * (n \div 256) + Digit(n, 128)
        /\ m \div 128 = 2 * (m \div 256) + Digit(m, 128)
    BY <1>2 DEF Halves
  <2> QED
    BY <1>10, <1>14, <2>1
<1>16. n \div 64 = m \div 64
  <2>1. /\ n \div 64 = 2 * (n \div 128) + Digit(n, 64)
        /\ m \div 64 = 2 * (m \div 128) + Digit(m, 64)
    BY <1>2 DEF Halves
  <2> QED
    BY <1>9, <1>15, <2>1
<1>17. n \div 32 = m \div 32
  <2>1. /\ n \div 32 = 2 * (n \div 64) + Digit(n, 32)
        /\ m \div 32 = 2 * (m \div 64) + Digit(m, 32)
    BY <1>2 DEF Halves
  <2> QED
    BY <1>8, <1>16, <2>1
<1>18. n \div 16 = m \div 16
  <2>1. /\ n \div 16 = 2 * (n \div 32) + Digit(n, 16)
        /\ m \div 16 = 2 * (m \div 32) + Digit(m, 16)
    BY <1>2 DEF Halves
  <2> QED
    BY <1>7, <1>17, <2>1
<1>19. n \div 8 = m \div 8
  <2>1. /\ n \div 8 = 2 * (n \div 16) + Digit(n, 8)
        /\ m \div 8 = 2 * (m \div 16) + Digit(m, 8)
    BY <1>2 DEF Halves
  <2> QED
    BY <1>6, <1>18, <2>1
<1>20. n \div 4 = m \div 4
  <2>1. /\ n \div 4 = 2 * (n \div 8) + Digit(n, 4)
        /\ m \div 4 = 2 * (m \div 8) + Digit(m, 4)
    BY <1>2 DEF Halves
  <2> QED
    BY <1>5, <1>19, <2>1
<1>21. n \div 2 = m \div 2
  <2>1. /\ n \div 2 = 2 * (n \div 4) + Digit(n, 2)
        /\ m \div 2 = 2 * (m \div 4) + Digit(m, 2)
    BY <1>2 DEF Halves
  <2> QED
    BY <1>4, <1>20, <2>1
<1>22. n = 2 * (n \div 2) + Digit(n, 1) /\ m = 2 * (m \div 2) + Digit(m, 1)
  BY <1>2 DEF Halves
<1> QED
  BY <1>3, <1>21, <1>22

\* The transitions of a number's binary digits.
Steps(n) ==
      (IF Digit(n, 1) # Digit(n, 2) THEN 1 ELSE 0)
    + (IF Digit(n, 2) # Digit(n, 4) THEN 1 ELSE 0)
    + (IF Digit(n, 4) # Digit(n, 8) THEN 1 ELSE 0)
    + (IF Digit(n, 8) # Digit(n, 16) THEN 1 ELSE 0)
    + (IF Digit(n, 16) # Digit(n, 32) THEN 1 ELSE 0)
    + (IF Digit(n, 32) # Digit(n, 64) THEN 1 ELSE 0)
    + (IF Digit(n, 64) # Digit(n, 128) THEN 1 ELSE 0)
    + (IF Digit(n, 128) # Digit(n, 256) THEN 1 ELSE 0)
    + (IF Digit(n, 256) # Digit(n, 512) THEN 1 ELSE 0)

LEMMA ChangesOfNumber ==
    ASSUME NEW n \in Numbers PROVE Transitions(Bits(n)) = Steps(n)
<1> DEFINE w == Bits(n)
           t == Changes(w)
<1>1. Transitions(w) = Bit(t, 0) + Bit(t, 1) + Bit(t, 2) + Bit(t, 3)
                     + Bit(t, 4) + Bit(t, 5) + Bit(t, 6) + Bit(t, 7) + Bit(t, 8)
  BY TransitionsAreChanges
<1>2. DigitsMatch(n)
  BY BitsOfNumber
<1>3. ASSUME NEW i \in 0..8, NEW a \in 0..1, NEW b \in 0..1,
             Bit(w, i) = a, Bit(w, i + 1) = b
      PROVE  Bit(t, i) = IF a # b THEN 1 ELSE 0
  <2>1. ((i \in w) <=> a = 1) /\ ((i + 1 \in w) <=> b = 1)
    BY <1>3 DEF Bit
  <2> HIDE DEF w
  <2>2. (i \in t) <=> a # b
    BY <2>1 DEF Changes
  <2> HIDE DEF t
  <2> QED
    BY <2>2 DEF Bit
<1>4. Bit(t, 0) = IF Digit(n, 1) # Digit(n, 2) THEN 1 ELSE 0
  <2>1. 0 \in 0..8 /\ 0 + 1 = 1
    OBVIOUS
  <2>2. Bit(w, 0) = Digit(n, 1) /\ Digit(n, 1) \in 0..1
    BY <1>2 DEF DigitsMatch, DigitAt
  <2>3. Bit(w, 0 + 1) = Digit(n, 2) /\ Digit(n, 2) \in 0..1
    BY <1>2 DEF DigitsMatch, DigitAt
  <2> HIDE DEF t, w
  <2> QED
    BY <1>3, <2>1, <2>2, <2>3
<1>5. Bit(t, 1) = IF Digit(n, 2) # Digit(n, 4) THEN 1 ELSE 0
  <2>1. 1 \in 0..8 /\ 1 + 1 = 2
    OBVIOUS
  <2>2. Bit(w, 1) = Digit(n, 2) /\ Digit(n, 2) \in 0..1
    BY <1>2 DEF DigitsMatch, DigitAt
  <2>3. Bit(w, 1 + 1) = Digit(n, 4) /\ Digit(n, 4) \in 0..1
    BY <1>2 DEF DigitsMatch, DigitAt
  <2> HIDE DEF t, w
  <2> QED
    BY <1>3, <2>1, <2>2, <2>3
<1>6. Bit(t, 2) = IF Digit(n, 4) # Digit(n, 8) THEN 1 ELSE 0
  <2>1. 2 \in 0..8 /\ 2 + 1 = 3
    OBVIOUS
  <2>2. Bit(w, 2) = Digit(n, 4) /\ Digit(n, 4) \in 0..1
    BY <1>2 DEF DigitsMatch, DigitAt
  <2>3. Bit(w, 2 + 1) = Digit(n, 8) /\ Digit(n, 8) \in 0..1
    BY <1>2 DEF DigitsMatch, DigitAt
  <2> HIDE DEF t, w
  <2> QED
    BY <1>3, <2>1, <2>2, <2>3
<1>7. Bit(t, 3) = IF Digit(n, 8) # Digit(n, 16) THEN 1 ELSE 0
  <2>1. 3 \in 0..8 /\ 3 + 1 = 4
    OBVIOUS
  <2>2. Bit(w, 3) = Digit(n, 8) /\ Digit(n, 8) \in 0..1
    BY <1>2 DEF DigitsMatch, DigitAt
  <2>3. Bit(w, 3 + 1) = Digit(n, 16) /\ Digit(n, 16) \in 0..1
    BY <1>2 DEF DigitsMatch, DigitAt
  <2> HIDE DEF t, w
  <2> QED
    BY <1>3, <2>1, <2>2, <2>3
<1>8. Bit(t, 4) = IF Digit(n, 16) # Digit(n, 32) THEN 1 ELSE 0
  <2>1. 4 \in 0..8 /\ 4 + 1 = 5
    OBVIOUS
  <2>2. Bit(w, 4) = Digit(n, 16) /\ Digit(n, 16) \in 0..1
    BY <1>2 DEF DigitsMatch, DigitAt
  <2>3. Bit(w, 4 + 1) = Digit(n, 32) /\ Digit(n, 32) \in 0..1
    BY <1>2 DEF DigitsMatch, DigitAt
  <2> HIDE DEF t, w
  <2> QED
    BY <1>3, <2>1, <2>2, <2>3
<1>9. Bit(t, 5) = IF Digit(n, 32) # Digit(n, 64) THEN 1 ELSE 0
  <2>1. 5 \in 0..8 /\ 5 + 1 = 6
    OBVIOUS
  <2>2. Bit(w, 5) = Digit(n, 32) /\ Digit(n, 32) \in 0..1
    BY <1>2 DEF DigitsMatch, DigitAt
  <2>3. Bit(w, 5 + 1) = Digit(n, 64) /\ Digit(n, 64) \in 0..1
    BY <1>2 DEF DigitsMatch, DigitAt
  <2> HIDE DEF t, w
  <2> QED
    BY <1>3, <2>1, <2>2, <2>3
<1>10. Bit(t, 6) = IF Digit(n, 64) # Digit(n, 128) THEN 1 ELSE 0
  <2>1. 6 \in 0..8 /\ 6 + 1 = 7
    OBVIOUS
  <2>2. Bit(w, 6) = Digit(n, 64) /\ Digit(n, 64) \in 0..1
    BY <1>2 DEF DigitsMatch, DigitAt
  <2>3. Bit(w, 6 + 1) = Digit(n, 128) /\ Digit(n, 128) \in 0..1
    BY <1>2 DEF DigitsMatch, DigitAt
  <2> HIDE DEF t, w
  <2> QED
    BY <1>3, <2>1, <2>2, <2>3
<1>11. Bit(t, 7) = IF Digit(n, 128) # Digit(n, 256) THEN 1 ELSE 0
  <2>1. 7 \in 0..8 /\ 7 + 1 = 8
    OBVIOUS
  <2>2. Bit(w, 7) = Digit(n, 128) /\ Digit(n, 128) \in 0..1
    BY <1>2 DEF DigitsMatch, DigitAt
  <2>3. Bit(w, 7 + 1) = Digit(n, 256) /\ Digit(n, 256) \in 0..1
    BY <1>2 DEF DigitsMatch, DigitAt
  <2> HIDE DEF t, w
  <2> QED
    BY <1>3, <2>1, <2>2, <2>3
<1>12. Bit(t, 8) = IF Digit(n, 256) # Digit(n, 512) THEN 1 ELSE 0
  <2>1. 8 \in 0..8 /\ 8 + 1 = 9
    OBVIOUS
  <2>2. Bit(w, 8) = Digit(n, 256) /\ Digit(n, 256) \in 0..1
    BY <1>2 DEF DigitsMatch, DigitAt
  <2>3. Bit(w, 8 + 1) = Digit(n, 512) /\ Digit(n, 512) \in 0..1
    BY <1>2 DEF DigitsMatch, DigitAt
  <2> HIDE DEF t, w
  <2> QED
    BY <1>3, <2>1, <2>2, <2>3
<1>13. Transitions(w) = Steps(n)
  <2> HIDE DEF w, t
  <2> QED
    BY <1>1, <1>4, <1>5, <1>6, <1>7, <1>8, <1>9, <1>10, <1>11, <1>12 DEF Steps
<1> QED
  BY <1>13

tercNumber(s) ==
    CASE s = 0 -> 668 [] s = 1 -> 611 [] s = 2 -> 740 [] s = 3 -> 738
      [] s = 4 -> 369 [] s = 5 -> 286 [] s = 6 -> 398 [] s = 7 -> 316
      [] s = 8 -> 716 [] s = 9 -> 313 [] s = 10 -> 412 [] s = 11 -> 710
      [] s = 12 -> 654 [] s = 13 -> 625 [] s = 14 -> 355 [] s = 15 -> 707

controlNumber(c) ==
    CASE c = 0 -> 852 [] c = 1 -> 171 [] c = 2 -> 340 [] c = 3 -> 683

LEMMA TercIsNumber ==
    ASSUME NEW s \in 0..15
    PROVE  /\ tercNumber(s) \in Numbers /\ terc4[s] = Bits(tercNumber(s))
           /\ \A t \in 0..15 : tercNumber(t) = tercNumber(s) => t = s
<1>1. tercNumber(s) \in Numbers
  BY DEF tercNumber, Numbers
<1>2. terc4[s] = Bits(tercNumber(s))
  BY DEF terc4, tercNumber
<1>3. ASSUME NEW t \in 0..15, tercNumber(t) = tercNumber(s) PROVE t = s
  BY <1>3 DEF tercNumber
<1> QED
  BY <1>1, <1>2, <1>3

LEMMA ControlIsNumber ==
    ASSUME NEW c \in 0..3
    PROVE  /\ controlNumber(c) \in Numbers /\ controlCode[c] = Bits(controlNumber(c))
           /\ \A e \in 0..3 : controlNumber(e) = controlNumber(c) => e = c
<1>1. controlNumber(c) \in Numbers
  BY DEF controlNumber, Numbers
<1>2. controlCode[c] = Bits(controlNumber(c))
  BY DEF controlCode, controlNumber
<1>3. ASSUME NEW e \in 0..3, controlNumber(e) = controlNumber(c) PROVE e = c
  BY <1>3 DEF controlNumber
<1> QED
  BY <1>1, <1>2, <1>3

LEMMA StepsOfWords ==
    /\ \A s \in 0..15 : Steps(tercNumber(s)) \in 0..6
    /\ \A c \in 0..3 : Steps(controlNumber(c)) \in 7..9
    /\ Steps(307) \in 0..6 /\ Steps(716) \in 0..6
<1>1. Steps(668) = 5
  BY DEF Steps, Digit
<1>2. Steps(611) = 4
  BY DEF Steps, Digit
<1>3. Steps(740) = 5
  BY DEF Steps, Digit
<1>4. Steps(738) = 5
  BY DEF Steps, Digit
<1>5. Steps(369) = 5
  BY DEF Steps, Digit
<1>6. Steps(286) = 4
  BY DEF Steps, Digit
<1>7. Steps(398) = 4
  BY DEF Steps, Digit
<1>8. Steps(316) = 4
  BY DEF Steps, Digit
<1>9. Steps(716) = 5
  BY DEF Steps, Digit
<1>10. Steps(313) = 5
  BY DEF Steps, Digit
<1>11. Steps(412) = 4
  BY DEF Steps, Digit
<1>12. Steps(710) = 5
  BY DEF Steps, Digit
<1>13. Steps(654) = 5
  BY DEF Steps, Digit
<1>14. Steps(625) = 4
  BY DEF Steps, Digit
<1>15. Steps(355) = 5
  BY DEF Steps, Digit
<1>16. Steps(707) = 4
  BY DEF Steps, Digit
<1>17. Steps(852) = 7
  BY DEF Steps, Digit
<1>18. Steps(171) = 7
  BY DEF Steps, Digit
<1>19. Steps(340) = 8
  BY DEF Steps, Digit
<1>20. Steps(683) = 8
  BY DEF Steps, Digit
<1>21. Steps(307) = 5
  BY DEF Steps, Digit
<1>22. ASSUME NEW s \in 0..15 PROVE Steps(tercNumber(s)) \in 0..6
  BY <1>1, <1>2, <1>3, <1>4, <1>5, <1>6, <1>7, <1>8, <1>9, <1>10, <1>11, <1>12, <1>13, <1>14, <1>15, <1>16 DEF tercNumber
<1>23. ASSUME NEW c \in 0..3 PROVE Steps(controlNumber(c)) \in 7..9
  BY <1>17, <1>18, <1>19, <1>20 DEF controlNumber
<1> QED
  BY <1>9, <1>21, <1>22, <1>23

\* What the sink sees of a fixed word.
LEMMA TercWord ==
    ASSUME NEW s \in 0..15
    PROVE  /\ terc4[s] \subseteq 0..9
           /\ ~(Transitions(terc4[s]) >= 7)
           /\ {t \in 0..15 : terc4[t] = terc4[s]} = {s}
<1>1. tercNumber(s) \in Numbers /\ terc4[s] = Bits(tercNumber(s))
  BY TercIsNumber
<1>2. Transitions(terc4[s]) = Steps(tercNumber(s))
  BY <1>1, ChangesOfNumber
<1>3. Steps(tercNumber(s)) \in 0..6
  BY StepsOfWords
<1>4. terc4[s] \subseteq 0..9
  BY <1>1 DEF Bits
<1>5. ASSUME NEW t \in 0..15, terc4[t] = terc4[s] PROVE t = s
  <2>1. tercNumber(t) \in Numbers /\ terc4[t] = Bits(tercNumber(t))
    BY TercIsNumber
  <2>2. Bits(tercNumber(t)) = Bits(tercNumber(s))
    BY <1>1, <1>5, <2>1, Zenon
  <2>3. tercNumber(t) = tercNumber(s)
    BY <1>1, <2>1, <2>2, BitsAreUnique
  <2> QED
    BY <2>3, TercIsNumber
<1>6. {t \in 0..15 : terc4[t] = terc4[s]} = {s}
  BY <1>5
<1> QED
  BY <1>2, <1>3, <1>4, <1>6

LEMMA ControlWord ==
    ASSUME NEW c \in 0..3
    PROVE  /\ controlCode[c] \subseteq 0..9
           /\ Transitions(controlCode[c]) >= 7
           /\ {e \in 0..3 : controlCode[e] = controlCode[c]} = {c}
<1>1. controlNumber(c) \in Numbers /\ controlCode[c] = Bits(controlNumber(c))
  BY ControlIsNumber
<1>2. Transitions(controlCode[c]) = Steps(controlNumber(c))
  BY <1>1, ChangesOfNumber
<1>3. Steps(controlNumber(c)) \in 7..9
  BY StepsOfWords
<1>4. controlCode[c] \subseteq 0..9
  BY <1>1 DEF Bits
<1>5. ASSUME NEW e \in 0..3, controlCode[e] = controlCode[c] PROVE e = c
  <2>1. controlNumber(e) \in Numbers /\ controlCode[e] = Bits(controlNumber(e))
    BY ControlIsNumber
  <2>2. Bits(controlNumber(e)) = Bits(controlNumber(c))
    BY <1>1, <1>5, <2>1, Zenon
  <2>3. controlNumber(e) = controlNumber(c)
    BY <1>1, <2>1, <2>2, BitsAreUnique
  <2> QED
    BY <2>3, ControlIsNumber
<1>6. {e \in 0..3 : controlCode[e] = controlCode[c]} = {c}
  BY <1>5
<1> QED
  BY <1>2, <1>3, <1>4, <1>6

LEMMA GuardWords ==
    ASSUME NEW c \in 0..3
    PROVE  /\ videoGuardWord \subseteq 0..9 /\ ~(Transitions(videoGuardWord) >= 7)
           /\ dataGuardWord(c) \subseteq 0..9 /\ ~(Transitions(dataGuardWord(c)) >= 7)
<1>1. Transitions(Bits(307)) \in 0..6 /\ Transitions(Bits(716)) \in 0..6
  <2>1. 307 \in Numbers /\ 716 \in Numbers
    BY DEF Numbers
  <2> QED
    BY <2>1, ChangesOfNumber, StepsOfWords
<1>2. Bits(307) \subseteq 0..9 /\ Bits(716) \subseteq 0..9
  BY DEF Bits
<1>3. videoGuardWord = Bits(307) \/ videoGuardWord = Bits(716)
  <2>1. \b0100110011 = 307 /\ \b1011001100 = 716
    OBVIOUS
  <2> QED
    BY <2>1 DEF videoGuardWord
<1>4. dataGuardWord(c) = terc4[12 + c] \/ dataGuardWord(c) = Bits(307)
  <2>1. \b0100110011 = 307
    OBVIOUS
  <2> QED
    BY <2>1 DEF dataGuardWord
<1>5. 12 + c \in 0..15
  OBVIOUS
<1>6. terc4[12 + c] \subseteq 0..9 /\ ~(Transitions(terc4[12 + c]) >= 7)
  BY <1>5, TercWord
<1>7. videoGuardWord \subseteq 0..9 /\ ~(Transitions(videoGuardWord) >= 7)
  BY <1>1, <1>2, <1>3
<1>8. dataGuardWord(c) \subseteq 0..9 /\ ~(Transitions(dataGuardWord(c)) >= 7)
  BY <1>1, <1>2, <1>4, <1>6
<1> QED
  BY <1>7, <1>8

-----------------------------------------------------------------------------
(* The invariant of the pipeline: what the registers of either stage hold is *)
(* determined by the input that is in it, and the counter is the disparity   *)
(* of the line.                                                              *)
Selected(in) == IF in.mode \in {"video", "data"} THEN in.mode ELSE "control"

GuardOf(in) == IF in.mode \in {"videoGuard", "dataGuard"} THEN in.mode ELSE "none"

ControlWordOf(in) ==
    IF in.mode = "videoGuard" THEN videoGuardWord
    ELSE IF in.mode = "dataGuard" THEN dataGuardWord(in.c)
    ELSE controlCode[in.c]

InFirstStage(in) ==
    /\ sel = Selected(in)
    /\ qm = byteencode(in.d)
    /\ sReg = in.s
    /\ cReg = [guard |-> GuardOf(in), c |-> in.c]

InSecondStage(in) ==
    /\ selDly = Selected(in)
    /\ \E c \in -4..4 : qout = videoWord(byteencode(in.d), c)
    /\ sout = terc4[in.s]
    /\ cout = ControlWordOf(in)

Staged ==
    \/ sent = <<>>
    \/ \E a \in Inputs : sent = <<a>> /\ InFirstStage(a)
    \/ \E a, b \in Inputs : sent = <<a, b>> /\ InFirstStage(a) /\ InSecondStage(b)

PipelineInv == TypeOK /\ sum \in Int /\ LineDisparityTracked /\ Staged

LEMMA InputFields ==
    ASSUME NEW in \in Inputs
    PROVE  /\ in.mode \in Modes /\ in.d \in AllBytes /\ in.s \in 0..15 /\ in.c \in 0..3
           /\ Selected(in) \in {"video", "data", "control"}
           /\ GuardOf(in) \in {"none", "videoGuard", "dataGuard"}
<1>1. in \in [mode : Modes, d : AllBytes, s : 0..15, c : 0..3]
  BY InputsAssumption
<1>2. in.mode \in Modes /\ in.d \in AllBytes /\ in.s \in 0..15 /\ in.c \in 0..3
  BY <1>1
<1> QED
  BY <1>2 DEF Selected, GuardOf, Modes

LEMMA InitPipeline == EncoderInit => PipelineInv
  BY DEF EncoderInit, PipelineInv, TypeOK, LineDisparityTracked, Staged

LEMMA ControlWordFits ==
    ASSUME TypeOK PROVE controlWord \subseteq 0..9
<1>1. cReg.guard \in {"none", "videoGuard", "dataGuard"} /\ cReg.c \in 0..3
  BY DEF TypeOK
<1>2. /\ videoGuardWord \subseteq 0..9 /\ dataGuardWord(cReg.c) \subseteq 0..9
      /\ controlCode[cReg.c] \subseteq 0..9
  BY <1>1, ControlWord, GuardWords
<1>3. \/ controlWord = videoGuardWord \/ controlWord = dataGuardWord(cReg.c)
      \/ controlWord = controlCode[cReg.c]
  BY <1>1 DEF controlWord
<1> QED
  BY <1>2, <1>3

LEMMA ClockTyped ==
    ASSUME TypeOK, sum \in Int, NEW in \in Inputs, ClockEncoder(in)
    PROVE  TypeOK' /\ sum' \in Int
<1> USE DEF ClockEncoder, LatchInput, EncodeWords, Observe
<1>1. channel' \in 0..2
  BY DEF TypeOK
<1>2. qm \subseteq 0..8 /\ cnt \in -4..4 /\ sReg \in 0..15
  BY DEF TypeOK
<1>3. nextCnt(qm, cnt) \in -4..4 /\ videoWord(qm, cnt) \subseteq 0..9
  BY <1>2, WordMovesCnt
<1>4. cnt' \in -4..4
  BY <1>3 DEF lineCnt
<1>5. {sel', selDly'} \subseteq {"video", "data", "control"}
  BY DEF TypeOK
<1>6. qm' \subseteq 0..8 /\ sReg' \in 0..15
  BY InputFields, EncodedBits
<1>7. cReg' \in [guard : {"none", "videoGuard", "dataGuard"}, c : 0..3]
  BY InputFields
<1>8. qout' \subseteq 0..9
  BY <1>3
<1>9. sout' \subseteq 0..9
  BY <1>2, TercWord
<1>10. cout' \subseteq 0..9
  BY ControlWordFits
<1>11. sum' \in Int
  <2>1. Ones(qout') \in Nat
    <3>1. Ones(qout') = Ones(qout' \cap (0..7)) + Bit(qout', 8) + Bit(qout', 9)
      BY <1>8, OnesOfWord
    <3>2. Bit(qout', 8) \in 0..1 /\ Bit(qout', 9) \in 0..1
      BY DEF Bit
    <3>3. Ones(qout' \cap (0..7)) \in 0..8
      BY OnesInByte
    <3> QED
      BY <3>1, <3>2, <3>3
  <2> QED
    BY <2>1
<1> QED
  BY <1>1, <1>4, <1>5, <1>6, <1>7, <1>8, <1>9, <1>10, <1>11 DEF TypeOK

LEMMA ClockTracked ==
    ASSUME TypeOK, LineDisparityTracked, NEW in \in Inputs, ClockEncoder(in)
    PROVE  LineDisparityTracked'
<1> USE DEF ClockEncoder, EncodeWords, Observe
<1>1. CASE sel = "video"
  <2>1. qm \subseteq 0..8 /\ cnt \in -4..4
    BY DEF TypeOK
  <2>2. nextCnt(qm, cnt) = cnt + Ones(videoWord(qm, cnt)) - 5
    BY <2>1, WordMovesCnt
  <2>3. sum' = cnt'
    BY <1>1, <2>2 DEF LineDisparityTracked, lineCnt
  <2> QED
    BY <2>3 DEF LineDisparityTracked
<1>2. CASE sel # "video"
  BY <1>2 DEF LineDisparityTracked, lineCnt
<1> QED
  BY <1>1, <1>2

LEMMA LatchedInput ==
    ASSUME NEW in \in Inputs, ClockEncoder(in) PROVE InFirstStage(in)'
  BY DEF ClockEncoder, LatchInput, InFirstStage, Selected, GuardOf

LEMMA EncodedInput ==
    ASSUME TypeOK, NEW a \in Inputs, InFirstStage(a), NEW in \in Inputs, ClockEncoder(in)
    PROVE  InSecondStage(a)'
<1> USE DEF ClockEncoder, LatchInput, EncodeWords
<1>1. selDly' = Selected(a)
  BY DEF InFirstStage
<1>2. \E c \in -4..4 : qout' = videoWord(byteencode(a.d), c)
  BY DEF InFirstStage, TypeOK
<1>3. sout' = terc4[a.s]
  BY DEF InFirstStage
<1>4. cout' = ControlWordOf(a)'
  <2>1. controlWord = ControlWordOf(a)
    BY DEF controlWord, ControlWordOf, InFirstStage, GuardOf
  <2>2. ControlWordOf(a)' = ControlWordOf(a)
    BY DEF ControlWordOf, videoGuardWord, dataGuardWord
  <2> QED
    BY <2>1, <2>2
<1> QED
  BY <1>1, <1>2, <1>3, <1>4 DEF InSecondStage

LEMMA ClockStaged ==
    ASSUME TypeOK, Staged, NEW in \in Inputs, ClockEncoder(in) PROVE Staged'
<1>1. InFirstStage(in)'
  BY LatchedInput
<1>2. sent' = IF sent = <<>> THEN <<in>> ELSE <<in, sent[1]>>
  BY DEF ClockEncoder, Observe
<1>3. CASE sent = <<>>
  <2>1. sent' = <<in>>
    BY <1>2, <1>3
  <2> QED
    BY <1>1, <2>1 DEF Staged
<1>4. ASSUME NEW a \in Inputs, sent # <<>>, sent[1] = a, InFirstStage(a) PROVE Staged'
  <2>1. sent' = <<in, a>>
    BY <1>2, <1>4
  <2>2. InSecondStage(a)'
    BY <1>4, EncodedInput
  <2> QED
    BY <1>1, <2>1, <2>2 DEF Staged
<1>5. ASSUME NEW a \in Inputs, sent = <<a>>, InFirstStage(a) PROVE Staged'
  BY <1>4, <1>5
<1>6. ASSUME NEW a \in Inputs, NEW b \in Inputs, sent = <<a, b>>, InFirstStage(a) PROVE Staged'
  BY <1>4, <1>6
<1> QED
  BY <1>3, <1>5, <1>6 DEF Staged

LEMMA StutterPipeline == PipelineInv /\ UNCHANGED encoderVars => PipelineInv'
  BY DEF encoderVars, PipelineInv, TypeOK, LineDisparityTracked, Staged, InFirstStage,
         InSecondStage, ControlWordOf, videoGuardWord, dataGuardWord

LEMMA NextPipeline == PipelineInv /\ [Next]_encoderVars => PipelineInv'
<1> SUFFICES ASSUME PipelineInv, [Next]_encoderVars PROVE PipelineInv'
  OBVIOUS
<1>1. CASE UNCHANGED encoderVars
  BY <1>1, StutterPipeline
<1>2. ASSUME NEW in \in Inputs, ClockEncoder(in) PROVE PipelineInv'
  <2>1. TypeOK /\ sum \in Int /\ LineDisparityTracked /\ Staged
    BY DEF PipelineInv
  <2>2. TypeOK' /\ sum' \in Int
    BY <1>2, <2>1, ClockTyped
  <2>3. LineDisparityTracked'
    BY <1>2, <2>1, ClockTracked
  <2>4. Staged'
    BY <1>2, <2>1, ClockStaged
  <2> QED
    BY <2>2, <2>3, <2>4 DEF PipelineInv
<1> QED
  BY <1>1, <1>2 DEF Next

(* Every register of the encoder keeps its type; cnt its declared range.     *)
THEOREM EncoderTyped == Spec => []TypeOK
<1>1. PipelineInv => TypeOK
  BY DEF PipelineInv
<1> QED
  BY <1>1, InitPipeline, NextPipeline, PTL DEF Spec

(* The counter of the encoder is half the disparity of all the words sent    *)
(* since the line began, whichever periods the inputs run through.           *)
THEOREM DisparityTracked == Spec => []LineDisparityTracked
<1>1. PipelineInv => LineDisparityTracked
  BY DEF PipelineInv
<1> QED
  BY <1>1, InitPipeline, NextPipeline, PTL DEF Spec

LEMMA PixelsAreSafe == TypeOK => EveryPixelIsSafe
<1> SUFFICES ASSUME TypeOK, NEW d \in AllBytes
             PROVE  LET code == byteencode(d)
                        word == videoWord(code, cnt)
                    IN  /\ Decode(word) = d
                        /\ Transitions(word) <= 5
                        /\ nextCnt(code, cnt) = cnt + Ones(word) - 5
                        /\ nextCnt(code, cnt) \in -4..4
  BY DEF EveryPixelIsSafe
<1>1. cnt \in -4..4
  BY DEF TypeOK
<1>2. byteencode(d) \subseteq 0..8
  BY EncodedBits
<1>3. /\ nextCnt(byteencode(d), cnt) = cnt + Ones(videoWord(byteencode(d), cnt)) - 5
      /\ nextCnt(byteencode(d), cnt) \in -4..4
  BY <1>1, <1>2, WordMovesCnt
<1>4. Decode(videoWord(byteencode(d), cnt)) = d
  BY VideoWordDecodes
<1>5. Transitions(videoWord(byteencode(d), cnt)) <= 5
  BY FewTransitions
<1> QED
  BY <1>3, <1>4, <1>5

(* From every value the counter can have, all 256 pixel values are decodable,*)
(* have few transitions, and leave the counter in its range.                 *)
THEOREM PixelsSafe == Spec => []EveryPixelIsSafe
  BY EncoderTyped, PixelsAreSafe, PTL

LEMMA SecondStageDecodes ==
    ASSUME NEW in \in Inputs, InSecondStage(in)
    PROVE  Decodes(in) /\ (Transitions(q_out) >= 7 <=> in.mode = "control")
<1>1. /\ in.mode \in Modes /\ in.d \in AllBytes /\ in.s \in 0..15 /\ in.c \in 0..3
  BY InputFields
<1>2. selDly = Selected(in) /\ sout = terc4[in.s] /\ cout = ControlWordOf(in)
  BY DEF InSecondStage
<1>3. CASE in.mode = "video"
  <2>1. q_out = qout
    BY <1>2, <1>3 DEF q_out, Selected
  <2>2. PICK c \in -4..4 : qout = videoWord(byteencode(in.d), c)
    BY DEF InSecondStage
  <2>3. Decode(q_out) = in.d
    BY <1>1, <2>1, <2>2, VideoWordDecodes
  <2>4. ~(Transitions(q_out) >= 7)
    <3>1. Transitions(q_out) <= 5
      BY <1>1, <2>1, <2>2, FewTransitions
    <3>2. Transitions(q_out) \in Nat
      BY TransitionsAreNat
    <3> QED
      BY <3>1, <3>2
  <2> QED
    BY <1>3, <2>3, <2>4 DEF Decodes
<1>4. CASE in.mode = "data"
  <2>1. q_out = terc4[in.s]
    BY <1>2, <1>4 DEF q_out, Selected
  <2>2. ~(Transitions(terc4[in.s]) >= 7) /\ {s \in 0..15 : terc4[s] = terc4[in.s]} = {in.s}
    BY <1>1, TercWord
  <2> QED
    BY <1>4, <2>1, <2>2 DEF Decodes
<1>5. CASE in.mode = "control"
  <2>1. q_out = controlCode[in.c]
    BY <1>2, <1>5 DEF q_out, Selected, ControlWordOf
  <2>2. /\ Transitions(controlCode[in.c]) >= 7
        /\ {c \in 0..3 : controlCode[c] = controlCode[in.c]} = {in.c}
    BY <1>1, ControlWord
  <2> QED
    BY <1>5, <2>1, <2>2 DEF Decodes
<1>6. CASE in.mode = "videoGuard"
  <2>1. q_out = videoGuardWord
    BY <1>2, <1>6 DEF q_out, Selected, ControlWordOf
  <2>2. ~(Transitions(videoGuardWord) >= 7)
    BY <1>1, GuardWords
  <2> QED
    BY <1>6, <2>1, <2>2 DEF Decodes
<1>7. CASE in.mode = "dataGuard"
  <2>1. q_out = dataGuardWord(in.c)
    BY <1>2, <1>7 DEF q_out, Selected, ControlWordOf
  <2>2. ~(Transitions(dataGuardWord(in.c)) >= 7)
    BY <1>1, GuardWords
  <2> QED
    BY <1>7, <2>1, <2>2 DEF Decodes
<1> QED
  BY <1>1, <1>3, <1>4, <1>5, <1>6, <1>7 DEF Modes

LEMMA SinkDecodesStaged == Staged => SinkDecodes
<1> SUFFICES ASSUME Staged, Len(sent) = 2
             PROVE  /\ Decodes(sent[2])
                    /\ Transitions(q_out) >= 7 <=> sent[2].mode = "control"
  BY DEF SinkDecodes
<1>1. PICK a \in Inputs, b \in Inputs : sent = <<a, b>> /\ InFirstStage(a) /\ InSecondStage(b)
  <2>1. sent # <<>>
    OBVIOUS
  <2>2. ASSUME NEW a \in Inputs, sent = <<a>> PROVE FALSE
    <3>1. Len(sent) = 1
      BY <2>2
    <3> QED
      BY <3>1
  <2> QED
    BY <2>1, <2>2 DEF Staged
<1>2. sent[2] = b
  BY <1>1
<1> QED
  BY <1>1, <1>2, SecondStageDecodes

(* The sink decodes the input of two clocks before, and tells the control    *)
(* characters by their transitions, however the periods change.              *)
THEOREM DecodedBySink == Spec => []SinkDecodes
<1>1. PipelineInv => SinkDecodes
  BY SinkDecodesStaged DEF PipelineInv
<1> QED
  BY <1>1, InitPipeline, NextPipeline, PTL DEF Spec

=============================================================================
