--------------------------- MODULE InfoIslandProofs --------------------------
(* The island assembler's ECC and bit output, for every set of packets: the  *)
(* blocks that leave are the packet that was loaded and words of the BCH     *)
(* code.  And the packets of the table: their infoframes and clock           *)
(* regeneration values are right when they arrive.                           *)
(*                                                                           *)
(* The register steps through the data from the first bit to the last; the   *)
(* sink's division, Remainder, goes down the powers of the whole block.      *)
(* Trace names the values of the register, and Rest says what the division   *)
(* has left over at each power: the bits to come, and the register moved to  *)
(* that place.  A recursive function over the powers is what it is because   *)
(* no other function takes its steps: were there a difference, there would   *)
(* be a least power with one.                                                *)
EXTENDS InfoIsland, FiniteSetTheorems, WellFoundedInduction, TLAPS

\* Every non-empty set of naturals has a least element.
LEMMA LeastNumber ==
    ASSUME NEW T \in SUBSET Nat, T # {} PROVE \E x \in T : \A y \in T : x <= y
<1>1. IsWellFoundedOn(OpToRel(<, Nat), Nat)
  BY NatLessThanWellFounded, Zenon
<1>2. PICK x \in T : \A y \in T : ~(<<y, x>> \in OpToRel(<, Nat))
  BY <1>1, WFMin, Zenon
<1>3. ASSUME NEW y \in T PROVE x <= y
  <2>1. x \in Nat /\ y \in Nat
    OBVIOUS
  <2>2. ~(y < x)
    BY <1>2, <2>1 DEF OpToRel
  <2> QED
    BY <2>1, <2>2
<1> QED
  BY <1>3

-----------------------------------------------------------------------------
(* Shifting, and the step of a BCH register.                                 *)
LEMMA Shifted ==
    ASSUME NEW v \in SUBSET Nat, NEW n \in Nat
    PROVE  /\ ShiftRight(v, n) \in SUBSET Nat
           /\ \A x \in Nat : x \in ShiftRight(v, n) <=> x + n \in v
<1>1. ASSUME NEW x, x \in ShiftRight(v, n) PROVE x \in Nat /\ x + n \in v
  <2>1. PICK i \in v : i >= n /\ x = i - n
    BY <1>1 DEF ShiftRight
  <2> QED
    BY <2>1
<1>2. ASSUME NEW x \in Nat, x + n \in v PROVE x \in ShiftRight(v, n)
  <2>1. x + n >= n /\ x = (x + n) - n
    OBVIOUS
  <2> QED
    BY <1>2, <2>1 DEF ShiftRight
<1> QED
  BY <1>1, <1>2

LEMMA ShiftedTwice ==
    ASSUME NEW v \in SUBSET Nat, NEW n \in Nat
    PROVE  ShiftRight(ShiftRight(v, n), 1) = ShiftRight(v, n + 1)
<1>1. ShiftRight(v, n) \in SUBSET Nat
  BY Shifted
<1>2. /\ ShiftRight(ShiftRight(v, n), 1) \in SUBSET Nat
      /\ ShiftRight(v, n + 1) \in SUBSET Nat
  BY <1>1, Shifted
<1>3. ASSUME NEW x \in Nat
      PROVE  x \in ShiftRight(ShiftRight(v, n), 1) <=> x \in ShiftRight(v, n + 1)
  <2>1. x \in ShiftRight(ShiftRight(v, n), 1) <=> x + 1 \in ShiftRight(v, n)
    BY <1>1, Shifted
  <2>2. x + 1 \in ShiftRight(v, n) <=> (x + 1) + n \in v
    BY Shifted
  <2>3. x \in ShiftRight(v, n + 1) <=> x + (n + 1) \in v
    BY n + 1 \in Nat, Shifted
  <2>4. (x + 1) + n = x + (n + 1)
    OBVIOUS
  <2> QED
    BY <2>1, <2>2, <2>3, <2>4
<1> QED
  BY <1>2, <1>3

LEMMA NotShifted == ASSUME NEW v \in SUBSET Nat PROVE ShiftRight(v, 0) = v
<1>1. ShiftRight(v, 0) \in SUBSET Nat /\ \A x \in Nat : x \in ShiftRight(v, 0) <=> x + 0 \in v
  BY 0 \in Nat, Shifted
<1>2. \A x \in Nat : x + 0 = x
  OBVIOUS
<1> QED
  BY <1>1, <1>2

LEMMA BchStep ==
    ASSUME NEW v \in SUBSET (0..7), NEW d \in BOOLEAN
    PROVE  /\ bch(v, d) \in SUBSET (0..7)
           /\ \A x \in 0..7 :
                x \in bch(v, d) <=>
                  ((x + 1 \in v) # (~((0 \in v) <=> d) /\ x \in {0, 1, 7}))
<1>1. /\ ShiftRight(v, 1) \in SUBSET Nat
      /\ \A x \in Nat : x \in ShiftRight(v, 1) <=> x + 1 \in v
  BY v \in SUBSET Nat, 1 \in Nat, Shifted
<1>2. ShiftRight(v, 1) \in SUBSET (0..7)
  BY <1>1
<1>3. CASE (0 \in v) # d
  <2>1. bch(v, d) = Xor(ShiftRight(v, 1), {0, 1, 7})
    BY <1>3 DEF bch
  <2> QED
    BY <1>1, <1>2, <1>3, <2>1 DEF Xor
<1>4. CASE ~((0 \in v) # d)
  <2>1. bch(v, d) = ShiftRight(v, 1)
    BY <1>4 DEF bch
  <2> QED
    BY <1>1, <1>2, <1>4, <2>1
<1> QED
  BY <1>3, <1>4

-----------------------------------------------------------------------------
(* The values a BCH register runs through while k bits of data pass by.      *)
Trace(h, data, k) ==
    /\ h \in [0..k -> SUBSET (0..7)]
    /\ h[0] = {}
    /\ \A i \in 0..(k - 1) : h[i + 1] = bch(h[i], i \in data)

\* The dividend of Remainder, and the step of its division.
Block(sent, n) == {n - 1 - i : i \in sent}

DivisionStep(f, sent, n) ==
    [p \in 8..n |->
        IF p = n THEN Block(sent, n)
        ELSE LET rest == f[p + 1]
             IN  IF p \in rest THEN Xor(rest, {p, p - 1, p - 2, p - 8}) ELSE rest]

\* What is left when the powers from p on are divided: the bits that were not
\* yet taken, and the register.
Rest(sent, h, n, p) ==
    {x \in 0..(n - 1) :
        (x < p /\ n - 1 - x \in sent) # (x <= p - 1 /\ x >= p - 8 /\ p - 1 - x \in h[n - p])}

LEMMA RestOfBlock ==
    ASSUME NEW n \in Nat, NEW sent \in SUBSET (0..(n - 1)), NEW h, h[0] = {}
    PROVE  Rest(sent, h, n, n) = Block(sent, n)
<1>1. Rest(sent, h, n, n) = {x \in 0..(n - 1) : n - 1 - x \in sent}
  <2>1. n - n = 0
    OBVIOUS
  <2> QED
    BY <2>1 DEF Rest
<1>2. ASSUME NEW x \in Block(sent, n) PROVE x \in 0..(n - 1) /\ n - 1 - x \in sent
  <2>1. PICK i \in sent : x = n - 1 - i
    BY DEF Block
  <2> QED
    BY <2>1
<1>3. ASSUME NEW x \in 0..(n - 1), n - 1 - x \in sent PROVE x \in Block(sent, n)
  <2>1. x = n - 1 - (n - 1 - x)
    OBVIOUS
  <2> QED
    BY <1>3, <2>1 DEF Block
<1> QED
  BY <1>1, <1>2, <1>3

LEMMA RestStep ==
    ASSUME NEW n \in Nat, NEW sent \in SUBSET (0..(n - 1)), NEW k \in Nat, k < n - 8,
           NEW h, h[k] \in SUBSET (0..7), h[k + 1] = bch(h[k], k \in sent)
    PROVE  LET rest == Rest(sent, h, n, n - k)
               p    == n - (k + 1)
           IN  Rest(sent, h, n, p) =
                 IF p \in rest THEN Xor(rest, {p, p - 1, p - 2, p - 8}) ELSE rest
<1> DEFINE p == n - (k + 1)
           rest == Rest(sent, h, n, n - k)
           next == Rest(sent, h, n, p)
<1>1. p \in 8..(n - 1) /\ n - k = p + 1 /\ n - p = k + 1 /\ n - (p + 1) = k /\ n - 1 - p = k
  OBVIOUS
<1>2. /\ h[k + 1] \in SUBSET (0..7)
      /\ \A x \in 0..7 : x \in h[k + 1] <=>
            ((x + 1 \in h[k]) # (((0 \in h[k]) # (k \in sent)) /\ x \in {0, 1, 7}))
  <2>1. CASE k \in sent
    <3>1. h[k + 1] = bch(h[k], TRUE)
      <4>1. (k \in sent) = TRUE
        BY <2>1
      <4> QED
        BY <4>1, Zenon
    <3>2. /\ bch(h[k], TRUE) \in SUBSET (0..7)
          /\ \A x \in 0..7 : x \in bch(h[k], TRUE) <=>
                ((x + 1 \in h[k]) # (((0 \in h[k]) # TRUE) /\ x \in {0, 1, 7}))
      BY BchStep
    <3> QED
      BY <2>1, <3>1, <3>2
  <2>2. CASE k \notin sent
    <3>1. h[k + 1] = bch(h[k], FALSE)
      <4>1. (k \in sent) = FALSE
        BY <2>2
      <4> QED
        BY <4>1, Zenon
    <3>2. /\ bch(h[k], FALSE) \in SUBSET (0..7)
          /\ \A x \in 0..7 : x \in bch(h[k], FALSE) <=>
                ((x + 1 \in h[k]) # ((0 \in h[k]) /\ x \in {0, 1, 7}))
      BY BchStep
    <3>3. ((0 \in h[k]) # (k \in sent)) <=> (0 \in h[k])
      BY <2>2
    <3> QED
      BY <3>1, <3>2, <3>3
  <2> QED
    BY <2>1, <2>2
<1> HIDE DEF p
<1>3. ASSUME NEW x \in 0..(n - 1)
      PROVE  x \in rest <=> ((x < p + 1 /\ n - 1 - x \in sent)
                              # (x <= p /\ x >= p - 7 /\ p - x \in h[k]))
  <2>1. (p + 1) - 1 = p /\ (p + 1) - 8 = p - 7
    BY <1>1
  <2> QED
    BY <1>1, <2>1 DEF Rest
<1>4. ASSUME NEW x \in 0..(n - 1)
      PROVE  x \in next <=> ((x < p /\ n - 1 - x \in sent)
                              # (x <= p - 1 /\ x >= p - 8 /\ p - 1 - x \in h[k + 1]))
  BY <1>1 DEF Rest
<1>5. rest \in SUBSET (0..(n - 1)) /\ next \in SUBSET (0..(n - 1))
  BY DEF Rest
<1>6. p \in rest <=> ((0 \in h[k]) # (k \in sent))
  BY <1>1, <1>3
<1>7. ASSUME NEW x \in 0..(n - 1)
      PROVE  x \in next <=> ((x \in rest) # ((p \in rest) /\ x \in {p, p - 1, p - 2, p - 8}))
  <2> HIDE DEF next, rest
  <2>1. CASE x > p
    BY <1>1, <1>3, <1>4, <2>1
  <2>2. CASE x = p
    <3>1. x \notin next
      BY <1>1, <1>4, <2>2
    <3>2. x \in rest <=> p \in rest
      BY <2>2
    <3> QED
      BY <2>2, <3>1, <3>2
  <2>3. CASE x < p - 8
    BY <1>1, <1>3, <1>4, <2>3
  <2>4. CASE x \in (p - 8)..(p - 1)
    <3>1. p - 1 - x \in 0..7 /\ (p - 1 - x) + 1 = p - x
      BY <1>1, <2>4
    <3>2. p - 1 - x \in h[k + 1] <=> ((p - x \in h[k]) # ((p \in rest) /\ p - 1 - x \in {0, 1, 7}))
      BY <1>2, <1>6, <3>1
    <3>3. p - 1 - x \in {0, 1, 7} <=> x \in {p, p - 1, p - 2, p - 8}
      BY <1>1, <2>4
    <3>4. x \in next <=> ((n - 1 - x \in sent) # (p - 1 - x \in h[k + 1]))
      BY <1>1, <1>4, <2>4
    <3>5. x \in rest <=> ((n - 1 - x \in sent) # (p - x \in h[k]))
      <4>1. CASE x = p - 8
        <5>1. p - x = 8 /\ 8 \notin h[k]
          BY <1>1, <4>1
        <5> QED
          BY <1>1, <1>3, <4>1, <5>1
      <4>2. CASE x # p - 8
        BY <1>1, <1>3, <2>4, <4>2
      <4> QED
        BY <4>1, <4>2
    <3> QED
      BY <3>2, <3>3, <3>4, <3>5
  <2> QED
    BY <1>1, <2>1, <2>2, <2>3, <2>4
<1>8. next = IF p \in rest THEN Xor(rest, {p, p - 1, p - 2, p - 8}) ELSE rest
  <2> HIDE DEF next, rest
  <2>1. {p, p - 1, p - 2, p - 8} \in SUBSET (0..(n - 1))
    BY <1>1
  <2>2. CASE p \in rest
    <3> DEFINE divided == Xor(rest, {p, p - 1, p - 2, p - 8})
    <3>1. divided \in SUBSET (0..(n - 1))
      BY <1>5, <2>1 DEF Xor
    <3>2. ASSUME NEW x \in 0..(n - 1) PROVE x \in next <=> x \in divided
      <4>1. x \in next <=> ((x \in rest) # (x \in {p, p - 1, p - 2, p - 8}))
        BY <1>7, <2>2
      <4> QED
        BY <4>1 DEF Xor
    <3>3. next = divided
      <4> HIDE DEF divided
      <4> QED
        BY <1>5, <3>1, <3>2
    <3> QED
      BY <2>2, <3>3
  <2>3. CASE p \notin rest
    <3>1. ASSUME NEW x \in 0..(n - 1) PROVE x \in next <=> x \in rest
      BY <1>7, <2>3
    <3>2. next = rest
      BY <1>5, <3>1
    <3> QED
      BY <2>3, <3>2
  <2> QED
    BY <2>2, <2>3
<1> QED
  BY <1>8 DEF p

\* The division comes out as the function of the powers that is left over.
LEMMA DivisionResult ==
    ASSUME NEW n \in Nat, n >= 8, NEW sent, NEW f, f = DivisionStep(f, sent, n)
    PROVE  \E g : g = DivisionStep(g, sent, n) /\ Remainder(sent, n) = g[8]
  BY DEF Remainder, DivisionStep, Block

LEMMA DivisionUnique ==
    ASSUME NEW n \in Nat, n >= 8, NEW sent,
           NEW f, f = DivisionStep(f, sent, n), NEW g, g = DivisionStep(g, sent, n)
    PROVE  f[8] = g[8]
<1> DEFINE T == {k \in 0..(n - 8) : f[n - k] # g[n - k]}
<1>1. ASSUME NEW p \in 8..n
      PROVE  /\ f[p] = IF p = n THEN Block(sent, n)
                       ELSE IF p \in f[p + 1] THEN Xor(f[p + 1], {p, p - 1, p - 2, p - 8})
                       ELSE f[p + 1]
             /\ g[p] = IF p = n THEN Block(sent, n)
                       ELSE IF p \in g[p + 1] THEN Xor(g[p + 1], {p, p - 1, p - 2, p - 8})
                       ELSE g[p + 1]
  BY Zenon DEF DivisionStep
<1>2. ASSUME T # {} PROVE FALSE
  <2>1. T \in SUBSET Nat
    OBVIOUS
  <2>2. PICK k \in T : \A j \in T : k <= j
    BY <1>2, <2>1, LeastNumber
  <2>3. k \in 0..(n - 8) /\ f[n - k] # g[n - k]
    BY <2>2
  <2>4. n - k \in 8..n
    BY <2>3
  <2>5. CASE k = 0
    <3>1. n - k = n
      BY <2>5
    <3> QED
      BY <1>1, <2>3, <2>4, <3>1
  <2>6. CASE k # 0
    <3>1. k - 1 \in 0..(n - 8) /\ n - (k - 1) = (n - k) + 1 /\ ~(k <= k - 1) /\ n - k # n
      BY <2>3, <2>6
    <3>2. f[(n - k) + 1] = g[(n - k) + 1]
      BY <2>2, <3>1
    <3> DEFINE p == n - k
    <3>3. p \in 8..n /\ p # n /\ f[p + 1] = g[p + 1] /\ f[p] # g[p]
      BY <2>3, <2>4, <3>1, <3>2
    <3> HIDE DEF p
    <3>4. f[p] = IF p \in f[p + 1] THEN Xor(f[p + 1], {p, p - 1, p - 2, p - 8}) ELSE f[p + 1]
      BY <1>1, <3>3
    <3>5. g[p] = IF p \in f[p + 1] THEN Xor(f[p + 1], {p, p - 1, p - 2, p - 8}) ELSE f[p + 1]
      BY <1>1, <3>3
    <3> QED
      BY <3>3, <3>4, <3>5
  <2> QED
    BY <2>5, <2>6
<1>3. ASSUME f[8] # g[8] PROVE FALSE
  <2>1. n - 8 \in 0..(n - 8) /\ n - (n - 8) = 8
    OBVIOUS
  <2>2. n - 8 \in T
    BY <1>3, <2>1
  <2> QED
    BY <1>2, <2>2
<1> QED
  BY <1>3

LEMMA DivisionOfTrace ==
    ASSUME NEW n \in Nat, n >= 8, NEW sent \in SUBSET (0..(n - 1)),
           NEW h, Trace(h, sent, n - 8)
    PROVE  Remainder(sent, n) = Rest(sent, h, n, 8)
<1> DEFINE f == [p \in 8..n |-> Rest(sent, h, n, p)]
<1>1. ASSUME NEW p \in 8..n
      PROVE  f[p] = IF p = n THEN Block(sent, n)
                    ELSE IF p \in f[p + 1] THEN Xor(f[p + 1], {p, p - 1, p - 2, p - 8})
                    ELSE f[p + 1]
  <2>1. CASE p = n
    BY <2>1, RestOfBlock DEF Trace
  <2>2. CASE p # n
    <3> DEFINE k == n - p - 1
               r == Rest(sent, h, n, n - k)
    <3>1. k \in Nat /\ k < n - 8 /\ n - (k + 1) = p /\ n - k = p + 1 /\ p + 1 \in 8..n
          /\ k \in 0..(n - 8) /\ k \in 0..((n - 8) - 1)
      BY <2>2
    <3>2. h[k] \in SUBSET (0..7) /\ h[k + 1] = bch(h[k], k \in sent)
      BY <3>1 DEF Trace
    <3> HIDE DEF k
    <3>3. Rest(sent, h, n, n - (k + 1)) =
             IF n - (k + 1) \in r
             THEN Xor(r, {n - (k + 1), n - (k + 1) - 1, n - (k + 1) - 2, n - (k + 1) - 8})
             ELSE r
      BY <3>1, <3>2, RestStep
    <3>4. f[p + 1] = r /\ f[p] = Rest(sent, h, n, n - (k + 1))
      BY <3>1
    <3> HIDE DEF f, r
    <3> QED
      BY <2>2, <3>1, <3>3, <3>4
  <2> QED
    BY <2>1, <2>2
<1>2. f = DivisionStep(f, sent, n)
  <2>1. f = [p \in 8..n |-> f[p]]
    OBVIOUS
  <2> HIDE DEF f
  <2> QED
    BY <1>1, <2>1 DEF DivisionStep
<1>3. PICK g : g = DivisionStep(g, sent, n) /\ Remainder(sent, n) = g[8]
  <2> HIDE DEF f
  <2> QED
    BY <1>2, DivisionResult
<1>4. f[8] = g[8]
  <2> HIDE DEF f
  <2> QED
    BY <1>2, <1>3, DivisionUnique
<1> QED
  BY <1>3, <1>4

\* The data and the register after it: a word of the code.
LEMMA CodewordHasNoRemainder ==
    ASSUME NEW m \in Nat, NEW data \in SUBSET (0..(m - 1)), NEW h, Trace(h, data, m)
    PROVE  Remainder(data \cup {m + j : j \in h[m]}, m + 8) = {}
<1> DEFINE sent == data \cup {m + j : j \in h[m]}
           n == m + 8
<1>1. h[m] \in SUBSET (0..7)
  BY DEF Trace
<1>2. sent \in SUBSET (0..(n - 1)) /\ n \in Nat /\ n >= 8 /\ n - 8 = m
  <2>1. n \in Nat /\ n >= 8 /\ n - 8 = m /\ n - 1 = m + 7
    OBVIOUS
  <2>2. data \in SUBSET (0..(m + 7))
    OBVIOUS
  <2>3. ASSUME NEW j \in h[m] PROVE m + j \in 0..(m + 7)
    BY <1>1
  <2> HIDE DEF n
  <2> QED
    BY <2>1, <2>2, <2>3
<1>3. Trace(h, sent, m)
  <2>1. ASSUME NEW i \in 0..(m - 1) PROVE h[i + 1] = bch(h[i], i \in sent)
    <3>1. (i \in sent) = (i \in data)
      BY <1>1
    <3>2. h[i + 1] = bch(h[i], i \in data)
      BY DEF Trace
    <3> HIDE DEF sent
    <3> QED
      BY <3>1, <3>2, Zenon
  <2> QED
    BY <2>1 DEF Trace
<1>4. ASSUME NEW x \in Rest(sent, h, n, 8) PROVE FALSE
  <2>1. /\ x \in 0..(n - 1)
        /\ (x < 8 /\ n - 1 - x \in sent) # (x <= 7 /\ x >= 0 /\ 7 - x \in h[m])
    BY <1>2 DEF Rest
  <2>2. x \in 0..7 /\ n - 1 - x = m + (7 - x) /\ 7 - x \in 0..7
    BY <2>1
  <2>3. m + (7 - x) \in sent <=> 7 - x \in h[m]
    BY <1>1, <2>2
  <2> HIDE DEF sent, n
  <2> QED
    BY <2>1, <2>2, <2>3
<1>5. Remainder(sent, n) = Rest(sent, h, n, 8)
  <2> HIDE DEF sent, n
  <2> QED
    BY <1>2, <1>3, DivisionOfTrace
<1> QED
  BY <1>4, <1>5

-----------------------------------------------------------------------------
(* The stages of a block of m data bits on its way out.  DataPart: k bits    *)
(* have been sent, and the register has run along with them.  CodePart: all  *)
(* of them have, and e bits of the code behind them.                         *)
DataPart(buffer, register, sent, data, k) ==
    /\ buffer = ShiftRight(data, k)
    /\ sent = data \cap (0..(k - 1))
    /\ \E h : Trace(h, data, k) /\ register = h[k]

CodePart(register, sent, data, m, e) ==
    \E h : /\ Trace(h, data, m)
           /\ register = ShiftRight(h[m], e)
           /\ sent = data \cup {m + j : j \in h[m] \cap (0..(e - 1))}

LEMMA DataStart ==
    ASSUME NEW data \in SUBSET Nat PROVE DataPart(data, {}, {}, data, 0)
<1> DEFINE h == [i \in 0..0 |-> {}]
<1>1. h \in [0..0 -> SUBSET (0..7)] /\ h[0] = {}
  OBVIOUS
<1>2. 0..(0 - 1) = {}
  OBVIOUS
<1>3. Trace(h, data, 0)
  <2> HIDE DEF h
  <2> QED
    BY <1>1, <1>2 DEF Trace
<1>4. \E g : Trace(g, data, 0) /\ {} = g[0]
  BY <1>1, <1>3
<1> QED
  BY <1>2, <1>4, NotShifted DEF DataPart

LEMMA TraceStep ==
    ASSUME NEW data, NEW k \in Nat, NEW h, Trace(h, data, k)
    PROVE  \E g : Trace(g, data, k + 1) /\ g[k + 1] = bch(h[k], k \in data)
<1> DEFINE g == [i \in 0..(k + 1) |-> IF i = k + 1 THEN bch(h[k], k \in data) ELSE h[i]]
<1>1. h[k] \in SUBSET (0..7)
  BY DEF Trace
<1>2. bch(h[k], k \in data) \in SUBSET (0..7)
  <2>1. CASE k \in data
    <3>1. (k \in data) = TRUE
      BY <2>1
    <3>2. bch(h[k], TRUE) \in SUBSET (0..7)
      BY <1>1, BchStep
    <3> QED
      BY <3>1, <3>2, Zenon
  <2>2. CASE k \notin data
    <3>1. (k \in data) = FALSE
      BY <2>2
    <3>2. bch(h[k], FALSE) \in SUBSET (0..7)
      BY <1>1, BchStep
    <3> QED
      BY <3>1, <3>2, Zenon
  <2> QED
    BY <2>1, <2>2
<1> DEFINE last == bch(h[k], k \in data)
<1>3. g[k + 1] = last
  OBVIOUS
<1>4. ASSUME NEW i \in 0..k PROVE g[i] = h[i] /\ h[i] \in SUBSET (0..7)
  BY DEF Trace
<1>5. g \in [0..(k + 1) -> SUBSET (0..7)]
  <2> HIDE DEF last
  <2>1. g = [i \in 0..(k + 1) |-> g[i]]
    OBVIOUS
  <2>2. ASSUME NEW i \in 0..(k + 1) PROVE g[i] \in SUBSET (0..7)
    <3>1. CASE i = k + 1
      BY <1>2, <1>3, <3>1 DEF last
    <3>2. CASE i # k + 1
      <4>1. i \in 0..k
        BY <3>2
      <4> QED
        BY <1>4, <4>1
    <3> QED
      BY <3>1, <3>2
  <2> HIDE DEF g
  <2> QED
    BY <2>1, <2>2
<1>6. ASSUME NEW i \in 0..((k + 1) - 1) PROVE g[i + 1] = bch(g[i], i \in data)
  <2>1. i \in 0..k /\ g[i] = h[i]
    BY <1>4
  <2>2. CASE i = k
    <3> HIDE DEF g
    <3> QED
      BY <1>3, <2>1, <2>2, Zenon DEF last
  <2>3. CASE i # k
    <3>1. i \in 0..(k - 1) /\ i + 1 \in 0..k
      BY <2>3
    <3>2. h[i + 1] = bch(h[i], i \in data)
      BY <3>1 DEF Trace
    <3>3. g[i + 1] = h[i + 1]
      BY <1>4, <3>1
    <3> HIDE DEF g
    <3> QED
      BY <2>1, <3>2, <3>3, Zenon
  <2> QED
    BY <2>2, <2>3
<1>7. g[0] = {}
  <2>1. 0 \in 0..k
    OBVIOUS
  <2>2. g[0] = h[0]
    BY <1>4, <2>1
  <2> HIDE DEF g
  <2> QED
    BY <2>2 DEF Trace
<1>8. Trace(g, data, k + 1)
  <2> HIDE DEF g
  <2> QED
    BY <1>5, <1>6, <1>7 DEF Trace
<1> QED
  BY <1>3, <1>8

\* One bit of data.
LEMMA DataStep ==
    ASSUME NEW data \in SUBSET Nat, NEW k \in Nat, NEW buffer, NEW register, NEW sent,
           DataPart(buffer, register, sent, data, k)
    PROVE  DataPart(ShiftRight(buffer, 1), bch(register, 0 \in buffer),
                sent \cup {k + i : i \in buffer \cap {0}}, data, k + 1)
<1>1. buffer = ShiftRight(data, k) /\ sent = data \cap (0..(k - 1))
  BY DEF DataPart
<1>2. PICK h : Trace(h, data, k) /\ register = h[k]
  BY DEF DataPart
<1>3. 0 \in buffer <=> k \in data
  <2>1. 0 \in ShiftRight(data, k) <=> 0 + k \in data
    BY 0 \in Nat, Shifted
  <2> QED
    BY <1>1, <2>1
<1>4. ShiftRight(buffer, 1) = ShiftRight(data, k + 1)
  BY <1>1, ShiftedTwice
<1>5. sent \cup {k + i : i \in buffer \cap {0}} = data \cap (0..((k + 1) - 1))
  <2>1. (k + 1) - 1 = k /\ k + 0 = k
    OBVIOUS
  <2>2. data \cap (0..k) = (data \cap (0..(k - 1))) \cup (data \cap {k})
    OBVIOUS
  <2>3. {k + i : i \in buffer \cap {0}} = data \cap {k}
    BY <1>3, <2>1
  <2> QED
    BY <1>1, <2>1, <2>2, <2>3
<1>6. (0 \in buffer) = (k \in data)
  BY <1>3
<1>7. \E g : Trace(g, data, k + 1) /\ bch(register, 0 \in buffer) = g[k + 1]
  <2>1. PICK g : Trace(g, data, k + 1) /\ g[k + 1] = bch(h[k], k \in data)
    BY <1>2, TraceStep
  <2>2. g[k + 1] = bch(register, 0 \in buffer)
    BY <1>2, <1>6, <2>1, Zenon
  <2> QED
    BY <2>1, <2>2
<1> QED
  BY <1>4, <1>5, <1>7, Zenon DEF DataPart

LEMMA CodeStart ==
    ASSUME NEW m \in Nat, NEW data \in SUBSET (0..(m - 1)), NEW buffer, NEW register, NEW sent,
           DataPart(buffer, register, sent, data, m)
    PROVE  CodePart(register, sent, data, m, 0)
<1>1. PICK h : Trace(h, data, m) /\ register = h[m]
  BY DEF DataPart
<1>2. sent = data
  BY DEF DataPart
<1>3. ShiftRight(h[m], 0) = h[m]
  <2>1. h[m] \in SUBSET Nat
    BY <1>1 DEF Trace
  <2> QED
    BY <2>1, NotShifted
<1>4. {m + j : j \in h[m] \cap (0..(0 - 1))} = {}
  <2>1. 0..(0 - 1) = {}
    OBVIOUS
  <2> QED
    BY <2>1
<1> QED
  BY <1>1, <1>2, <1>3, <1>4 DEF CodePart

\* One bit of the code.
LEMMA CodeStep ==
    ASSUME NEW m \in Nat, NEW data \in SUBSET (0..(m - 1)), NEW e \in Nat,
           NEW register, NEW sent, CodePart(register, sent, data, m, e)
    PROVE  CodePart(ShiftRight(register, 1),
                sent \cup {m + e + i : i \in register \cap {0}}, data, m, e + 1)
<1>1. PICK h : /\ Trace(h, data, m)
               /\ register = ShiftRight(h[m], e)
               /\ sent = data \cup {m + j : j \in h[m] \cap (0..(e - 1))}
  BY DEF CodePart
<1>2. h[m] \in SUBSET Nat
  BY <1>1 DEF Trace
<1>3. 0 \in register <=> e \in h[m]
  <2>1. 0 \in ShiftRight(h[m], e) <=> 0 + e \in h[m]
    BY <1>2, 0 \in Nat, Shifted
  <2> QED
    BY <1>1, <2>1
<1>4. ShiftRight(register, 1) = ShiftRight(h[m], e + 1)
  BY <1>1, <1>2, ShiftedTwice
<1>5. sent \cup {m + e + i : i \in register \cap {0}}
        = data \cup {m + j : j \in h[m] \cap (0..((e + 1) - 1))}
  <2>1. (e + 1) - 1 = e /\ m + e + 0 = m + e
    OBVIOUS
  <2>2. h[m] \cap (0..e) = (h[m] \cap (0..(e - 1))) \cup (h[m] \cap {e})
    BY <1>2
  <2>3. {m + e + i : i \in register \cap {0}} = {m + j : j \in h[m] \cap {e}}
    BY <1>3, <2>1
  <2>4. {m + j : j \in h[m] \cap (0..e)}
          = {m + j : j \in h[m] \cap (0..(e - 1))} \cup {m + j : j \in h[m] \cap {e}}
    BY <2>2
  <2> QED
    BY <1>1, <2>1, <2>3, <2>4
<1> QED
  BY <1>1, <1>4, <1>5 DEF CodePart

\* The whole block.
LEMMA CodeEnd ==
    ASSUME NEW m \in Nat, NEW data \in SUBSET (0..(m - 1)), NEW register, NEW sent,
           CodePart(register, sent, data, m, 8)
    PROVE  sent \cap (0..(m - 1)) = data /\ Remainder(sent, m + 8) = {}
<1>1. PICK h : /\ Trace(h, data, m)
               /\ sent = data \cup {m + j : j \in h[m] \cap (0..(8 - 1))}
  BY DEF CodePart
<1>2. h[m] \in SUBSET (0..7)
  BY <1>1 DEF Trace
<1>3. h[m] \cap (0..(8 - 1)) = h[m]
  <2>1. 8 - 1 = 7
    OBVIOUS
  <2> QED
    BY <1>2, <2>1
<1>4. sent = data \cup {m + j : j \in h[m]}
  BY <1>1, <1>3
<1>5. sent \cap (0..(m - 1)) = data
  BY <1>2, <1>4
<1>6. Remainder(sent, m + 8) = {}
  BY <1>1, <1>4, CodewordHasNoRemainder
<1> QED
  BY <1>5, <1>6

\* Two bits at a time, as the sub-packets are sent.
LEMMA DataTwoSteps ==
    ASSUME NEW data \in SUBSET Nat, NEW k \in Nat, NEW buffer, NEW register, NEW sent,
           DataPart(buffer, register, sent, data, k)
    PROVE  DataPart(ShiftRight(buffer, 2), bch2(register, 0 \in buffer, 1 \in buffer),
                sent \cup {k + i : i \in buffer \cap {0, 1}}, data, k + 2)
<1> DEFINE buffer1 == ShiftRight(buffer, 1)
           register1 == bch(register, 0 \in buffer)
           sent1 == sent \cup {k + i : i \in buffer \cap {0}}
<1>1. buffer \in SUBSET Nat
  BY Shifted DEF DataPart
<1>2. DataPart(buffer1, register1, sent1, data, k + 1)
  BY DataStep
<1>3. DataPart(ShiftRight(buffer1, 1), bch(register1, 0 \in buffer1),
           sent1 \cup {k + 1 + i : i \in buffer1 \cap {0}}, data, (k + 1) + 1)
  <2> HIDE DEF buffer1, register1, sent1
  <2> QED
    BY <1>2, k + 1 \in Nat, DataStep
<1>4. ShiftRight(buffer1, 1) = ShiftRight(buffer, 2)
  BY <1>1, ShiftedTwice, 1 \in Nat, 1 + 1 = 2
<1>5. 0 \in buffer1 <=> 1 \in buffer
  <2>1. 0 \in buffer1 <=> 0 + 1 \in buffer
    BY <1>1, Shifted, 0 \in Nat, 1 \in Nat
  <2> QED
    BY <2>1
<1>6. bch(register1, 0 \in buffer1) = bch2(register, 0 \in buffer, 1 \in buffer)
  <2>1. (0 \in buffer1) = (1 \in buffer)
    BY <1>5
  <2> QED
    BY <2>1, Zenon DEF bch2
<1>7. sent1 \cup {k + 1 + i : i \in buffer1 \cap {0}} = sent \cup {k + i : i \in buffer \cap {0, 1}}
  <2>1. {k + 1 + i : i \in buffer1 \cap {0}} = {k + i : i \in buffer \cap {1}}
    <3>1. k + 1 + 0 = k + 1
      OBVIOUS
    <3> HIDE DEF buffer1
    <3> QED
      BY <1>5, <3>1
  <2>2. {k + i : i \in buffer \cap {0, 1}}
          = {k + i : i \in buffer \cap {0}} \cup {k + i : i \in buffer \cap {1}}
    OBVIOUS
  <2> HIDE DEF buffer1
  <2> QED
    BY <2>1, <2>2
<1>8. (k + 1) + 1 = k + 2
  OBVIOUS
<1> HIDE DEF buffer1, register1, sent1
<1> QED
  BY <1>3, <1>4, <1>6, <1>7, <1>8, Zenon

LEMMA CodeTwoSteps ==
    ASSUME NEW m \in Nat, NEW data \in SUBSET (0..(m - 1)), NEW e \in Nat,
           NEW register, NEW sent, CodePart(register, sent, data, m, e)
    PROVE  CodePart(ShiftRight(register, 2),
                sent \cup {m + e + i : i \in register \cap {0, 1}}, data, m, e + 2)
<1> DEFINE register1 == ShiftRight(register, 1)
           sent1 == sent \cup {m + e + i : i \in register \cap {0}}
<1>1. register \in SUBSET Nat
  <2>1. PICK h : Trace(h, data, m) /\ register = ShiftRight(h[m], e)
    BY DEF CodePart
  <2>2. h[m] \in SUBSET Nat
    BY <2>1 DEF Trace
  <2> QED
    BY <2>1, <2>2, Shifted
<1>2. CodePart(register1, sent1, data, m, e + 1)
  BY CodeStep
<1>3. CodePart(ShiftRight(register1, 1),
           sent1 \cup {m + (e + 1) + i : i \in register1 \cap {0}}, data, m, (e + 1) + 1)
  <2> HIDE DEF register1, sent1
  <2> QED
    BY <1>2, e + 1 \in Nat, CodeStep
<1>4. ShiftRight(register1, 1) = ShiftRight(register, 2)
  BY <1>1, ShiftedTwice, 1 \in Nat, 1 + 1 = 2
<1>5. 0 \in register1 <=> 1 \in register
  <2>1. 0 \in register1 <=> 0 + 1 \in register
    BY <1>1, Shifted, 0 \in Nat, 1 \in Nat
  <2> QED
    BY <2>1
<1>6. sent1 \cup {m + (e + 1) + i : i \in register1 \cap {0}}
        = sent \cup {m + e + i : i \in register \cap {0, 1}}
  <2>1. {m + (e + 1) + i : i \in register1 \cap {0}} = {m + e + i : i \in register \cap {1}}
    <3>1. m + (e + 1) + 0 = m + e + 1
      OBVIOUS
    <3> HIDE DEF register1
    <3> QED
      BY <1>5, <3>1
  <2>2. {m + e + i : i \in register \cap {0, 1}}
          = {m + e + i : i \in register \cap {0}} \cup {m + e + i : i \in register \cap {1}}
    OBVIOUS
  <2> HIDE DEF register1
  <2> QED
    BY <2>1, <2>2
<1>7. (e + 1) + 1 = e + 2
  OBVIOUS
<1> HIDE DEF register1, sent1
<1> QED
  BY <1>3, <1>4, <1>6, <1>7, Zenon

-----------------------------------------------------------------------------
(* Every variable keeps its type.                                            *)
LEMMA PacketFields ==
    ASSUME NEW q \in Packets PROVE q.sb \in SUBSET (0..55) /\ q.hb \in SUBSET (0..23)
<1>1. q \in [sb : SUBSET (0..55), hb : SUBSET (0..23)]
  BY PacketsAssumption
<1> QED
  BY <1>1

LEMMA ShiftedDown ==
    ASSUME NEW m \in Nat, NEW v \in SUBSET (0..m), NEW n \in Nat
    PROVE  ShiftRight(v, n) \in SUBSET (0..m)
<1>1. /\ ShiftRight(v, n) \in SUBSET Nat
      /\ \A x \in Nat : x \in ShiftRight(v, n) <=> x + n \in v
  BY v \in SUBSET Nat, Shifted
<1>2. ASSUME NEW x \in ShiftRight(v, n) PROVE x \in 0..m
  <2>1. x \in Nat /\ x + n \in 0..m
    BY <1>1
  <2> QED
    BY <2>1
<1> QED
  BY <1>2

LEMMA BchTyped ==
    ASSUME NEW v \in SUBSET (0..7), NEW a PROVE bch(v, 0 \in a) \in SUBSET (0..7)
<1>1. CASE 0 \in a
  <2>1. (0 \in a) = TRUE
    BY <1>1
  <2>2. bch(v, TRUE) \in SUBSET (0..7)
    BY BchStep
  <2> QED
    BY <2>1, <2>2, Zenon
<1>2. CASE 0 \notin a
  <2>1. (0 \in a) = FALSE
    BY <1>2
  <2>2. bch(v, FALSE) \in SUBSET (0..7)
    BY BchStep
  <2> QED
    BY <2>1, <2>2, Zenon
<1> QED
  BY <1>1, <1>2

LEMMA Bch2Typed ==
    ASSUME NEW v \in SUBSET (0..7), NEW a
    PROVE  bch2(v, 0 \in a, 1 \in a) \in SUBSET (0..7)
<1>1. bch(v, 0 \in a) \in SUBSET (0..7)
  BY BchTyped
<1>2. (1 \in a) = (0 \in {i - 1 : i \in a \cap {1}})
  OBVIOUS
<1>3. bch(bch(v, 0 \in a), 0 \in {i - 1 : i \in a \cap {1}}) \in SUBSET (0..7)
  BY <1>1, BchTyped
<1> QED
  BY <1>2, <1>3, Zenon DEF bch2

LEMMA InitTyped == Init => TypeOK
<1> SUFFICES ASSUME Init PROVE TypeOK
  OBVIOUS
<1>1. packet.sb \in SUBSET (0..55) /\ packet.hb \in SUBSET (0..23)
  BY PacketFields DEF Init
<1> QED
  BY <1>1 DEF Init, TypeOK, SequencerInit, STOP_COUNT, Count

LEMMA StepTyped == TypeOK /\ [Next]_eccVars => TypeOK'
<1> SUFFICES ASSUME TypeOK, [Next]_eccVars PROVE TypeOK'
  OBVIOUS
<1>1. CASE UNCHANGED eccVars
  BY <1>1 DEF eccVars, TypeOK
<1>2. CASE Reset
  BY <1>2 DEF Reset, TypeOK, STOP_COUNT, Count
<1>3. ASSUME NEW packetready \in BOOLEAN, Clock(packetready) PROVE TypeOK'
  <2>1. /\ counter \in 0..63 /\ sb \in SUBSET (0..55) /\ hb \in SUBSET (0..23)
        /\ bchSb \in SUBSET (0..7) /\ bchHb \in SUBSET (0..7) /\ packet \in Packets
        /\ sentSb \in SUBSET (0..63) /\ sentHb \in SUBSET (0..31)
    BY DEF TypeOK, Count
  <2>2. /\ counter' \in 0..63 /\ packet' \in Packets
        /\ sb' \in SUBSET (0..55) /\ hb' \in SUBSET (0..23)
    <3>1. CASE LoadPacket
      BY <3>1, PacketFields DEF LoadPacket, AcceptPacket, READY_COUNT
    <3>2. CASE ShiftOut
      <4>1. ShiftRight(sb, 2) \in SUBSET (0..55) /\ ShiftRight(hb, 1) \in SUBSET (0..23)
        BY <2>1, ShiftedDown, 55 \in Nat, 23 \in Nat, 1 \in Nat, 2 \in Nat
      <4> QED
        BY <2>1, <3>2, <4>1 DEF ShiftOut, RunIsland, Increment
    <3>3. CASE RestBuffers(packetready)
      BY <2>1, <3>3 DEF RestBuffers, StartIsland, RunIsland, HoldSequencer, Increment, START_COUNT
    <3> QED
      BY <1>3, <3>1, <3>2, <3>3 DEF Clock
  <2>3. bchSb' \in SUBSET (0..7)
    <3>1. ShiftRight(bchSb, 2) \in SUBSET (0..7)
      BY <2>1, ShiftedDown, 7 \in Nat, 2 \in Nat
    <3>2. bch2(bchSb, 0 \in sb, 1 \in sb) \in SUBSET (0..7)
      BY <2>1, Bch2Typed
    <3>3. \/ bchSb' = {} \/ bchSb' = ShiftRight(bchSb, 2)
          \/ bchSb' = bch2(bchSb, 0 \in sb, 1 \in sb)
      BY <1>3, Zenon DEF Clock, EccEdge
    <3> QED
      BY <3>1, <3>2, <3>3
  <2>4. bchHb' \in SUBSET (0..7)
    <3>1. ShiftRight(bchHb, 1) \in SUBSET (0..7)
      BY <2>1, ShiftedDown, 7 \in Nat, 1 \in Nat
    <3>2. bch(bchHb, 0 \in hb) \in SUBSET (0..7)
      BY <2>1, BchTyped
    <3>3. \/ bchHb' = {} \/ bchHb' = ShiftRight(bchHb, 1)
          \/ bchHb' = bch(bchHb, 0 \in hb)
      BY <1>3, Zenon DEF Clock, EccEdge
    <3> QED
      BY <3>1, <3>2, <3>3
  <2>5. sentSb' \in SUBSET (0..63) /\ sentHb' \in SUBSET (0..31)
    <3>1. CASE ~dataenable
      BY <1>3, <3>1 DEF Clock, ObserveOutput
    <3>2. CASE dataenable
      <4>1. /\ sentSb' = sentSb \cup {2 * (counter - 32) + i : i \in sbOut}
            /\ sentHb' = sentHb \cup {counter - 32 + i : i \in hbOut}
        BY <1>3, <3>2 DEF Clock, ObserveOutput
      <4>2. sbOut \in SUBSET {0, 1} /\ hbOut \in SUBSET {0} /\ counter \in 32..63
        BY <3>2 DEF sbOut, hbOut, dataenable
      <4>3. \A i \in {0, 1} : 2 * (counter - 32) + i \in 0..63
        BY <4>2
      <4>4. counter - 32 + 0 \in 0..31
        BY <4>2
      <4> QED
        <5>1. {2 * (counter - 32) + i : i \in sbOut} \subseteq 0..63
          BY <4>2, <4>3
        <5>2. {counter - 32 + i : i \in hbOut} \subseteq 0..31
          BY <4>2, <4>4
        <5> HIDE <4>2
        <5> QED
          BY <2>1, <4>1, <5>1, <5>2, Zenon
    <3> QED
      BY <3>1, <3>2
  <2> QED
    BY <2>2, <2>3, <2>4, <2>5 DEF TypeOK, Count
<1> QED
  BY <1>1, <1>2, <1>3 DEF Next

(* Buffers, registers and observers keep their widths, resets included.      *)
THEOREM BlockTyped == Spec => []TypeOK
  BY InitTyped, StepTyped, PTL DEF Spec

-----------------------------------------------------------------------------
(* The header block: one bit a clock, 24 of data and 8 of code.              *)
HeaderInv ==
    /\ counter \notin 7..20
    /\ counter \in READY_COUNT..31 => hb = packet.hb
    /\ counter \in 32..56 => DataPart(hb, bchHb, sentHb, packet.hb, counter - 32)
    /\ counter \in 56..63 => CodePart(bchHb, sentHb, packet.hb, 24, counter - 56)
    /\ counter = 0 => CodePart(bchHb, sentHb, packet.hb, 24, 8)

LEMMA HeaderBits ==
    ASSUME TypeOK, HeaderInv, EccEdge, ObserveOutput, ShiftOut PROVE HeaderInv'
<1>1. /\ counter \in 32..63 /\ counter' = Increment(counter)
      /\ hb' = ShiftRight(hb, 1) /\ packet' = packet
      /\ bchHb' = IF counter \in 56..63 THEN ShiftRight(bchHb, 1) ELSE bch(bchHb, 0 \in hb)
      /\ sentHb' = sentHb \cup {counter - 32 + i : i \in hbOut}
  BY DEF ShiftOut, RunIsland, dataenable, EccEdge, ObserveOutput, hbEcc
<1>2. packet.hb \in SUBSET (0..23) /\ packet.hb \in SUBSET Nat
  BY PacketFields DEF TypeOK
<1>3. CASE counter \in 32..55
  <2>1. counter' = counter + 1 /\ counter - 32 \in Nat /\ counter' - 32 = counter - 32 + 1
    BY <1>1, <1>3 DEF Increment
  <2>2. /\ bchHb' = bch(bchHb, 0 \in hb)
        /\ sentHb' = sentHb \cup {counter - 32 + i : i \in hb \cap {0}}
    <3>1. counter \notin 56..63
      BY <1>3
    <3>2. hbOut = hb \cap {0}
      BY <3>1 DEF hbOut, hbEcc
    <3>3. bchHb' = bch(bchHb, 0 \in hb)
      BY <1>1, <3>1, Zenon
    <3> QED
      BY <1>1, <3>2, <3>3, Zenon
  <2>3. DataPart(hb, bchHb, sentHb, packet.hb, counter - 32)
    BY <1>3 DEF HeaderInv
  <2>4. DataPart(ShiftRight(hb, 1), bch(bchHb, 0 \in hb),
             sentHb \cup {counter - 32 + i : i \in hb \cap {0}}, packet.hb, counter - 32 + 1)
    BY <1>2, <2>1, <2>3, DataStep
  <2>5. DataPart(hb', bchHb', sentHb', packet'.hb, counter' - 32)
    BY <1>1, <2>1, <2>2, <2>4, Zenon
  <2>6. counter' = 56 => CodePart(bchHb', sentHb', packet'.hb, 24, counter' - 56)
    <3>1. SUFFICES ASSUME counter' = 56
                   PROVE  CodePart(bchHb', sentHb', packet'.hb, 24, counter' - 56)
      OBVIOUS
    <3>2. counter' - 32 = 24 /\ counter' - 56 = 0 /\ 24 - 1 = 23 /\ 24 \in Nat
      BY <3>1
    <3>3. DataPart(hb', bchHb', sentHb', packet.hb, 24)
      BY <1>1, <2>5, <3>2
    <3>4. CodePart(bchHb', sentHb', packet.hb, 24, 0)
      BY <1>2, <3>2, <3>3, CodeStart
    <3> QED
      BY <1>1, <3>2, <3>4
  <2>7. counter' \in 33..56
    BY <1>3, <2>1
  <2> QED
    BY <2>5, <2>6, <2>7 DEF HeaderInv, READY_COUNT
<1>4. CASE counter \in 56..63
  <2>1. counter - 56 \in Nat /\ counter - 32 = 24 + (counter - 56) /\ 24 \in Nat /\ 24 - 1 = 23
    BY <1>4
  <2>2. /\ bchHb' = ShiftRight(bchHb, 1)
        /\ sentHb' = sentHb \cup {24 + (counter - 56) + i : i \in bchHb \cap {0}}
    <3>1. hbOut = bchHb \cap {0}
      BY <1>4 DEF hbOut, hbEcc
    <3>2. bchHb' = ShiftRight(bchHb, 1)
      BY <1>1, <1>4, Zenon
    <3>3. {counter - 32 + i : i \in hbOut} = {24 + (counter - 56) + i : i \in hbOut}
      BY <2>1
    <3> QED
      BY <1>1, <3>1, <3>2, <3>3, Zenon
  <2>3. CodePart(bchHb, sentHb, packet.hb, 24, counter - 56)
    BY <1>4 DEF HeaderInv
  <2>4. CodePart(ShiftRight(bchHb, 1), sentHb \cup {24 + (counter - 56) + i : i \in bchHb \cap {0}},
             packet.hb, 24, (counter - 56) + 1)
    BY <1>2, <2>1, <2>3, CodeStep
  <2>5. CodePart(bchHb', sentHb', packet'.hb, 24, (counter - 56) + 1)
    BY <1>1, <2>2, <2>4, Zenon
  <2>6. CASE counter = 63
    <3>1. counter' = 0 /\ (counter - 56) + 1 = 8
      BY <1>1, <2>6 DEF Increment
    <3> QED
      BY <2>5, <3>1 DEF HeaderInv, READY_COUNT
  <2>7. CASE counter # 63
    <3>1. /\ counter' \in 57..63
          /\ counter' - 56 = (counter - 56) + 1
      BY <1>1, <1>4, <2>7 DEF Increment
    <3> QED
      BY <2>5, <3>1 DEF HeaderInv, READY_COUNT
  <2> QED
    BY <2>6, <2>7
<1> QED
  BY <1>1, <1>3, <1>4

LEMMA HeaderStep == TypeOK /\ HeaderInv /\ [Next]_eccVars => HeaderInv'
<1> SUFFICES ASSUME TypeOK, HeaderInv, [Next]_eccVars PROVE HeaderInv'
  OBVIOUS
<1>1. CASE UNCHANGED eccVars
  BY <1>1 DEF eccVars, HeaderInv
<1>2. CASE Reset
  BY <1>2 DEF Reset, HeaderInv, STOP_COUNT, READY_COUNT
<1>3. ASSUME NEW packetready \in BOOLEAN, Clock(packetready) PROVE HeaderInv'
  <2>1. CASE LoadPacket
    BY <2>1 DEF LoadPacket, AcceptPacket, HeaderInv, READY_COUNT
  <2>2. CASE ShiftOut
    BY <1>3, <2>2, HeaderBits DEF Clock
  <2>3. CASE RestBuffers(packetready)
    <3>1. counter \in 0..63 /\ counter \notin 32..63 /\ hb' = hb /\ packet' = packet
      BY <2>3 DEF RestBuffers, dataenable, TypeOK, Count
    <3>2. bchHb' = {} /\ sentHb' = {}
      BY <1>3, <3>1 DEF Clock, EccEdge, ObserveOutput, dataenable
    <3>3. counter' \in 1..6 \/ (counter' \in 21..32 /\ counter \in 21..31)
      <4>1. counter \notin 7..20
        BY DEF HeaderInv
      <4>2. CASE StartIsland(packetready)
        BY <4>2 DEF StartIsland, READY_COUNT, START_COUNT
      <4>3. CASE RunIsland
        BY <3>1, <4>1, <4>3 DEF RunIsland, Increment, READY_COUNT, STOP_COUNT
      <4>4. CASE HoldSequencer(FALSE, packetready)
        BY <4>4 DEF HoldSequencer, inReady, READY_COUNT, STOP_COUNT
      <4> QED
        BY <2>3, <4>2, <4>3, <4>4 DEF RestBuffers
    <3>4. CASE counter' \in 1..6
      BY <3>4 DEF HeaderInv, READY_COUNT
    <3>5. CASE counter' \in 21..32 /\ counter \in 21..31
      <4>1. hb' = packet'.hb
        BY <3>1, <3>5 DEF HeaderInv, READY_COUNT
      <4>2. packet'.hb \in SUBSET Nat
        BY <3>1, PacketFields DEF TypeOK
      <4>3. DataPart(hb', bchHb', sentHb', packet'.hb, 0)
        BY <3>2, <4>1, <4>2, DataStart
      <4>4. counter' = 32 => counter' - 32 = 0
        OBVIOUS
      <4> QED
        BY <3>5, <4>1, <4>3, <4>4 DEF HeaderInv, READY_COUNT
    <3> QED
      BY <3>3, <3>4, <3>5
  <2> QED
    BY <1>3, <2>1, <2>2, <2>3 DEF Clock
<1> QED
  BY <1>1, <1>2, <1>3 DEF Next

-----------------------------------------------------------------------------
(* The block of a sub-packet: two bits a clock, 56 of data and 8 of code.    *)
SubPacketInv ==
    /\ counter \notin 7..20
    /\ counter \in READY_COUNT..31 => sb = packet.sb
    /\ counter \in 32..60 => DataPart(sb, bchSb, sentSb, packet.sb, 2 * (counter - 32))
    /\ counter \in 60..63 => CodePart(bchSb, sentSb, packet.sb, 56, 2 * (counter - 60))
    /\ counter = 0 => CodePart(bchSb, sentSb, packet.sb, 56, 8)

LEMMA SubPacketBits ==
    ASSUME TypeOK, SubPacketInv, EccEdge, ObserveOutput, ShiftOut PROVE SubPacketInv'
<1>1. /\ counter \in 32..63 /\ counter' = Increment(counter)
      /\ sb' = ShiftRight(sb, 2) /\ packet' = packet
      /\ bchSb' = IF counter \in 60..63 THEN ShiftRight(bchSb, 2) ELSE bch2(bchSb, 0 \in sb, 1 \in sb)
      /\ sentSb' = sentSb \cup {2 * (counter - 32) + i : i \in sbOut}
  BY DEF ShiftOut, RunIsland, dataenable, EccEdge, ObserveOutput, sbEcc
<1>2. packet.sb \in SUBSET (0..55) /\ packet.sb \in SUBSET Nat
  BY PacketFields DEF TypeOK
<1>3. CASE counter \in 32..59
  <2>1. counter' = counter + 1 /\ 2 * (counter - 32) \in Nat /\ 2 * (counter' - 32) = 2 * (counter - 32) + 2
    BY <1>1, <1>3 DEF Increment
  <2>2. /\ bchSb' = bch2(bchSb, 0 \in sb, 1 \in sb)
        /\ sentSb' = sentSb \cup {2 * (counter - 32) + i : i \in sb \cap {0, 1}}
    <3>1. counter \notin 60..63
      BY <1>3
    <3>2. sbOut = sb \cap {0, 1}
      BY <3>1 DEF sbOut, sbEcc
    <3>3. bchSb' = bch2(bchSb, 0 \in sb, 1 \in sb)
      BY <1>1, <3>1, Zenon
    <3> QED
      BY <1>1, <3>2, <3>3, Zenon
  <2>3. DataPart(sb, bchSb, sentSb, packet.sb, 2 * (counter - 32))
    BY <1>3 DEF SubPacketInv
  <2>4. DataPart(ShiftRight(sb, 2), bch2(bchSb, 0 \in sb, 1 \in sb),
             sentSb \cup {2 * (counter - 32) + i : i \in sb \cap {0, 1}}, packet.sb, 2 * (counter - 32) + 2)
    BY <1>2, <2>1, <2>3, DataTwoSteps
  <2>5. DataPart(sb', bchSb', sentSb', packet'.sb, 2 * (counter' - 32))
    BY <1>1, <2>1, <2>2, <2>4, Zenon
  <2>6. counter' = 60 => CodePart(bchSb', sentSb', packet'.sb, 56, 2 * (counter' - 60))
    <3>1. SUFFICES ASSUME counter' = 60
                   PROVE  CodePart(bchSb', sentSb', packet'.sb, 56, 2 * (counter' - 60))
      OBVIOUS
    <3>2. 2 * (counter' - 32) = 56 /\ 2 * (counter' - 60) = 0 /\ 56 - 1 = 55 /\ 56 \in Nat
      BY <3>1
    <3>3. DataPart(sb', bchSb', sentSb', packet.sb, 56)
      BY <1>1, <2>5, <3>2
    <3>4. CodePart(bchSb', sentSb', packet.sb, 56, 0)
      BY <1>2, <3>2, <3>3, CodeStart
    <3> QED
      BY <1>1, <3>2, <3>4
  <2>7. counter' \in 33..60
    BY <1>3, <2>1
  <2> QED
    BY <2>5, <2>6, <2>7 DEF SubPacketInv, READY_COUNT
<1>4. CASE counter \in 60..63
  <2>1. 2 * (counter - 60) \in Nat /\ 2 * (counter - 32) = 56 + (2 * (counter - 60)) /\ 56 \in Nat /\ 56 - 1 = 55
    BY <1>4
  <2>2. /\ bchSb' = ShiftRight(bchSb, 2)
        /\ sentSb' = sentSb \cup {56 + (2 * (counter - 60)) + i : i \in bchSb \cap {0, 1}}
    <3>1. sbOut = bchSb \cap {0, 1}
      BY <1>4 DEF sbOut, sbEcc
    <3>2. bchSb' = ShiftRight(bchSb, 2)
      BY <1>1, <1>4, Zenon
    <3>3. {2 * (counter - 32) + i : i \in sbOut} = {56 + (2 * (counter - 60)) + i : i \in sbOut}
      BY <2>1
    <3> QED
      BY <1>1, <3>1, <3>2, <3>3, Zenon
  <2>3. CodePart(bchSb, sentSb, packet.sb, 56, 2 * (counter - 60))
    BY <1>4 DEF SubPacketInv
  <2>4. CodePart(ShiftRight(bchSb, 2), sentSb \cup {56 + (2 * (counter - 60)) + i : i \in bchSb \cap {0, 1}},
             packet.sb, 56, (2 * (counter - 60)) + 2)
    BY <1>2, <2>1, <2>3, CodeTwoSteps
  <2>5. CodePart(bchSb', sentSb', packet'.sb, 56, (2 * (counter - 60)) + 2)
    BY <1>1, <2>2, <2>4, Zenon
  <2>6. CASE counter = 63
    <3>1. counter' = 0 /\ (2 * (counter - 60)) + 2 = 8
      BY <1>1, <2>6 DEF Increment
    <3> QED
      BY <2>5, <3>1 DEF SubPacketInv, READY_COUNT
  <2>7. CASE counter # 63
    <3>1. /\ counter' \in 61..63
          /\ 2 * (counter' - 60) = (2 * (counter - 60)) + 2
      BY <1>1, <1>4, <2>7 DEF Increment
    <3> QED
      BY <2>5, <3>1 DEF SubPacketInv, READY_COUNT
  <2> QED
    BY <2>6, <2>7
<1> QED
  BY <1>1, <1>3, <1>4

LEMMA SubPacketStep == TypeOK /\ SubPacketInv /\ [Next]_eccVars => SubPacketInv'
<1> SUFFICES ASSUME TypeOK, SubPacketInv, [Next]_eccVars PROVE SubPacketInv'
  OBVIOUS
<1>1. CASE UNCHANGED eccVars
  BY <1>1 DEF eccVars, SubPacketInv
<1>2. CASE Reset
  BY <1>2 DEF Reset, SubPacketInv, STOP_COUNT, READY_COUNT
<1>3. ASSUME NEW packetready \in BOOLEAN, Clock(packetready) PROVE SubPacketInv'
  <2>1. CASE LoadPacket
    BY <2>1 DEF LoadPacket, AcceptPacket, SubPacketInv, READY_COUNT
  <2>2. CASE ShiftOut
    BY <1>3, <2>2, SubPacketBits DEF Clock
  <2>3. CASE RestBuffers(packetready)
    <3>1. counter \in 0..63 /\ counter \notin 32..63 /\ sb' = sb /\ packet' = packet
      BY <2>3 DEF RestBuffers, dataenable, TypeOK, Count
    <3>2. bchSb' = {} /\ sentSb' = {}
      BY <1>3, <3>1 DEF Clock, EccEdge, ObserveOutput, dataenable
    <3>3. counter' \in 1..6 \/ (counter' \in 21..32 /\ counter \in 21..31)
      <4>1. counter \notin 7..20
        BY DEF SubPacketInv
      <4>2. CASE StartIsland(packetready)
        BY <4>2 DEF StartIsland, READY_COUNT, START_COUNT
      <4>3. CASE RunIsland
        BY <3>1, <4>1, <4>3 DEF RunIsland, Increment, READY_COUNT, STOP_COUNT
      <4>4. CASE HoldSequencer(FALSE, packetready)
        BY <4>4 DEF HoldSequencer, inReady, READY_COUNT, STOP_COUNT
      <4> QED
        BY <2>3, <4>2, <4>3, <4>4 DEF RestBuffers
    <3>4. CASE counter' \in 1..6
      BY <3>4 DEF SubPacketInv, READY_COUNT
    <3>5. CASE counter' \in 21..32 /\ counter \in 21..31
      <4>1. sb' = packet'.sb
        BY <3>1, <3>5 DEF SubPacketInv, READY_COUNT
      <4>2. packet'.sb \in SUBSET Nat
        BY <3>1, PacketFields DEF TypeOK
      <4>3. DataPart(sb', bchSb', sentSb', packet'.sb, 0)
        BY <3>2, <4>1, <4>2, DataStart
      <4>4. counter' = 32 => 2 * (counter' - 32) = 0
        OBVIOUS
      <4> QED
        BY <3>5, <4>1, <4>3, <4>4 DEF SubPacketInv, READY_COUNT
    <3> QED
      BY <3>3, <3>4, <3>5
  <2> QED
    BY <1>3, <2>1, <2>2, <2>3 DEF Clock
<1> QED
  BY <1>1, <1>2, <1>3 DEF Next

-----------------------------------------------------------------------------
(* When the data of an island has passed, both blocks have been sent in full *)
(* and are words of their codes - for every packet.                          *)
BlocksInv == TypeOK /\ HeaderInv /\ SubPacketInv

LEMMA InitBlocks == Init => BlocksInv
  BY InitTyped DEF Init, BlocksInv, SequencerInit, STOP_COUNT, READY_COUNT, HeaderInv, SubPacketInv

LEMMA NextBlocks == BlocksInv /\ [Next]_eccVars => BlocksInv'
  BY StepTyped, HeaderStep, SubPacketStep DEF BlocksInv

LEMMA BlocksAreCodewords == BlocksInv => IslandIsCodeword
<1> SUFFICES ASSUME BlocksInv, counter = 0
             PROVE  /\ sentSb \cap (0..55) = packet.sb /\ Remainder(sentSb, 64) = {}
                    /\ sentHb \cap (0..23) = packet.hb /\ Remainder(sentHb, 32) = {}
  BY DEF IslandIsCodeword
<1>1. packet.sb \in SUBSET (0..55) /\ packet.hb \in SUBSET (0..23)
  BY PacketFields DEF BlocksInv, TypeOK
<1>2. CodePart(bchSb, sentSb, packet.sb, 56, 8) /\ CodePart(bchHb, sentHb, packet.hb, 24, 8)
  BY DEF BlocksInv, HeaderInv, SubPacketInv
<1>3. sentSb \cap (0..55) = packet.sb /\ Remainder(sentSb, 64) = {}
  <2>1. 56 - 1 = 55 /\ 56 + 8 = 64 /\ 56 \in Nat
    OBVIOUS
  <2>2. packet.sb \in SUBSET (0..(56 - 1))
    BY <1>1, <2>1
  <2>3. sentSb \cap (0..(56 - 1)) = packet.sb /\ Remainder(sentSb, 56 + 8) = {}
    BY <1>2, <2>1, <2>2, CodeEnd
  <2> QED
    BY <2>1, <2>3
<1>4. sentHb \cap (0..23) = packet.hb /\ Remainder(sentHb, 32) = {}
  <2>1. 24 - 1 = 23 /\ 24 + 8 = 32 /\ 24 \in Nat
    OBVIOUS
  <2>2. packet.hb \in SUBSET (0..(24 - 1))
    BY <1>1, <2>1
  <2>3. sentHb \cap (0..(24 - 1)) = packet.hb /\ Remainder(sentHb, 24 + 8) = {}
    BY <1>2, <2>1, <2>2, CodeEnd
  <2> QED
    BY <2>1, <2>3
<1> QED
  BY <1>3, <1>4

(* The header and the sub-packet of an island leave whole and followed by    *)
(* the check bits that a sink's division expects, whatever the packet is and *)
(* whatever was sent before.                                                 *)
THEOREM IslandsAreCodewords == Spec => []IslandIsCodeword
  BY InitBlocks, NextBlocks, BlocksAreCodewords, PTL DEF Spec

-----------------------------------------------------------------------------
(* What MapThenSumSet computes: the sum of the terms, in whatever order.     *)
Term(b, s, i) == IF i \in s THEN b[i] ELSE 0

Total(b, s) ==
    Term(b, s, 0) + (Term(b, s, 1) + (Term(b, s, 2) + (Term(b, s, 3) + (Term(b, s, 4)
      + (Term(b, s, 5) + (Term(b, s, 6) + (Term(b, s, 7) + (Term(b, s, 8) + Term(b, s, 9)))))))))

SumStep(f, b, S) ==
    [s \in SUBSET S |->
        IF s = {} THEN 0
        ELSE LET x == CHOOSE y \in s : TRUE IN b[x] + f[s \ {x}]]

LEMMA TermsAreInt ==
    ASSUME NEW b, NEW s, \A i \in s : b[i] \in Int
    PROVE  (\A i : Term(b, s, i) \in Int) /\ Total(b, s) \in Int
<1>1. ASSUME NEW i PROVE Term(b, s, i) \in Int
  BY DEF Term
<1> QED
  BY <1>1 DEF Total

\* The tails of a sum.
LEMMA TotalStep ==
    ASSUME NEW b, NEW s \in SUBSET (0..9), \A i \in s : b[i] \in Int, NEW x \in s
    PROVE  Total(b, s) = b[x] + Total(b, s \ {x})
<1> DEFINE r == s \ {x}
<1>1. ASSUME NEW i PROVE Term(b, s, i) \in Int /\ Term(b, r, i) \in Int
  <2>1. Term(b, s, i) \in Int
    BY TermsAreInt
  <2>2. \A j \in r : b[j] \in Int
    OBVIOUS
  <2> HIDE DEF r
  <2>3. Term(b, r, i) \in Int
    BY <2>2, TermsAreInt
  <2> QED
    BY <2>1, <2>3
<1>2. ASSUME NEW i, i # x PROVE Term(b, r, i) = Term(b, s, i)
  BY <1>2 DEF Term
<1>3. Term(b, r, x) = 0 /\ Term(b, s, x) = b[x] /\ b[x] \in Int
  BY DEF Term
<1> HIDE DEF r
<1> DEFINE T9(v) == Term(b, v, 9)
           T8(v) == Term(b, v, 8) + T9(v)
           T7(v) == Term(b, v, 7) + T8(v)
           T6(v) == Term(b, v, 6) + T7(v)
           T5(v) == Term(b, v, 5) + T6(v)
           T4(v) == Term(b, v, 4) + T5(v)
           T3(v) == Term(b, v, 3) + T4(v)
           T2(v) == Term(b, v, 2) + T3(v)
           T1(v) == Term(b, v, 1) + T2(v)
           T0(v) == Term(b, v, 0) + T1(v)
<1>4. Total(b, s) = T0(s) /\ Total(b, r) = T0(r)
  BY DEF Total
<1>5. /\ T9(s) \in Int /\ T9(r) \in Int
      /\ T9(s) = IF x = 9 THEN b[x] + T9(r) ELSE T9(r)
  BY <1>1, <1>2, <1>3
<1> HIDE DEF T9
<1>6. /\ T8(s) \in Int /\ T8(r) \in Int
      /\ T8(s) = IF x >= 8 THEN b[x] + T8(r) ELSE T8(r)
  <2>1. x \in Int /\ (x >= 8 <=> (x = 8 \/ x >= 9))
    OBVIOUS
  <2>2. Term(b, s, 8) = IF x = 8 THEN b[x] + Term(b, r, 8) ELSE Term(b, r, 8)
    BY <1>1, <1>2, <1>3
  <2>3. T9(s) = IF x >= 9 THEN b[x] + T9(r) ELSE T9(r)
    BY <1>5
  <2> QED
    BY <1>1, <1>3, <1>5, <2>1, <2>2, <2>3
<1> HIDE DEF T8
<1>7. /\ T7(s) \in Int /\ T7(r) \in Int
      /\ T7(s) = IF x >= 7 THEN b[x] + T7(r) ELSE T7(r)
  <2>1. x \in Int /\ (x >= 7 <=> (x = 7 \/ x >= 8))
    OBVIOUS
  <2>2. Term(b, s, 7) = IF x = 7 THEN b[x] + Term(b, r, 7) ELSE Term(b, r, 7)
    BY <1>1, <1>2, <1>3
  <2> QED
    BY <1>1, <1>3, <1>6, <2>1, <2>2
<1> HIDE DEF T7
<1>8. /\ T6(s) \in Int /\ T6(r) \in Int
      /\ T6(s) = IF x >= 6 THEN b[x] + T6(r) ELSE T6(r)
  <2>1. x \in Int /\ (x >= 6 <=> (x = 6 \/ x >= 7))
    OBVIOUS
  <2>2. Term(b, s, 6) = IF x = 6 THEN b[x] + Term(b, r, 6) ELSE Term(b, r, 6)
    BY <1>1, <1>2, <1>3
  <2> QED
    BY <1>1, <1>3, <1>7, <2>1, <2>2
<1> HIDE DEF T6
<1>9. /\ T5(s) \in Int /\ T5(r) \in Int
      /\ T5(s) = IF x >= 5 THEN b[x] + T5(r) ELSE T5(r)
  <2>1. x \in Int /\ (x >= 5 <=> (x = 5 \/ x >= 6))
    OBVIOUS
  <2>2. Term(b, s, 5) = IF x = 5 THEN b[x] + Term(b, r, 5) ELSE Term(b, r, 5)
    BY <1>1, <1>2, <1>3
  <2> QED
    BY <1>1, <1>3, <1>8, <2>1, <2>2
<1> HIDE DEF T5
<1>10. /\ T4(s) \in Int /\ T4(r) \in Int
      /\ T4(s) = IF x >= 4 THEN b[x] + T4(r) ELSE T4(r)
  <2>1. x \in Int /\ (x >= 4 <=> (x = 4 \/ x >= 5))
    OBVIOUS
  <2>2. Term(b, s, 4) = IF x = 4 THEN b[x] + Term(b, r, 4) ELSE Term(b, r, 4)
    BY <1>1, <1>2, <1>3
  <2> QED
    BY <1>1, <1>3, <1>9, <2>1, <2>2
<1> HIDE DEF T4
<1>11. /\ T3(s) \in Int /\ T3(r) \in Int
      /\ T3(s) = IF x >= 3 THEN b[x] + T3(r) ELSE T3(r)
  <2>1. x \in Int /\ (x >= 3 <=> (x = 3 \/ x >= 4))
    OBVIOUS
  <2>2. Term(b, s, 3) = IF x = 3 THEN b[x] + Term(b, r, 3) ELSE Term(b, r, 3)
    BY <1>1, <1>2, <1>3
  <2> QED
    BY <1>1, <1>3, <1>10, <2>1, <2>2
<1> HIDE DEF T3
<1>12. /\ T2(s) \in Int /\ T2(r) \in Int
      /\ T2(s) = IF x >= 2 THEN b[x] + T2(r) ELSE T2(r)
  <2>1. x \in Int /\ (x >= 2 <=> (x = 2 \/ x >= 3))
    OBVIOUS
  <2>2. Term(b, s, 2) = IF x = 2 THEN b[x] + Term(b, r, 2) ELSE Term(b, r, 2)
    BY <1>1, <1>2, <1>3
  <2> QED
    BY <1>1, <1>3, <1>11, <2>1, <2>2
<1> HIDE DEF T2
<1>13. /\ T1(s) \in Int /\ T1(r) \in Int
      /\ T1(s) = IF x >= 1 THEN b[x] + T1(r) ELSE T1(r)
  <2>1. x \in Int /\ (x >= 1 <=> (x = 1 \/ x >= 2))
    OBVIOUS
  <2>2. Term(b, s, 1) = IF x = 1 THEN b[x] + Term(b, r, 1) ELSE Term(b, r, 1)
    BY <1>1, <1>2, <1>3
  <2> QED
    BY <1>1, <1>3, <1>12, <2>1, <2>2
<1> HIDE DEF T1
<1>14. /\ T0(s) \in Int /\ T0(r) \in Int
      /\ T0(s) = IF x >= 0 THEN b[x] + T0(r) ELSE T0(r)
  <2>1. x \in Int /\ (x >= 0 <=> (x = 0 \/ x >= 1))
    OBVIOUS
  <2>2. Term(b, s, 0) = IF x = 0 THEN b[x] + Term(b, r, 0) ELSE Term(b, r, 0)
    BY <1>1, <1>2, <1>3
  <2> QED
    BY <1>1, <1>3, <1>13, <2>1, <2>2
<1> HIDE DEF T0
<1> QED
  BY <1>4, <1>14 DEF r

LEMMA NoTerms == ASSUME NEW b PROVE Total(b, {}) = 0
  BY DEF Total, Term

LEMMA SumIsTotal ==
    ASSUME NEW S \in SUBSET (0..9), NEW b, \A i \in S : b[i] \in Int,
           NEW f, f = SumStep(f, b, S)
    PROVE  f[S] = Total(b, S)
<1> DEFINE T == {n \in Nat : \E s \in SUBSET S : Cardinality(s) = n /\ f[s] # Total(b, s)}
<1>1. ASSUME NEW s \in SUBSET S PROVE IsFiniteSet(s) /\ Cardinality(s) \in Nat
  BY FS_Interval, FS_Subset, FS_CardinalityType, 0 \in Int, 9 \in Int
<1>2. ASSUME T # {} PROVE FALSE
  <2>1. PICK n \in T : \A m \in T : n <= m
    BY <1>2, LeastNumber
  <2>2. PICK s \in SUBSET S : Cardinality(s) = n /\ f[s] # Total(b, s)
    OBVIOUS
  <2>3. CASE s = {}
    BY <2>2, <2>3, NoTerms DEF SumStep
  <2>4. CASE s # {}
    <3> DEFINE x == CHOOSE y \in s : TRUE
               r == s \ {x}
    <3>1. x \in s
      BY <2>4
    <3>2. f[s] = b[x] + f[r]
      BY <2>4, Zenon DEF SumStep
    <3> HIDE DEF x
    <3>3. IsFiniteSet(s) /\ Cardinality(r) = Cardinality(s) - 1 /\ r \in SUBSET S
      BY <1>1, <3>1, FS_RemoveElement
    <3>4. Cardinality(r) \in Nat /\ ~(n <= Cardinality(r))
      BY <1>1, <2>2, <3>3
    <3>5. f[r] = Total(b, r)
      BY <2>1, <3>3, <3>4
    <3>6. Total(b, s) = b[x] + Total(b, r)
      <4>1. s \in SUBSET (0..9) /\ \A i \in s : b[i] \in Int
        OBVIOUS
      <4> QED
        BY <3>1, <4>1, TotalStep
    <3> QED
      BY <2>2, <3>2, <3>5, <3>6
  <2> QED
    BY <2>3, <2>4
<1>3. ASSUME f[S] # Total(b, S) PROVE FALSE
  <2>1. Cardinality(S) \in T
    BY <1>1, <1>3
  <2> QED
    BY <1>2, <2>1
<1> QED
  BY <1>3

LEMMA SumExists ==
    ASSUME NEW S \in SUBSET (0..9), NEW b, \A i \in S : b[i] \in Int
    PROVE  \E f : f = SumStep(f, b, S)
<1> DEFINE f == [s \in SUBSET S |-> Total(b, s)]
<1>1. ASSUME NEW s \in SUBSET S
      PROVE  f[s] = IF s = {} THEN 0
                    ELSE LET x == CHOOSE y \in s : TRUE IN b[x] + f[s \ {x}]
  <2>1. CASE s = {}
    BY <2>1, NoTerms
  <2>2. CASE s # {}
    <3> DEFINE x == CHOOSE y \in s : TRUE
    <3>1. x \in s
      BY <2>2
    <3> HIDE DEF x
    <3>2. s \in SUBSET (0..9) /\ (\A i \in s : b[i] \in Int) /\ s \ {x} \in SUBSET S
      OBVIOUS
    <3>3. f[s] = b[x] + f[s \ {x}]
      BY <3>1, <3>2, TotalStep
    <3> QED
      BY <2>2, <3>3 DEF x
  <2> QED
    BY <2>1, <2>2
<1>2. f = SumStep(f, b, S)
  <2>1. f = [s \in SUBSET S |-> f[s]]
    OBVIOUS
  <2> HIDE DEF f
  <2> QED
    BY <1>1, <2>1, Zenon DEF SumStep
<1> QED
  BY <1>2

LEMMA SumOfBytes ==
    ASSUME NEW b, DOMAIN b \in SUBSET (0..9), \A i \in DOMAIN b : b[i] \in Int
    PROVE  SumOf(b) = Total(b, DOMAIN b)
<1>1. PICK f : f = SumStep(f, b, DOMAIN b)
  BY SumExists
<1>2. PICK g : g = SumStep(g, b, DOMAIN b) /\ SumOf(b) = g[DOMAIN b]
  BY <1>1 DEF SumStep, SumOf, MapThenSumSet, MapThenFoldSet
<1> QED
  BY <1>2, SumIsTotal

-----------------------------------------------------------------------------
(* A byte that arrives is the byte that was sent.                            *)
Digit(n, p) == (n \div p) % 2

Weights(sent, k) == [j \in 0..7 |-> IF 8 * k + j \in sent THEN 2^j ELSE 0]

BitSumStep(f, sent, k) ==
    [s \in SUBSET (0..7) |->
        IF s = {} THEN 0
        ELSE LET x == CHOOSE y \in s : TRUE
             IN  (IF 8 * k + x \in sent THEN 2^x ELSE 0) + f[s \ {x}]]

LEMMA Powers ==
    /\ 2^0 = 1 /\ 2^1 = 2 /\ 2^2 = 4 /\ 2^3 = 8 /\ 2^4 = 16 /\ 2^5 = 32 /\ 2^6 = 64 /\ 2^7 = 128
    /\ \A j \in 0..7 : 2^j \in Int
<1>1. /\ 2^0 = 1 /\ 2^1 = 2 /\ 2^2 = 4 /\ 2^3 = 8 /\ 2^4 = 16 /\ 2^5 = 32 /\ 2^6 = 64 /\ 2^7 = 128
  OBVIOUS
<1>2. ASSUME NEW j \in 0..7 PROVE 2^j \in Int
  <2>1. j = 0 \/ j = 1 \/ j = 2 \/ j = 3 \/ j = 4 \/ j = 5 \/ j = 6 \/ j = 7
    OBVIOUS
  <2> QED
    BY <1>1, <2>1
<1> QED
  BY <1>1, <1>2

LEMMA SameSteps ==
    ASSUME NEW f, NEW sent, NEW k PROVE SumStep(f, Weights(sent, k), 0..7) = BitSumStep(f, sent, k)
<1>1. ASSUME NEW s \in SUBSET (0..7), s # {}
      PROVE  LET x == CHOOSE y \in s : TRUE
             IN  Weights(sent, k)[x] = IF 8 * k + x \in sent THEN 2^x ELSE 0
  <2> DEFINE x == CHOOSE y \in s : TRUE
  <2>1. x \in s
    BY <1>1
  <2> HIDE DEF x
  <2>2. Weights(sent, k)[x] = IF 8 * k + x \in sent THEN 2^x ELSE 0
    BY <2>1, Zenon DEF Weights
  <2> QED
    BY <2>2 DEF x
<1>2. ASSUME NEW s \in SUBSET (0..7)
      PROVE  (IF s = {} THEN 0
              ELSE LET x == CHOOSE y \in s : TRUE IN Weights(sent, k)[x] + f[s \ {x}])
           = (IF s = {} THEN 0
              ELSE LET x == CHOOSE y \in s : TRUE
                   IN  (IF 8 * k + x \in sent THEN 2^x ELSE 0) + f[s \ {x}])
  <2>1. CASE s = {}
    BY <2>1
  <2>2. CASE s # {}
    <3> DEFINE x == CHOOSE y \in s : TRUE
               added == IF 8 * k + x \in sent THEN 2^x ELSE 0
    <3>1. Weights(sent, k)[x] = added
      BY <1>1, <2>2, Zenon
    <3>2. Weights(sent, k)[x] + f[s \ {x}] = added + f[s \ {x}]
      <4> HIDE DEF added, x
      <4> QED
        BY <3>1, Zenon
    <3> QED
      BY <2>2, <3>2, Zenon
  <2> QED
    BY <2>1, <2>2
<1> QED
  BY <1>2, Zenon DEF SumStep, BitSumStep

LEMMA ByteIsTotal ==
    ASSUME NEW sent, NEW k PROVE ByteAt(sent, k) = Total(Weights(sent, k), 0..7)
<1>1. 0..7 \in SUBSET (0..9)
  OBVIOUS
<1>2. ASSUME NEW j \in 0..7 PROVE Weights(sent, k)[j] \in Int
  <2>1. Weights(sent, k)[j] = IF 8 * k + j \in sent THEN 2^j ELSE 0
    BY Zenon DEF Weights
  <2> QED
    BY <2>1, Powers
<1>3. PICK f : f = SumStep(f, Weights(sent, k), 0..7)
  BY <1>1, <1>2, SumExists
<1>4. f = BitSumStep(f, sent, k)
  BY <1>3, SameSteps
<1>5. PICK g : g = BitSumStep(g, sent, k) /\ ByteAt(sent, k) = g[0..7]
  BY <1>4 DEF BitSumStep, ByteAt, MapThenSumSet, MapThenFoldSet
<1>6. g = SumStep(g, Weights(sent, k), 0..7)
  BY <1>5, SameSteps
<1> QED
  BY <1>1, <1>2, <1>5, <1>6, SumIsTotal

LEMMA ByteOfDigits ==
    ASSUME NEW n \in 0..255, NEW sent, NEW k \in Nat,
           \A j \in 0..7 : 8 * k + j \in sent <=> Digit(n, 2^j) = 1
    PROVE  ByteAt(sent, k) = n
<1> DEFINE w == Weights(sent, k)
           half(p) == n \div p
<1>1. ASSUME NEW p \in 1..128 PROVE half(p) \in Nat /\ Digit(n, p) \in 0..1
  <2>1. n \div p \in Nat
    OBVIOUS
  <2>2. \A m \in Nat : m % 2 \in 0..1
    OBVIOUS
  <2> QED
    BY <2>1, <2>2 DEF Digit
<1>2. half(1) = 2 * half(2) + Digit(n, 1)
  BY DEF Digit
<1>3. half(2) = 2 * half(4) + Digit(n, 2)
  BY DEF Digit
<1>4. half(4) = 2 * half(8) + Digit(n, 4)
  BY DEF Digit
<1>5. half(8) = 2 * half(16) + Digit(n, 8)
  BY DEF Digit
<1>6. half(16) = 2 * half(32) + Digit(n, 16)
  BY DEF Digit
<1>7. half(32) = 2 * half(64) + Digit(n, 32)
  BY DEF Digit
<1>8. half(64) = 2 * half(128) + Digit(n, 64)
  BY DEF Digit
<1>9. half(128) = Digit(n, 128) /\ half(1) = n
  BY DEF Digit
<1>10. ASSUME NEW j \in 0..7, NEW p \in 1..128, p = 2^j
      PROVE  w[j] = p * Digit(n, p)
  <2>1. w[j] = IF 8 * k + j \in sent THEN p ELSE 0
    BY <1>10, Zenon DEF Weights
  <2>2. 8 * k + j \in sent <=> Digit(n, p) = 1
    BY <1>10
  <2>3. Digit(n, p) = 0 \/ Digit(n, p) = 1
    BY <1>1
  <2> HIDE DEF w
  <2> QED
    BY <2>1, <2>2, <2>3
<1> HIDE DEF w, half
<1> DEFINE r8 == Term(w, 0..7, 8) + Term(w, 0..7, 9)
           r7 == Term(w, 0..7, 7) + r8
           r6 == Term(w, 0..7, 6) + r7
           r5 == Term(w, 0..7, 5) + r6
           r4 == Term(w, 0..7, 4) + r5
           r3 == Term(w, 0..7, 3) + r4
           r2 == Term(w, 0..7, 2) + r3
           r1 == Term(w, 0..7, 1) + r2
           r0 == Term(w, 0..7, 0) + r1
<1>11. Total(w, 0..7) = r0
  BY DEF Total
<1>12. r8 = 0
  BY DEF Term
<1> HIDE DEF r8
<1>13. r7 = 128 * half(128)
  <2>1. Term(w, 0..7, 7) = w[7]
    BY DEF Term
  <2>2. w[7] = 128 * Digit(n, 128)
    BY <1>10, Powers, 7 \in 0..7, 128 \in 1..128
  <2>3. half(128) \in Nat /\ Digit(n, 128) \in 0..1
    BY <1>1, 128 \in 1..128
  <2> QED
    BY <1>9, <1>12, <2>1, <2>2, <2>3
<1> HIDE DEF r7
<1>14. r6 = 64 * half(64)
  <2>1. Term(w, 0..7, 6) = w[6]
    BY DEF Term
  <2>2. w[6] = 64 * Digit(n, 64)
    BY <1>10, Powers, 6 \in 0..7, 64 \in 1..128
  <2>3. half(64) \in Nat /\ half(128) \in Nat /\ Digit(n, 64) \in 0..1
    BY <1>1, 64 \in 1..128, 128 \in 1..128
  <2> QED
    BY <1>8, <1>13, <2>1, <2>2, <2>3
<1> HIDE DEF r6
<1>15. r5 = 32 * half(32)
  <2>1. Term(w, 0..7, 5) = w[5]
    BY DEF Term
  <2>2. w[5] = 32 * Digit(n, 32)
    BY <1>10, Powers, 5 \in 0..7, 32 \in 1..128
  <2>3. half(32) \in Nat /\ half(64) \in Nat /\ Digit(n, 32) \in 0..1
    BY <1>1, 32 \in 1..128, 64 \in 1..128
  <2> QED
    BY <1>7, <1>14, <2>1, <2>2, <2>3
<1> HIDE DEF r5
<1>16. r4 = 16 * half(16)
  <2>1. Term(w, 0..7, 4) = w[4]
    BY DEF Term
  <2>2. w[4] = 16 * Digit(n, 16)
    BY <1>10, Powers, 4 \in 0..7, 16 \in 1..128
  <2>3. half(16) \in Nat /\ half(32) \in Nat /\ Digit(n, 16) \in 0..1
    BY <1>1, 16 \in 1..128, 32 \in 1..128
  <2> QED
    BY <1>6, <1>15, <2>1, <2>2, <2>3
<1> HIDE DEF r4
<1>17. r3 = 8 * half(8)
  <2>1. Term(w, 0..7, 3) = w[3]
    BY DEF Term
  <2>2. w[3] = 8 * Digit(n, 8)
    BY <1>10, Powers, 3 \in 0..7, 8 \in 1..128
  <2>3. half(8) \in Nat /\ half(16) \in Nat /\ Digit(n, 8) \in 0..1
    BY <1>1, 8 \in 1..128, 16 \in 1..128
  <2> QED
    BY <1>5, <1>16, <2>1, <2>2, <2>3
<1> HIDE DEF r3
<1>18. r2 = 4 * half(4)
  <2>1. Term(w, 0..7, 2) = w[2]
    BY DEF Term
  <2>2. w[2] = 4 * Digit(n, 4)
    BY <1>10, Powers, 2 \in 0..7, 4 \in 1..128
  <2>3. half(4) \in Nat /\ half(8) \in Nat /\ Digit(n, 4) \in 0..1
    BY <1>1, 4 \in 1..128, 8 \in 1..128
  <2> QED
    BY <1>4, <1>17, <2>1, <2>2, <2>3
<1> HIDE DEF r2
<1>19. r1 = 2 * half(2)
  <2>1. Term(w, 0..7, 1) = w[1]
    BY DEF Term
  <2>2. w[1] = 2 * Digit(n, 2)
    BY <1>10, Powers, 1 \in 0..7, 2 \in 1..128
  <2>3. half(2) \in Nat /\ half(4) \in Nat /\ Digit(n, 2) \in 0..1
    BY <1>1, 2 \in 1..128, 4 \in 1..128
  <2> QED
    BY <1>3, <1>18, <2>1, <2>2, <2>3
<1> HIDE DEF r1
<1>20. r0 = 1 * half(1)
  <2>1. Term(w, 0..7, 0) = w[0]
    BY DEF Term
  <2>2. w[0] = 1 * Digit(n, 1)
    BY <1>10, Powers, 0 \in 0..7, 1 \in 1..128
  <2>3. half(1) \in Nat /\ half(2) \in Nat /\ Digit(n, 1) \in 0..1
    BY <1>1, 1 \in 1..128, 2 \in 1..128
  <2> QED
    BY <1>2, <1>19, <2>1, <2>2, <2>3
<1> HIDE DEF r0
<1>21. Total(w, 0..7) = n
  BY <1>9, <1>11, <1>20
<1> QED
  BY <1>21, ByteIsTotal DEF w

LEMMA BitOfBytes ==
    ASSUME NEW b, Len(b) \in Nat, NEW k \in Nat, k < Len(b), NEW j \in 0..7
    PROVE  8 * k + j \in BitsOf(b) <=> Digit(b[k + 1], 2^j) = 1
<1> DEFINE n == 8 * k + j
<1>1. n \in 0..(8 * Len(b) - 1) /\ n \div 8 = k /\ n % 8 = j
  OBVIOUS
<1> HIDE DEF n
<1>2. n \in BitsOf(b) <=> Digit(b[k + 1], 2^j) = 1
  BY <1>1, Zenon DEF BitsOf, Digit
<1> QED
  BY <1>2 DEF n

LEMMA ByteArrives ==
    ASSUME NEW b, Len(b) \in Nat, NEW k \in Nat, k < Len(b), b[k + 1] \in 0..255,
           NEW sent, sent \cap (0..(8 * Len(b) - 1)) = BitsOf(b)
    PROVE  ByteAt(sent, k) = b[k + 1]
<1>1. ASSUME NEW j \in 0..7 PROVE 8 * k + j \in sent <=> Digit(b[k + 1], 2^j) = 1
  <2>1. 8 * k + j \in 0..(8 * Len(b) - 1)
    OBVIOUS
  <2>2. 8 * k + j \in BitsOf(b) <=> Digit(b[k + 1], 2^j) = 1
    BY BitOfBytes
  <2> QED
    BY <2>1, <2>2
<1> QED
  BY <1>1, ByteOfDigits

\* The bytes of a packet of the table.
IsBytes(b, n) == Len(b) = n /\ DOMAIN b = 1..n /\ \A i \in 1..n : b[i] \in 0..255

LEMMA BytesAreInts ==
    ASSUME NEW b, NEW n, IsBytes(b, n)
    PROVE  DOMAIN b = 1..n /\ \A i \in 1..n : b[i] \in Int
<1>1. DOMAIN b = 1..n /\ \A i \in 1..n : b[i] \in 0..255
  BY DEF IsBytes
<1>2. \A k \in 0..255 : k \in Int
  OBVIOUS
<1> QED
  BY <1>1, <1>2

LEMMA PacketArrives ==
    ASSUME NEW pb, IsBytes(pb, 7), NEW header, IsBytes(header, 3),
           sentSb \cap (0..55) = BitsOf(pb), sentHb \cap (0..23) = BitsOf(header)
    PROVE  /\ \A i \in 1..7 : receivedBytes[i] = pb[i]
           /\ \A i \in 1..3 : receivedHeader[i] = header[i]
<1>1. ASSUME NEW i \in 1..7 PROVE receivedBytes[i] = pb[i]
  <2>1. receivedBytes[i] = ByteAt(sentSb, i - 1)
    BY Zenon DEF receivedBytes
  <2>2. /\ i - 1 \in Nat /\ i - 1 < Len(pb) /\ (i - 1) + 1 = i /\ Len(pb) \in Nat
        /\ pb[i] \in 0..255 /\ 8 * Len(pb) - 1 = 55
    BY DEF IsBytes
  <2>3. ByteAt(sentSb, i - 1) = pb[(i - 1) + 1]
    <3>1. sentSb \cap (0..(8 * Len(pb) - 1)) = BitsOf(pb)
      BY <2>2
    <3>2. pb[(i - 1) + 1] \in 0..255
      BY <2>2
    <3> QED
      BY <2>2, <3>1, <3>2, ByteArrives
  <2> QED
    BY <2>1, <2>2, <2>3
<1>2. ASSUME NEW i \in 1..3 PROVE receivedHeader[i] = header[i]
  <2>1. receivedHeader[i] = ByteAt(sentHb, i - 1)
    BY Zenon DEF receivedHeader
  <2>2. /\ i - 1 \in Nat /\ i - 1 < Len(header) /\ (i - 1) + 1 = i /\ Len(header) \in Nat
        /\ header[i] \in 0..255 /\ 8 * Len(header) - 1 = 23
    BY DEF IsBytes
  <2>3. ByteAt(sentHb, i - 1) = header[(i - 1) + 1]
    BY <2>2, ByteArrives
  <2> QED
    BY <2>1, <2>2, <2>3
<1> QED
  BY <1>1, <1>2

-----------------------------------------------------------------------------
(* The checksum of an infoframe, and that of the bytes that arrive.          *)
LEMMA SumOf3 ==
    ASSUME NEW b, DOMAIN b = 1..3, \A i \in 1..3 : b[i] \in Int
    PROVE  SumOf(b) = b[1] + b[2] + b[3]
<1>1. SumOf(b) = Total(b, 1..3)
  BY SumOfBytes, 1..3 \in SUBSET (0..9)
<1>2. /\ Term(b, 1..3, 0) = 0 /\ Term(b, 1..3, 1) = b[1] /\ Term(b, 1..3, 2) = b[2]
      /\ Term(b, 1..3, 3) = b[3] /\ Term(b, 1..3, 4) = 0 /\ Term(b, 1..3, 5) = 0
      /\ Term(b, 1..3, 6) = 0 /\ Term(b, 1..3, 7) = 0 /\ Term(b, 1..3, 8) = 0
      /\ Term(b, 1..3, 9) = 0
  BY DEF Term
<1>3. b[1] \in Int /\ b[2] \in Int /\ b[3] \in Int
  OBVIOUS
<1> QED
  BY <1>1, <1>2, <1>3 DEF Total

LEMMA SumOf7 ==
    ASSUME NEW b, DOMAIN b = 1..7, \A i \in 1..7 : b[i] \in Int
    PROVE  SumOf(b) = b[1] + b[2] + b[3] + b[4] + b[5] + b[6] + b[7]
<1>1. SumOf(b) = Total(b, 1..7)
  BY SumOfBytes, 1..7 \in SUBSET (0..9)
<1>2. /\ Term(b, 1..7, 0) = 0 /\ Term(b, 1..7, 1) = b[1] /\ Term(b, 1..7, 2) = b[2]
      /\ Term(b, 1..7, 3) = b[3] /\ Term(b, 1..7, 4) = b[4] /\ Term(b, 1..7, 5) = b[5]
      /\ Term(b, 1..7, 6) = b[6] /\ Term(b, 1..7, 7) = b[7] /\ Term(b, 1..7, 8) = 0
      /\ Term(b, 1..7, 9) = 0
  BY DEF Term
<1>3. /\ b[1] \in Int /\ b[2] \in Int /\ b[3] \in Int /\ b[4] \in Int
      /\ b[5] \in Int /\ b[6] \in Int /\ b[7] \in Int
  OBVIOUS
<1> QED
  BY <1>1, <1>2, <1>3 DEF Total

LEMMA SumOf9 ==
    ASSUME NEW b, DOMAIN b = 1..9, \A i \in 1..9 : b[i] \in Int
    PROVE  SumOf(b) = b[1] + b[2] + b[3] + b[4] + b[5] + b[6] + b[7] + b[8] + b[9]
<1>1. SumOf(b) = Total(b, 1..9)
  BY SumOfBytes, 1..9 \in SUBSET (0..9)
<1>2. /\ Term(b, 1..9, 0) = 0 /\ Term(b, 1..9, 1) = b[1] /\ Term(b, 1..9, 2) = b[2]
      /\ Term(b, 1..9, 3) = b[3] /\ Term(b, 1..9, 4) = b[4] /\ Term(b, 1..9, 5) = b[5]
      /\ Term(b, 1..9, 6) = b[6] /\ Term(b, 1..9, 7) = b[7] /\ Term(b, 1..9, 8) = b[8]
      /\ Term(b, 1..9, 9) = b[9]
  BY DEF Term
<1>3. /\ b[1] \in Int /\ b[2] \in Int /\ b[3] \in Int /\ b[4] \in Int
      /\ b[5] \in Int /\ b[6] \in Int /\ b[7] \in Int /\ b[8] \in Int /\ b[9] \in Int
  OBVIOUS
<1> QED
  BY <1>1, <1>2, <1>3 DEF Total

\* Division of a natural number by 256.
LEMMA Division256 ==
    ASSUME NEW n \in Nat
    PROVE  /\ n = 256 * (n \div 256) + (n % 256)
           /\ n \div 256 \in Nat
           /\ n % 256 \in 0..255
<1>1. n = 256 * (n \div 256) + (n % 256) /\ n % 256 < 256
  BY SMT
<1>2. n \div 256 \in Nat
  BY SMT
<1>3. n % 256 \in 0..255
  BY SMT
<1> DEFINE q == n \div 256
           z == n % 256
<1>4. n = 256 * q + z
  BY <1>1
<1>5. q \in Nat /\ z \in 0..255
  BY <1>2, <1>3
<1> QED
  BY ONLY <1>4, <1>5, Zenon

LEMMA Digits256 ==
    ASSUME NEW n \in Int, NEW q \in Int, NEW r \in Int, NEW y \in Nat, NEW z \in Nat,
           n = 256 * q + z, q = 256 * r + y
    PROVE  /\ r * 65536 + y * 256 + z = n
           /\ n <= 1048575 => r < 16
  BY SMT

\* A header and six bytes made into an infoframe.
GoodInfoframe(h1, h2, h3, p1, p2, p3, p4, p5, p6) ==
    LET header == <<h1, h2, h3>>
        info == Infoframe(header, <<p1, p2, p3, p4, p5, p6>>)
    IN  /\ info.header = header /\ IsBytes(header, 3) /\ IsBytes(info.pb, 7)
        /\ (SumOf(header) + SumOf(info.pb)) % 256 = 0

Octet == 0..255

LEMMA InfoframeBytes ==
    ASSUME NEW h1 \in Octet, NEW h2 \in Octet, NEW h3 \in Octet,
           NEW p1 \in Octet, NEW p2 \in Octet, NEW p3 \in Octet,
           NEW p4 \in Octet, NEW p5 \in Octet, NEW p6 \in Octet
    PROVE  GoodInfoframe(h1, h2, h3, p1, p2, p3, p4, p5, p6)
<1> USE DEF Octet
<1> DEFINE header == <<h1, h2, h3>>
           pb == <<p1, p2, p3, p4, p5, p6>>
           all == header \o pb
           c == checksum(header, pb)
           bytes == <<c>> \o pb
<1>1. /\ DOMAIN all = 1..9 /\ all[1] = h1 /\ all[2] = h2 /\ all[3] = h3
      /\ all[4] = p1 /\ all[5] = p2 /\ all[6] = p3 /\ all[7] = p4 /\ all[8] = p5 /\ all[9] = p6
  OBVIOUS
<1>2. SumOf(all) = h1 + h2 + h3 + p1 + p2 + p3 + p4 + p5 + p6
  <2> HIDE DEF all
  <2>1. \A i \in 1..9 : all[i] \in Int
    BY <1>1
  <2>2. SumOf(all) = all[1] + all[2] + all[3] + all[4] + all[5] + all[6] + all[7] + all[8] + all[9]
    BY <1>1, <2>1, SumOf9
  <2> QED
    BY <1>1, <2>2
<1>3. c = (255 - (SumOf(all) % 256) + 1) % 256
  BY DEF checksum
<1> DEFINE total == h1 + h2 + h3 + p1 + p2 + p3 + p4 + p5 + p6
<1>4. total \in Nat /\ c = (255 - (total % 256) + 1) % 256
  <2> HIDE DEF all, c
  <2> QED
    BY <1>2, <1>3
<1>5. c \in 0..255 /\ (total + c) % 256 = 0
  <2> HIDE DEF total, c
  <2>1. total % 256 \in 0..255 /\ total = 256 * (total \div 256) + (total % 256)
        /\ total \div 256 \in Nat
    BY <1>4, Division256
  <2>2. c = IF total % 256 = 0 THEN 0 ELSE 256 - (total % 256)
    BY <1>4, <2>1
  <2> QED
    BY <1>4, <2>1, <2>2
<1> HIDE DEF c
<1>6. /\ Len(bytes) = 7 /\ DOMAIN bytes = 1..7 /\ bytes[1] = c
      /\ bytes[2] = p1 /\ bytes[3] = p2 /\ bytes[4] = p3
      /\ bytes[5] = p4 /\ bytes[6] = p5 /\ bytes[7] = p6
  BY <1>5
<1>7. /\ Len(header) = 3 /\ DOMAIN header = 1..3
      /\ header[1] = h1 /\ header[2] = h2 /\ header[3] = h3
  OBVIOUS
<1>8. SumOf(header) = h1 + h2 + h3
  <2> HIDE DEF header
  <2> QED
    BY <1>7, SumOf3
<1>9. IsBytes(header, 3)
  <2> HIDE DEF header
  <2> QED
    BY <1>7 DEF IsBytes
<1>10. IsBytes(bytes, 7) /\ SumOf(bytes) = c + p1 + p2 + p3 + p4 + p5 + p6
  <2> HIDE DEF bytes
  <2>1. \A i \in 1..7 : bytes[i] \in 0..255
    BY <1>5, <1>6
  <2>2. SumOf(bytes) = bytes[1] + bytes[2] + bytes[3] + bytes[4] + bytes[5] + bytes[6] + bytes[7]
    BY <1>6, <2>1, SumOf7
  <2> QED
    BY <1>6, <2>1, <2>2 DEF IsBytes
<1>11. SumOf(header) + SumOf(bytes) = total + c
  <2> HIDE DEF header, bytes
  <2> QED
    BY <1>5, <1>8, <1>10
<1>12. Infoframe(header, pb) = [header |-> header, pb |-> bytes]
  BY DEF Infoframe, c
<1> HIDE DEF header, bytes, total
<1>13. (SumOf(header) + SumOf(bytes)) % 256 = 0
  BY <1>5, <1>11
<1>14. Infoframe(header, pb).header = header /\ Infoframe(header, pb).pb = bytes
  <2> HIDE DEF pb
  <2> QED
    BY <1>12
<1> HIDE DEF pb
<1>15. GoodInfoframe(h1, h2, h3, p1, p2, p3, p4, p5, p6)
           <=> /\ Infoframe(header, pb).header = header /\ IsBytes(header, 3)
               /\ IsBytes(Infoframe(header, pb).pb, 7)
               /\ (SumOf(header) + SumOf(Infoframe(header, pb).pb)) % 256 = 0
  BY DEF GoodInfoframe, header, pb
<1> QED
  BY <1>9, <1>10, <1>13, <1>14, <1>15

LEMMA AviBytes ==
    ASSUME NEW g, g.VIDEO_CODE \in Nat, g.REPETITION \in Nat
    PROVE  LET info == AviInfoframe(g)
           IN  /\ IsBytes(info.header, 3) /\ IsBytes(info.pb, 7)
               /\ (SumOf(info.header) + SumOf(info.pb)) % 256 = 0
<1> DEFINE b1 == Y_CODE(g) * 32 + FORMATINFO(g) * 16 + SCANINFO(g)
           b2 == COLORIMETRY(g) * 64 + PICTUREAR(g) * 16 + FORMATAR(g)
           b3 == ITCONTENT(g) * 128 + EXCOLORIMETRY(g) * 16 + RGBQUANTRANGE(g) * 4 + SCALING(g)
           b4 == g.VIDEO_CODE % 128
           b5 == YCCQUANTRANGE(g) * 64 + CONTENTCODE(g) * 16 + (g.REPETITION % 16)
<1>1. b1 \in Octet
  <2>1. Y_CODE(g) \in 0..2 /\ FORMATINFO(g) \in 0..1
    BY DEF Y_CODE, FORMATINFO
  <2>2. SCANINFO(g) \in 0..2
    BY DEF SCANINFO, Code
  <2> QED
    BY <2>1, <2>2 DEF Octet
<1>2. b2 \in Octet
  <2>1. COLORIMETRY(g) \in 0..3
    BY DEF COLORIMETRY, Code
  <2>2. PICTUREAR(g) \in 0..2
    BY DEF PICTUREAR
  <2>3. FORMATAR(g) \in 0..11
    BY DEF FORMATAR
  <2> QED
    BY <2>1, <2>2, <2>3 DEF Octet
<1>3. b3 \in Octet
  <2>1. ITCONTENT(g) \in 0..1 /\ EXCOLORIMETRY(g) \in 0..1 /\ RGBQUANTRANGE(g) \in 0..2
    BY DEF ITCONTENT, EXCOLORIMETRY, RGBQUANTRANGE
  <2>2. SCALING(g) \in 0..3
    BY DEF SCALING, Code
  <2> QED
    BY <2>1, <2>2 DEF Octet
<1>4. b4 \in Octet
  <2>1. \A m \in Nat : m % 128 \in 0..127
    OBVIOUS
  <2> QED
    BY <2>1 DEF Octet
<1>5. b5 \in Octet
  <2>1. YCCQUANTRANGE(g) \in 0..1
    BY DEF YCCQUANTRANGE
  <2>2. CONTENTCODE(g) \in 0..3
    BY DEF CONTENTCODE, Code
  <2>3. \A m \in Nat : m % 16 \in 0..15
    OBVIOUS
  <2>4. g.REPETITION % 16 \in 0..15
    BY <2>3
  <2> QED
    BY <2>1, <2>2, <2>4 DEF Octet
<1>6. AviInfoframe(g) = Infoframe(<<130, 2, 13>>, <<b1, b2, b3, b4, b5, 0>>)
  BY DEF AviInfoframe
<1> HIDE DEF b1, b2, b3, b4, b5
<1> DEFINE h1 == 130
           h2 == 2
           h3 == 13
           b6 == 0
<1>7. h1 \in Octet /\ h2 \in Octet /\ h3 \in Octet /\ b6 \in Octet
  BY DEF Octet
<1>9. AviInfoframe(g) = Infoframe(<<h1, h2, h3>>, <<b1, b2, b3, b4, b5, b6>>)
  BY <1>6
<1> HIDE DEF h1, h2, h3, b6
<1> DEFINE info == Infoframe(<<h1, h2, h3>>, <<b1, b2, b3, b4, b5, b6>>)
<1>10. GoodInfoframe(h1, h2, h3, b1, b2, b3, b4, b5, b6)
  BY <1>1, <1>2, <1>3, <1>4, <1>5, <1>7, InfoframeBytes
<1>8. /\ info.header = <<h1, h2, h3>> /\ IsBytes(<<h1, h2, h3>>, 3) /\ IsBytes(info.pb, 7)
      /\ (SumOf(<<h1, h2, h3>>) + SumOf(info.pb)) % 256 = 0
  BY <1>10 DEF GoodInfoframe
<1> HIDE DEF info
<1> QED
  BY <1>8, <1>9 DEF info

LEMMA AudioBytes ==
    /\ IsBytes(AudioInfoframe.header, 3) /\ IsBytes(AudioInfoframe.pb, 7)
    /\ (SumOf(AudioInfoframe.header) + SumOf(AudioInfoframe.pb)) % 256 = 0
<1> DEFINE h1 == 132
           h2 == 1
           h3 == 10
           p == 17
           z == 0
           info == Infoframe(<<h1, h2, h3>>, <<p, z, z, z, z, z>>)
<1>1. h1 \in Octet /\ h2 \in Octet /\ h3 \in Octet /\ p \in Octet /\ z \in Octet
  BY DEF Octet
<1>3. AudioInfoframe = info
  BY DEF AudioInfoframe
<1> HIDE DEF h1, h2, h3, p, z
<1>4. GoodInfoframe(h1, h2, h3, p, z, z, z, z, z)
  BY <1>1, InfoframeBytes
<1>2. /\ info.header = <<h1, h2, h3>> /\ IsBytes(<<h1, h2, h3>>, 3) /\ IsBytes(info.pb, 7)
      /\ (SumOf(<<h1, h2, h3>>) + SumOf(info.pb)) % 256 = 0
  BY <1>4 DEF GoodInfoframe
<1> HIDE DEF info
<1> QED
  BY <1>2, <1>3

\* 20 bits in three bytes.
LEMMA Bytes20Value ==
    ASSUME NEW n \in Nat, n <= 1048575
    PROVE  LET b == Bytes20(n)
           IN  /\ b[1] \in 0..255 /\ b[2] \in 0..255 /\ b[3] \in 0..255
               /\ b[1] * 65536 + b[2] * 256 + b[3] = n
<1> DEFINE q == n \div 256
           r == q \div 256
<1>1. q \in Nat /\ n = 256 * q + (n % 256) /\ n % 256 \in 0..255
  BY SMT, Division256
<1>2. n \div 65536 = r
  BY SMT
<1> HIDE DEF q
<1>3. r \in Nat /\ q = 256 * r + (q % 256) /\ q % 256 \in 0..255
  BY SMT, <1>1, Division256
<1> DEFINE y == q % 256
           z == n % 256
<1>9. /\ n = 256 * q + z /\ q = 256 * r + y
      /\ q \in Int /\ r \in Int /\ y \in Nat /\ z \in Nat
  BY SMT, <1>1, <1>3
<1>8. r < 16
  <2> HIDE DEF y, z, r
  <2> QED
    BY SMT, <1>9, Digits256
<1> HIDE DEF r
<1>4. r % 16 = r
  BY SMT, <1>3, <1>8
<1> DEFINE b == Bytes20(n)
<1>5. b[1] = r /\ b[2] = q % 256 /\ b[3] = n % 256
  BY SMT, <1>2, <1>4 DEF Bytes20, q
<1> HIDE DEF b
<1>6. b[1] \in 0..255 /\ b[2] \in 0..255 /\ b[3] \in 0..255
  BY SMT, <1>1, <1>3, <1>5, <1>8
<1>7. b[1] * 65536 + b[2] * 256 + b[3] = n
  <2>1. b[1] = r /\ b[2] = y /\ b[3] = z
    BY <1>5
  <2> HIDE DEF y, z
  <2>2. r * 65536 + y * 256 + z = n
    BY SMT, <1>9, Digits256
  <2> QED
    BY SMT, <1>9, <2>1, <2>2
<1> QED
  BY SMT, <1>6, <1>7 DEF b

\* The values of AUDIO_FREQUENCY, in 100 Hz.
Frequencies == {320, 441, 480, 882, 960, 1764, 1920}

(* N is exact.  CTS is exact as well at multiples of 32 and 48 kHz; at those *)
(* of 44.1 kHz it is rounded, by less than 50 ppm from 10 MHz on.            *)
LEMMA AcrValues ==
    ASSUME NEW df \in Nat, 10000 <= df, df <= 900000, NEW af \in Frequencies
    PROVE  /\ calc_acr_n(af) \in Nat /\ calc_acr_n(af) <= 1048575
           /\ calc_acr_cts(df, af) \in Nat /\ calc_acr_cts(df, af) <= 1048575
           /\ LET N == calc_acr_n(af)
                  ideal == af * calc_acr_cts(df, af)
                  sent  == df * 10 * (N \div 128)
              IN  /\ N % 128 = 0
                  /\ 128 * af * 100 <= 1500 * N /\ 300 * N <= 128 * af * 100
                  /\ sent - ideal <= ideal \div 20000
                  /\ ideal - sent <= ideal \div 20000
<1> DEFINE cts441 == (df * 20 + 9) \div 18
<1>1. /\ cts441 \in Nat /\ cts441 <= 1048575
      /\ 18 * cts441 <= df * 20 + 9 /\ df * 20 + 9 <= 18 * cts441 + 17
  BY SMT
<1> HIDE DEF cts441
<1>3. \A m \in Nat : m \div 20000 \in Nat
  BY SMT
<1>4. CASE af = 320
  <2>1. calc_acr_n(af) = 4096
    BY SMT, <1>4 DEF calc_acr_n
  <2>2. calc_acr_cts(df, af) = df
    BY SMT, <2>1 DEF calc_acr_cts
  <2>3. 4096 \div 128 = 32 /\ 4096 % 128 = 0
    BY SMT
  <2>4. 320 * df \in Nat /\ df * 10 * 32 = 320 * df
    BY SMT
  <2>5. af * calc_acr_cts(df, af) = 320 * df /\ df * 10 * (calc_acr_n(af) \div 128) = 320 * df
    BY SMT, <1>4, <2>1, <2>2, <2>3, <2>4
  <2>6. (320 * df) \div 20000 \in Nat
    BY SMT, <1>3, <2>4
  <2> QED
    BY SMT, <1>4, <2>1, <2>2, <2>3, <2>4, <2>5, <2>6
<1>5. CASE af = 441
  <2>1. calc_acr_n(af) = 6272
    BY SMT, <1>5 DEF calc_acr_n
  <2>2. calc_acr_cts(df, af) = cts441
    BY SMT, <2>1 DEF calc_acr_cts, cts441
  <2> DEFINE ideal == 441 * cts441
             sent == df * 490
  <2>3. /\ ideal \in Nat /\ sent \in Nat /\ ideal >= 1 * 4890000
        /\ sent - ideal <= 221 /\ ideal - sent <= 221
    BY SMT, <1>1
  <2>4. ideal \div 20000 \in Nat /\ ideal \div 20000 >= 244
    <3> HIDE DEF ideal
    <3>1. \A m \in Nat : m \div 20000 \in Nat /\ (m >= 1 * 4890000 => m \div 20000 >= 244)
      BY SMT
    <3> QED
      BY SMT, <2>3, <3>1
  <2>5. sent - ideal <= ideal \div 20000 /\ ideal - sent <= ideal \div 20000
    <3> HIDE DEF ideal, sent
    <3> QED
      BY SMT, <2>3, <2>4
  <2>6. 6272 \div 128 = 49 /\ 6272 % 128 = 0 /\ df * 10 * 49 = df * 490
    BY SMT
  <2>7. af * calc_acr_cts(df, af) = ideal /\ df * 10 * (calc_acr_n(af) \div 128) = sent
    BY SMT, <1>5, <2>1, <2>2, <2>6
  <2> HIDE DEF ideal, sent
  <2> QED
    BY SMT, <1>1, <1>5, <2>1, <2>2, <2>5, <2>6, <2>7
<1>6. CASE af = 480
  <2>1. calc_acr_n(af) = 6144
    BY SMT, <1>6 DEF calc_acr_n
  <2>2. calc_acr_cts(df, af) = df
    BY SMT, <2>1 DEF calc_acr_cts
  <2>3. 6144 \div 128 = 48 /\ 6144 % 128 = 0
    BY SMT
  <2>4. 480 * df \in Nat /\ df * 10 * 48 = 480 * df
    BY SMT
  <2>5. af * calc_acr_cts(df, af) = 480 * df /\ df * 10 * (calc_acr_n(af) \div 128) = 480 * df
    BY SMT, <1>6, <2>1, <2>2, <2>3, <2>4
  <2>6. (480 * df) \div 20000 \in Nat
    BY SMT, <1>3, <2>4
  <2> QED
    BY SMT, <1>6, <2>1, <2>2, <2>3, <2>4, <2>5, <2>6
<1>7. CASE af = 882
  <2>1. calc_acr_n(af) = 12544
    BY SMT, <1>7 DEF calc_acr_n
  <2>2. calc_acr_cts(df, af) = cts441
    BY SMT, <2>1 DEF calc_acr_cts, cts441
  <2> DEFINE ideal == 882 * cts441
             sent == df * 980
  <2>3. /\ ideal \in Nat /\ sent \in Nat /\ ideal >= 2 * 4890000
        /\ sent - ideal <= 442 /\ ideal - sent <= 442
    BY SMT, <1>1
  <2>4. ideal \div 20000 \in Nat /\ ideal \div 20000 >= 488
    <3> HIDE DEF ideal
    <3>1. \A m \in Nat : m \div 20000 \in Nat /\ (m >= 2 * 4890000 => m \div 20000 >= 488)
      BY SMT
    <3> QED
      BY SMT, <2>3, <3>1
  <2>5. sent - ideal <= ideal \div 20000 /\ ideal - sent <= ideal \div 20000
    <3> HIDE DEF ideal, sent
    <3> QED
      BY SMT, <2>3, <2>4
  <2>6. 12544 \div 128 = 98 /\ 12544 % 128 = 0 /\ df * 10 * 98 = df * 980
    BY SMT
  <2>7. af * calc_acr_cts(df, af) = ideal /\ df * 10 * (calc_acr_n(af) \div 128) = sent
    BY SMT, <1>7, <2>1, <2>2, <2>6
  <2> HIDE DEF ideal, sent
  <2> QED
    BY SMT, <1>1, <1>7, <2>1, <2>2, <2>5, <2>6, <2>7
<1>8. CASE af = 960
  <2>1. calc_acr_n(af) = 12288
    BY SMT, <1>8 DEF calc_acr_n
  <2>2. calc_acr_cts(df, af) = df
    BY SMT, <2>1 DEF calc_acr_cts
  <2>3. 12288 \div 128 = 96 /\ 12288 % 128 = 0
    BY SMT
  <2>4. 960 * df \in Nat /\ df * 10 * 96 = 960 * df
    BY SMT
  <2>5. af * calc_acr_cts(df, af) = 960 * df /\ df * 10 * (calc_acr_n(af) \div 128) = 960 * df
    BY SMT, <1>8, <2>1, <2>2, <2>3, <2>4
  <2>6. (960 * df) \div 20000 \in Nat
    BY SMT, <1>3, <2>4
  <2> QED
    BY SMT, <1>8, <2>1, <2>2, <2>3, <2>4, <2>5, <2>6
<1>9. CASE af = 1764
  <2>1. calc_acr_n(af) = 25088
    BY SMT, <1>9 DEF calc_acr_n
  <2>2. calc_acr_cts(df, af) = cts441
    BY SMT, <2>1 DEF calc_acr_cts, cts441
  <2> DEFINE ideal == 1764 * cts441
             sent == df * 1960
  <2>3. /\ ideal \in Nat /\ sent \in Nat /\ ideal >= 4 * 4890000
        /\ sent - ideal <= 884 /\ ideal - sent <= 884
    BY SMT, <1>1
  <2>4. ideal \div 20000 \in Nat /\ ideal \div 20000 >= 976
    <3> HIDE DEF ideal
    <3>1. \A m \in Nat : m \div 20000 \in Nat /\ (m >= 4 * 4890000 => m \div 20000 >= 976)
      BY SMT
    <3> QED
      BY SMT, <2>3, <3>1
  <2>5. sent - ideal <= ideal \div 20000 /\ ideal - sent <= ideal \div 20000
    <3> HIDE DEF ideal, sent
    <3> QED
      BY SMT, <2>3, <2>4
  <2>6. 25088 \div 128 = 196 /\ 25088 % 128 = 0 /\ df * 10 * 196 = df * 1960
    BY SMT
  <2>7. af * calc_acr_cts(df, af) = ideal /\ df * 10 * (calc_acr_n(af) \div 128) = sent
    BY SMT, <1>9, <2>1, <2>2, <2>6
  <2> HIDE DEF ideal, sent
  <2> QED
    BY SMT, <1>1, <1>9, <2>1, <2>2, <2>5, <2>6, <2>7
<1>10. CASE af = 1920
  <2>1. calc_acr_n(af) = 24576
    BY SMT, <1>10 DEF calc_acr_n
  <2>2. calc_acr_cts(df, af) = df
    BY SMT, <2>1 DEF calc_acr_cts
  <2>3. 24576 \div 128 = 192 /\ 24576 % 128 = 0
    BY SMT
  <2>4. 1920 * df \in Nat /\ df * 10 * 192 = 1920 * df
    BY SMT
  <2>5. af * calc_acr_cts(df, af) = 1920 * df /\ df * 10 * (calc_acr_n(af) \div 128) = 1920 * df
    BY SMT, <1>10, <2>1, <2>2, <2>3, <2>4
  <2>6. (1920 * df) \div 20000 \in Nat
    BY SMT, <1>3, <2>4
  <2> QED
    BY SMT, <1>10, <2>1, <2>2, <2>3, <2>4, <2>5, <2>6
<1> QED
  BY SMT, <1>4, <1>5, <1>6, <1>7, <1>8, <1>9, <1>10 DEF Frequencies

LEMMA AcrBytes ==
    ASSUME NEW df \in Nat, 10000 <= df, df <= 900000, NEW af \in Frequencies
    PROVE  LET b == AcrPacket(df, af).pb
           IN  /\ IsBytes(AcrPacket(df, af).header, 3) /\ AcrPacket(df, af).header[1] = 1
               /\ IsBytes(b, 7)
               /\ b[2] * 65536 + b[3] * 256 + b[4] = calc_acr_cts(df, af)
               /\ b[5] * 65536 + b[6] * 256 + b[7] = calc_acr_n(af)
<1> DEFINE x == Bytes20(calc_acr_cts(df, af))
           y == Bytes20(calc_acr_n(af))
           b == <<0>> \o x \o y
           header == <<1, 0, 0>>
<1>1. /\ x[1] \in 0..255 /\ x[2] \in 0..255 /\ x[3] \in 0..255
      /\ x[1] * 65536 + x[2] * 256 + x[3] = calc_acr_cts(df, af)
      /\ y[1] \in 0..255 /\ y[2] \in 0..255 /\ y[3] \in 0..255
      /\ y[1] * 65536 + y[2] * 256 + y[3] = calc_acr_n(af)
  <2>1. /\ calc_acr_n(af) \in Nat /\ calc_acr_n(af) <= 1048575
        /\ calc_acr_cts(df, af) \in Nat /\ calc_acr_cts(df, af) <= 1048575
    BY SMT, AcrValues
  <2> HIDE DEF x, y
  <2>2. /\ x[1] \in 0..255 /\ x[2] \in 0..255 /\ x[3] \in 0..255
        /\ x[1] * 65536 + x[2] * 256 + x[3] = calc_acr_cts(df, af)
    BY <2>1, Bytes20Value, SMTT(60) DEF x
  <2>3. /\ y[1] \in 0..255 /\ y[2] \in 0..255 /\ y[3] \in 0..255
        /\ y[1] * 65536 + y[2] * 256 + y[3] = calc_acr_n(af)
    BY <2>1, Bytes20Value, SMTT(60) DEF y
  <2> QED
    BY SMT, <2>2, <2>3
<1>2. x = <<x[1], x[2], x[3]>> /\ y = <<y[1], y[2], y[3]>>
  BY SMT DEF Bytes20
<1>3. /\ Len(b) = 7 /\ DOMAIN b = 1..7 /\ b[1] = 0
      /\ b[2] = x[1] /\ b[3] = x[2] /\ b[4] = x[3]
      /\ b[5] = y[1] /\ b[6] = y[2] /\ b[7] = y[3]
  BY SMT DEF Bytes20
<1>4. Len(header) = 3 /\ DOMAIN header = 1..3 /\ header[1] = 1 /\ header[2] = 0 /\ header[3] = 0
  BY SMT
<1>5. IsBytes(header, 3)
  <2> HIDE DEF header
  <2> QED
    BY SMT, <1>4 DEF IsBytes
<1>6. AcrPacket(df, af).header = header /\ AcrPacket(df, af).pb = b
  BY SMT DEF AcrPacket
<1> HIDE DEF x, y, b, header
<1>7. IsBytes(b, 7)
  BY SMT, <1>1, <1>3 DEF IsBytes
<1>8. /\ b[2] * 65536 + b[3] * 256 + b[4] = calc_acr_cts(df, af)
      /\ b[5] * 65536 + b[6] * 256 + b[7] = calc_acr_n(af)
  BY SMT, <1>1, <1>3
<1> QED
  BY SMT, <1>4, <1>5, <1>6, <1>7, <1>8

-----------------------------------------------------------------------------
(* The sink of an island that carried a packet of the table.                 *)
Carried(packetBytes) ==
    sentSb \cap (0..55) = BitsOf(packetBytes.pb) /\ sentHb \cap (0..23) = BitsOf(packetBytes.header)

LEMMA ReceivedSums ==
    ASSUME NEW p, IsBytes(p.header, 3), IsBytes(p.pb, 7), Carried(p)
    PROVE  /\ SumOf(receivedHeader) = SumOf(p.header) /\ SumOf(receivedBytes) = SumOf(p.pb)
           /\ receivedHeader[1] = p.header[1]
<1>1. /\ \A i \in 1..7 : receivedBytes[i] = p.pb[i]
      /\ \A i \in 1..3 : receivedHeader[i] = p.header[i]
  BY PacketArrives DEF Carried
<1>2. DOMAIN receivedBytes = 1..7 /\ DOMAIN receivedHeader = 1..3
  BY DEF receivedBytes, receivedHeader
<1>3. /\ DOMAIN p.pb = 1..7 /\ \A i \in 1..7 : p.pb[i] \in Int
      /\ DOMAIN p.header = 1..3 /\ \A i \in 1..3 : p.header[i] \in Int
  BY BytesAreInts, Zenon
<1>4. SumOf(receivedHeader) = SumOf(p.header)
  <2>1. SumOf(receivedHeader) = receivedHeader[1] + receivedHeader[2] + receivedHeader[3]
    BY <1>1, <1>2, <1>3, SumOf3
  <2>2. SumOf(p.header) = p.header[1] + p.header[2] + p.header[3]
    BY <1>3, SumOf3
  <2> QED
    BY <1>1, <2>1, <2>2
<1>5. SumOf(receivedBytes) = SumOf(p.pb)
  <2> DEFINE r == receivedBytes
             b == p.pb
  <2>1. SumOf(r) = r[1] + r[2] + r[3] + r[4] + r[5] + r[6] + r[7]
    BY <1>1, <1>2, <1>3, SumOf7
  <2>2. SumOf(b) = b[1] + b[2] + b[3] + b[4] + b[5] + b[6] + b[7]
    BY <1>3, SumOf7
  <2> QED
    BY <1>1, <2>1, <2>2
<1> QED
  BY <1>1, <1>4, <1>5

LEMMA ClockRegenerated ==
    ASSUME NEW df \in Nat, 10000 <= df, df <= 900000, NEW af \in Frequencies, Carried(AcrPacket(df, af))
    PROVE  Regenerates(df, af)
<1> DEFINE pb == AcrPacket(df, af).pb
           b == receivedBytes
<1>1. /\ IsBytes(AcrPacket(df, af).header, 3) /\ IsBytes(pb, 7)
      /\ pb[2] * 65536 + pb[3] * 256 + pb[4] = calc_acr_cts(df, af)
      /\ pb[5] * 65536 + pb[6] * 256 + pb[7] = calc_acr_n(af)
  BY SMT, AcrBytes
<1>2. \A i \in 1..7 : b[i] = pb[i]
  <2> HIDE DEF pb, b
  <2>1. sentSb \cap (0..55) = BitsOf(pb) /\ sentHb \cap (0..23) = BitsOf(AcrPacket(df, af).header)
    BY SMT DEF Carried, pb
  <2> QED
    BY SMT, <1>1, <2>1, PacketArrives DEF b
<1> HIDE DEF pb
<1>3. /\ b[2] * 65536 + b[3] * 256 + b[4] = calc_acr_cts(df, af)
      /\ b[5] * 65536 + b[6] * 256 + b[7] = calc_acr_n(af)
  BY SMT, <1>1, <1>2
<1> HIDE DEF b
<1>4. /\ calc_acr_n(af) % 128 = 0
      /\ 128 * af * 100 <= 1500 * calc_acr_n(af) /\ 300 * calc_acr_n(af) <= 128 * af * 100
      /\ df * 10 * (calc_acr_n(af) \div 128) - af * calc_acr_cts(df, af)
           <= (af * calc_acr_cts(df, af)) \div 20000
      /\ af * calc_acr_cts(df, af) - df * 10 * (calc_acr_n(af) \div 128)
           <= (af * calc_acr_cts(df, af)) \div 20000
  BY SMT, AcrValues
<1> QED
  BY SMT, <1>3, <1>4 DEF Regenerates, b

LEMMA SinkAccepts == TypeOK /\ IslandIsCodeword => SinkAcceptsInfo
<1> SUFFICES ASSUME IslandIsCodeword, counter = 0, packet \in TablePackets
             PROVE  /\ receivedHeader[1] \in {130, 132} =>
                           (SumOf(receivedHeader) + SumOf(receivedBytes)) % 256 = 0
                    /\ \A c \in ClockGenerics :
                           packet = Buffers(AcrPacket(c[1], c[2])) => Regenerates(c[1], c[2])
  BY SMT DEF SinkAcceptsInfo
<1>1. ASSUME NEW p, packet = Buffers(p) PROVE Carried(p)
  <2>1. sentSb \cap (0..55) = packet.sb /\ sentHb \cap (0..23) = packet.hb
    BY SMT DEF IslandIsCodeword
  <2>2. packet.sb = BitsOf(p.pb) /\ packet.hb = BitsOf(p.header)
    BY SMT, <1>1 DEF Buffers
  <2> QED
    BY SMT, <2>1, <2>2 DEF Carried
<1>2. ASSUME NEW c \in ClockGenerics 
      PROVE c[1] \in Nat /\ 10000 <= c[1] /\ c[1] <= 900000 /\ c[2] \in Frequencies
  BY SMT, GenericsAssumption DEF Frequencies
<1>3. ASSUME NEW p, packet = Buffers(p), IsBytes(p.header, 3), IsBytes(p.pb, 7),
             p.header[1] \in {130, 132} => (SumOf(p.header) + SumOf(p.pb)) % 256 = 0
      PROVE  receivedHeader[1] \in {130, 132} =>
                 (SumOf(receivedHeader) + SumOf(receivedBytes)) % 256 = 0
  <2>1. Carried(p)
    BY SMT, <1>1, <1>3
  <2>2. /\ SumOf(receivedHeader) = SumOf(p.header) /\ SumOf(receivedBytes) = SumOf(p.pb)
        /\ receivedHeader[1] = p.header[1]
    BY SMT, <1>3, <2>1, ReceivedSums
  <2> QED
    BY SMT, <1>3, <2>2
<1>4. receivedHeader[1] \in {130, 132} => (SumOf(receivedHeader) + SumOf(receivedBytes)) % 256 = 0
  <2>1. ASSUME NEW g \in AviGenerics, packet = Buffers(AviInfoframe(g))
        PROVE  receivedHeader[1] \in {130, 132} =>
                   (SumOf(receivedHeader) + SumOf(receivedBytes)) % 256 = 0
    <3>1. g.VIDEO_CODE \in Nat /\ g.REPETITION \in Nat
      BY SMT, GenericsAssumption
    <3>2. /\ IsBytes(AviInfoframe(g).header, 3) /\ IsBytes(AviInfoframe(g).pb, 7)
          /\ (SumOf(AviInfoframe(g).header) + SumOf(AviInfoframe(g).pb)) % 256 = 0
      BY SMT, <3>1, AviBytes
    <3> QED
      BY SMT, <1>3, <2>1, <3>2
  <2>2. ASSUME packet = Buffers(AudioInfoframe)
        PROVE  receivedHeader[1] \in {130, 132} =>
                   (SumOf(receivedHeader) + SumOf(receivedBytes)) % 256 = 0
    BY SMT, <1>3, <2>2, AudioBytes
  <2>3. ASSUME NEW c \in ClockGenerics, packet = Buffers(AcrPacket(c[1], c[2]))
        PROVE  receivedHeader[1] \in {130, 132} =>
                   (SumOf(receivedHeader) + SumOf(receivedBytes)) % 256 = 0
    <3>1. /\ IsBytes(AcrPacket(c[1], c[2]).header, 3) /\ AcrPacket(c[1], c[2]).header[1] = 1
          /\ IsBytes(AcrPacket(c[1], c[2]).pb, 7)
      BY SMT, <1>2, AcrBytes
    <3> QED
      BY SMT, <1>3, <2>3, <3>1
  <2> QED
    BY SMT, <2>1, <2>2, <2>3 DEF TablePackets
<1>5. ASSUME NEW c \in ClockGenerics, packet = Buffers(AcrPacket(c[1], c[2]))
      PROVE  Regenerates(c[1], c[2])
  BY SMT, <1>1, <1>2, <1>5, ClockRegenerated
<1> QED
  BY SMT, <1>4, <1>5

(* Whatever generics hdmi_tx is built with, the sink finds right checksums in*)
(* the infoframes, and a clock regeneration packet gives it the sampling     *)
(* frequency within 50 ppm.                                                  *)
THEOREM InfoAccepted == Spec => []SinkAcceptsInfo
  BY BlockTyped, IslandsAreCodewords, SinkAccepts, PTL

=============================================================================
