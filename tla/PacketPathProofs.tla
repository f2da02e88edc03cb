--------------------------- MODULE PacketPathProofs ---------------------------
(* The packets of hdmi_tx, from the sample FIFO to the sink.  hdmi_tx_scfifo *)
(* implements SampleQueue for every depth and every set of words: the        *)
(* refinement mapping is contents, the words between the two addresses.  The *)
(* audio packet generator uses that queue within its contract.  And with the *)
(* infoframe generator, the arbiter and the island assembler it is a packet  *)
(* bus: no packet is torn, lost or out of its turn.                          *)
EXTENDS ScFifo, AudioStream, PacketPath, SequenceTheorems, TLAPS

-----------------------------------------------------------------------------
(* The inductive invariant: the counter and the two address registers, which *)
(* are kept apart in the code, agree.                                        *)
RingInv == RingTypeOK /\ waddr = Behind(usedw)

LEMMA ModSmall == ASSUME NEW m \in Nat \ {0}, NEW x \in 0..(m - 1) PROVE x % m = x
  OBVIOUS

LEMMA InitRingInv == RingInit => RingInv
  BY FifoAssumption DEF RingInit, RingInv, RingTypeOK, Addr, RamWord, Behind

\* Within the contract the counter neither overflows nor underflows.
LEMMA CounterStaysInRange ==
    ASSUME RingInv, NEW wrreq \in BOOLEAN, NEW rdack \in BOOLEAN,
           rdack => usedw > 0, wrreq => usedw < Depth \/ rdack
    PROVE  /\ nextUsedw(wrreq, rdack) \in 0..Depth
           /\ nextUsedw(wrreq, rdack) =
                 usedw + (IF wrreq THEN 1 ELSE 0) - (IF rdack THEN 1 ELSE 0)
<1>1. usedw \in 0..Depth /\ Depth \in Nat /\ 2 * Depth \in Nat \ {0} /\ Depth < 2 * Depth
  BY FifoAssumption DEF RingInv, RingTypeOK
<1>2. CASE rdack /\ ~wrreq
  <2>1. usedw - 1 \in 0..(2 * Depth - 1)
    BY <1>1, <1>2
  <2>2. (usedw - 1) % (2 * Depth) = usedw - 1
    BY <1>1, <2>1, ModSmall
  <2> QED
    BY <1>1, <1>2, <2>2 DEF nextUsedw
<1>3. CASE wrreq /\ ~rdack
  <2>1. usedw + 1 \in 0..(2 * Depth - 1) /\ usedw + 1 <= Depth
    BY <1>1, <1>3
  <2>2. (usedw + 1) % (2 * Depth) = usedw + 1
    BY <1>1, <2>1, ModSmall
  <2> QED
    BY <1>1, <1>3, <2>1, <2>2 DEF nextUsedw
<1>4. CASE wrreq = rdack
  BY <1>1, <1>4 DEF nextUsedw
<1> QED
  BY <1>2, <1>3, <1>4

\* The ports: what a clock edge does to the RAM and to q_reg.
LEMMA MemoryKeepsTypes ==
    ASSUME RingTypeOK, NEW wrreq \in BOOLEAN, NEW rdack \in BOOLEAN, NEW data \in Data,
           MemoryEdge(wrreq, data, rdack)
    PROVE  /\ ram' \in [Addr -> RamWord]
           /\ q_reg' \in RamWord
<1>1. ram \in [Addr -> RamWord] /\ waddr \in Addr /\ raddr \in Addr /\ data \in RamWord
  BY DEF RingTypeOK, RamWord
<1>2. addr(rdack) \in Addr
  BY <1>1, FifoAssumption DEF addr, NextAddr, Addr
<1> QED
  BY <1>1, <1>2 DEF MemoryEdge

LEMMA ClockKeepsRingInv ==
    ASSUME RingInv, NEW wrreq \in BOOLEAN, NEW rdack \in BOOLEAN, NEW data \in Data,
           RingClock(wrreq, data, rdack)
    PROVE  /\ RingInv'
           /\ usedw' = usedw + (IF wrreq THEN 1 ELSE 0) - (IF rdack THEN 1 ELSE 0)
<1>1. /\ raddr \in 0..(Depth - 1) /\ waddr \in 0..(Depth - 1) /\ usedw \in 0..Depth
      /\ Depth \in Nat /\ Depth >= 2
      /\ waddr = IF raddr + usedw >= Depth THEN raddr + usedw - Depth ELSE raddr + usedw
  BY FifoAssumption DEF RingInv, RingTypeOK, Addr, Behind
<1>2. ram' \in [Addr -> RamWord] /\ q_reg' \in RamWord
  BY MemoryKeepsTypes DEF RingInv, RingClock
<1>3. /\ usedw' \in 0..Depth
      /\ usedw' = usedw + (IF wrreq THEN 1 ELSE 0) - (IF rdack THEN 1 ELSE 0)
  BY CounterStaysInRange DEF RingClock, AddressEdge
<1>4. /\ waddr' = IF wrreq THEN IF waddr = Depth - 1 THEN 0 ELSE waddr + 1 ELSE waddr
      /\ raddr' = IF rdack THEN IF raddr = Depth - 1 THEN 0 ELSE raddr + 1 ELSE raddr
  BY DEF RingClock, AddressEdge, NextAddr
<1>5. waddr' \in 0..(Depth - 1) /\ raddr' \in 0..(Depth - 1)
  BY <1>1, <1>4
<1>6. waddr' = IF raddr' + usedw' >= Depth THEN raddr' + usedw' - Depth
                                           ELSE raddr' + usedw'
  BY <1>1, <1>3, <1>4
<1>7. emptyDelay' \in BOOLEAN
  BY DEF RingClock, AddressEdge
<1> QED
  BY <1>2, <1>3, <1>5, <1>6, <1>7 DEF RingInv, RingTypeOK, Addr, Behind

LEMMA ClearKeepsRingInv == ASSUME RingInv, Clear PROVE RingInv'
<1>1. ram' \in [Addr -> RamWord] /\ q_reg' \in RamWord
  BY MemoryKeepsTypes DEF RingInv, Clear
<1> QED
  BY <1>1, FifoAssumption DEF Clear, RingInv, RingTypeOK, Addr, Behind

(* The two addresses and the counter of the FIFO always agree: waddr is usedw*)
(* words behind raddr, whatever is read and written within the contract.     *)
THEOREM AddressesAgree == RingSpec => []RingInv
<1>1. ASSUME RingInv, [RingNext]_fifoVars PROVE RingInv'
  <2>1. ASSUME NEW wrreq \in BOOLEAN, NEW rdack \in BOOLEAN, NEW data \in Data,
               RingClock(wrreq, data, rdack)
        PROVE  RingInv'
    BY <1>1, <2>1, ClockKeepsRingInv
  <2>2. CASE Clear
    BY <1>1, <2>2, ClearKeepsRingInv
  <2>3. CASE UNCHANGED fifoVars
    BY <1>1, <2>3 DEF fifoVars, RingInv, RingTypeOK, Behind
  <2> QED
    BY <1>1, <2>1, <2>2, <2>3 DEF RingNext
<1> QED
  BY <1>1, InitRingInv, PTL DEF RingSpec

-----------------------------------------------------------------------------
(* The refinement.                                                           *)
LEMMA BehindIsAddress ==
    ASSUME RingInv, NEW i \in 0..Depth
    PROVE  Behind(i) \in Addr
  BY FifoAssumption DEF RingInv, RingTypeOK, Addr, Behind

LEMMA ContentsIsSequence ==
    ASSUME RingInv
    PROVE  /\ contents \in Seq(RamWord)
           /\ Len(contents) = usedw
           /\ \A i \in 1..usedw : contents[i] = ram[Behind(i - 1)]
<1>1. usedw \in Nat /\ usedw <= Depth /\ Depth \in Nat
  BY FifoAssumption DEF RingInv, RingTypeOK
<1>2. \A i \in 1..usedw : ram[Behind(i - 1)] \in RamWord
  <2> TAKE i \in 1..usedw
  <2>1. i - 1 \in 0..Depth
    BY <1>1
  <2> QED
    BY <2>1, BehindIsAddress DEF RingInv, RingTypeOK
<1> QED
  BY <1>1, <1>2 DEF contents

LEMMA ContentsInNextState ==
    (RingInv => /\ contents \in Seq(RamWord)
                /\ Len(contents) = usedw
                /\ \A i \in 1..usedw : contents[i] = ram[Behind(i - 1)])'
<1>1. RingInv => /\ contents \in Seq(RamWord)
                 /\ Len(contents) = usedw
                 /\ \A i \in 1..usedw : contents[i] = ram[Behind(i - 1)]
  BY ContentsIsSequence
<1> QED
  BY <1>1, PTL

\* What is left of the contents when the word acknowledged is gone.
Rest(rdack) == IF rdack /\ contents # <<>> THEN Tail(contents) ELSE contents
Gone(rdack) == IF rdack THEN 1 ELSE 0

LEMMA RestOfContents ==
    ASSUME RingInv, NEW rdack \in BOOLEAN, rdack => usedw > 0
    PROVE  /\ Rest(rdack) \in Seq(RamWord)
           /\ Len(Rest(rdack)) = usedw - Gone(rdack)
           /\ \A i \in 1..(usedw - Gone(rdack)) :
                 Rest(rdack)[i] = ram[Behind(i - 1 + Gone(rdack))]
<1>1. usedw \in Nat
  BY DEF RingInv, RingTypeOK
<1>2. /\ contents \in Seq(RamWord) /\ Len(contents) = usedw
      /\ \A i \in 1..usedw : contents[i] = ram[Behind(i - 1)]
  BY ContentsIsSequence
<1>3. CASE rdack
  <2>1. contents # <<>>
    BY <1>1, <1>2, <1>3
  <2>2. Rest(rdack) = Tail(contents)
    BY <1>3, <2>1 DEF Rest
  <2>3. /\ Tail(contents) \in Seq(RamWord) /\ Len(Tail(contents)) = usedw - 1
        /\ \A i \in 1..(usedw - 1) : Tail(contents)[i] = contents[i + 1]
    BY <1>2, <2>1, HeadTailProperties
  <2>4. ASSUME NEW i \in 1..(usedw - 1)
        PROVE  Tail(contents)[i] = ram[Behind(i - 1 + 1)]
    <3>1. i + 1 \in 1..usedw /\ (i + 1) - 1 = i - 1 + 1
      BY <1>1
    <3>2. contents[i + 1] = ram[Behind((i + 1) - 1)]
      BY <1>2, <3>1
    <3> QED
      BY <2>3, <3>1, <3>2
  <2> QED
    BY <1>3, <2>2, <2>3, <2>4 DEF Gone
<1>4. CASE ~rdack
  <2>1. Rest(rdack) = contents /\ Gone(rdack) = 0
    BY <1>4 DEF Rest, Gone
  <2>2. \A i \in 1..usedw : i - 1 + 0 = i - 1
    OBVIOUS
  <2> QED
    BY <1>1, <1>2, <2>1, <2>2
<1> QED
  BY <1>3, <1>4

\* After an edge the ring holds the rest and the word written.
LEMMA ContentsAfterClock ==
    ASSUME RingInv, NEW wrreq \in BOOLEAN, NEW rdack \in BOOLEAN, NEW data \in Data,
           RingClock(wrreq, data, rdack)
    PROVE  contents' = IF wrreq THEN Append(Rest(rdack), data) ELSE Rest(rdack)
<1> DEFINE left == usedw - Gone(rdack)
           next == IF wrreq THEN Append(Rest(rdack), data) ELSE Rest(rdack)
<1>1. /\ raddr \in 0..(Depth - 1) /\ usedw \in 0..Depth
      /\ Depth \in Nat /\ Depth >= 2
      /\ waddr = Behind(usedw) /\ waddr \in Addr
      /\ ram \in [Addr -> RamWord] /\ data \in RamWord
  BY FifoAssumption DEF RingInv, RingTypeOK, Addr, RamWord
<1>2. RingInv' /\ usedw' = left + (IF wrreq THEN 1 ELSE 0)
  <2>1. RingInv' /\ usedw' = usedw + (IF wrreq THEN 1 ELSE 0) - (IF rdack THEN 1 ELSE 0)
    BY ClockKeepsRingInv
  <2> QED
    BY <1>1, <2>1 DEF Gone
<1>3. /\ contents' \in Seq(RamWord) /\ Len(contents') = usedw'
      /\ \A i \in 1..usedw' : contents'[i] = ram'[Behind(i - 1)']
  BY <1>2, ContentsInNextState
<1>4. /\ Rest(rdack) \in Seq(RamWord) /\ Len(Rest(rdack)) = left
      /\ \A i \in 1..left : Rest(rdack)[i] = ram[Behind(i - 1 + Gone(rdack))]
  BY RestOfContents DEF RingClock
<1>5. left \in Nat /\ left <= Depth /\ Gone(rdack) \in {0, 1} /\ left + Gone(rdack) = usedw
  BY <1>1 DEF Gone, RingClock
<1>6. raddr' = IF rdack THEN NextAddr(raddr) ELSE raddr
  BY DEF RingClock, AddressEdge
<1>7. ASSUME NEW i \in 1..(left + 1)
      PROVE  Behind(i - 1)' = Behind(i - 1 + Gone(rdack))
  BY <1>1, <1>5, <1>6 DEF Behind, NextAddr, Gone
<1>8. ram' = IF wrreq THEN [ram EXCEPT ![waddr] = data] ELSE ram
  BY DEF RingClock, MemoryEdge
<1>9. ASSUME NEW i \in 1..left
      PROVE  ram'[Behind(i - 1)'] = Rest(rdack)[i]
  <2>1. Behind(i - 1)' = Behind(i - 1 + Gone(rdack))
    BY <1>5, <1>7
  <2>2. Behind(i - 1 + Gone(rdack)) \in Addr
    BY <1>1, <1>5 DEF Behind, Addr
  <2>3. ASSUME wrreq PROVE Behind(i - 1 + Gone(rdack)) # waddr
    <3>1. wrreq => usedw < Depth \/ rdack
      BY DEF RingClock
    <3> QED
      BY <1>1, <1>5, <2>3, <3>1 DEF Behind, Gone
  <2>4. ram'[Behind(i - 1 + Gone(rdack))] = ram[Behind(i - 1 + Gone(rdack))]
    BY <1>1, <1>8, <2>2, <2>3
  <2> QED
    BY <1>4, <2>1, <2>4
<1>10. next \in Seq(RamWord) /\ Len(next) = usedw'
  <2>1. CASE wrreq
    BY <1>1, <1>2, <1>4, <2>1, AppendProperties
  <2>2. CASE ~wrreq
    BY <1>2, <1>4, <1>5, <2>2
  <2> QED
    BY <2>1, <2>2
<1>11. ASSUME NEW i \in 1..usedw' PROVE contents'[i] = next[i]
  <2>1. contents'[i] = ram'[Behind(i - 1)']
    BY <1>3
  <2>2. CASE i \in 1..left
    <3>1. contents'[i] = Rest(rdack)[i]
      BY <1>9, <2>1, <2>2
    <3>2. next[i] = Rest(rdack)[i]
      BY <1>1, <1>4, <2>2, AppendProperties
    <3> QED
      BY <3>1, <3>2
  <2>3. CASE i \notin 1..left
    <3>1. wrreq /\ i = left + 1
      BY <1>2, <1>5, <2>3
    <3>2. Behind(i - 1)' = Behind(left + 1 - 1 + Gone(rdack))
      BY <1>5, <1>7, <3>1
    <3>3. Behind(left + 1 - 1 + Gone(rdack)) = waddr
      <4>1. left + 1 - 1 + Gone(rdack) = usedw
        BY <1>1, <1>5
      <4> QED
        BY <1>1, <4>1
    <3>4. ram'[waddr] = data
      BY <1>1, <1>8, <3>1
    <3>5. next[i] = data
      BY <1>1, <1>4, <3>1, AppendProperties
    <3> QED
      BY <2>1, <3>2, <3>3, <3>4, <3>5
  <2> QED
    BY <2>2, <2>3
<1>12. contents' = next
  <2> HIDE DEF next
  <2> QED
    BY <1>3, <1>10, <1>11, SeqEqual
<1> QED
  BY <1>12

\* The registered output shows the head of the rest.
LEMMA OutputAfterClock ==
    ASSUME RingInv, NEW wrreq \in BOOLEAN, NEW rdack \in BOOLEAN, NEW data \in Data,
           RingClock(wrreq, data, rdack), Rest(rdack) # <<>>
    PROVE  q_reg' = Head(Rest(rdack))
<1>1. /\ Rest(rdack) \in Seq(RamWord) /\ Len(Rest(rdack)) = usedw - Gone(rdack)
      /\ \A i \in 1..(usedw - Gone(rdack)) :
            Rest(rdack)[i] = ram[Behind(i - 1 + Gone(rdack))]
  BY RestOfContents DEF RingClock
<1>2. Head(Rest(rdack)) = Rest(rdack)[1] /\ 1 \in 1..(usedw - Gone(rdack))
  BY <1>1
<1>3. Behind(1 - 1 + Gone(rdack)) = addr(rdack)
  BY FifoAssumption DEF Behind, Gone, addr, NextAddr, RingInv, RingTypeOK, Addr
<1>4. q_reg' = ram[addr(rdack)]
  BY DEF RingClock, MemoryEdge
<1> QED
  BY <1>1, <1>2, <1>3, <1>4

LEMMA ClockIsQueueStep ==
    ASSUME RingInv, NEW wrreq \in BOOLEAN, NEW rdack \in BOOLEAN, NEW data \in Data,
           RingClock(wrreq, data, rdack)
    PROVE  Queue!LegalUse(wrreq, rdack) /\ Queue!Edge(wrreq, data, rdack)
<1>1. Queue!LegalUse(wrreq, rdack)
  <2>1. Len(contents) = usedw
    BY ContentsIsSequence
  <2> QED
    BY <2>1 DEF Queue!LegalUse, Queue!usedw, RingClock
<1>2. contents' = IF wrreq THEN Append(Rest(rdack), data) ELSE Rest(rdack)
  BY ContentsAfterClock
<1>3. IF Rest(rdack) = <<>> THEN q_reg' \in RamWord ELSE q_reg' = Head(Rest(rdack))
  <2>1. q_reg' \in RamWord
    BY ClockKeepsRingInv DEF RingInv, RingTypeOK
  <2> QED
    BY <2>1, OutputAfterClock
<1> QED
  BY <1>1, <1>2, <1>3 DEF Queue!Edge, Rest

LEMMA NothingInTheRing == ASSUME RingInv, usedw = 0 PROVE contents = <<>>
<1>1. contents \in Seq(RamWord) /\ Len(contents) = 0
  BY ContentsIsSequence
<1> QED
  BY <1>1

LEMMA ClearIsQueueStep == ASSUME RingInv, Clear PROVE Queue!Clear
<1>1. RingInv' /\ usedw' = 0
  BY ClearKeepsRingInv DEF Clear
<1>2. contents' = <<>>
  <2>1. contents' \in Seq(RamWord) /\ Len(contents') = 0
    BY <1>1, ContentsInNextState
  <2> QED
    BY <2>1
<1> QED
  BY <1>1, <1>2 DEF Queue!Clear, RingInv, RingTypeOK

(* The ring is a queue, for every depth of at least two words and every set  *)
(* of words: no word is lost, repeated or reordered across the wrap of the   *)
(* addresses of hdmi_tx_scfifo, a full ring takes a word while one is read,  *)
(* and q_reg is late by exactly one edge.                                    *)
THEOREM RingImplementsQueue == RingSpec => ImplementsQueue
<1>1. RingInit => Queue!Init
  <2> SUFFICES ASSUME RingInit PROVE Queue!Init
    OBVIOUS
  <2>1. contents = <<>>
    BY InitRingInv, NothingInTheRing DEF RingInit
  <2> QED
    BY <2>1 DEF RingInit, Queue!Init, RamWord
<1>2. ASSUME RingInv, [RingNext]_fifoVars PROVE [Queue!Next]_<<contents, q_reg>>
  <2>1. ASSUME NEW wrreq \in BOOLEAN, NEW rdack \in BOOLEAN, NEW data \in Data,
               RingClock(wrreq, data, rdack)
        PROVE  Queue!Next
    BY <1>2, <2>1, ClockIsQueueStep DEF Queue!Next
  <2>2. CASE Clear
    BY <1>2, <2>2, ClearIsQueueStep DEF Queue!Next
  <2>3. CASE UNCHANGED fifoVars
    BY <2>3 DEF fifoVars, contents, Behind
  <2> QED
    BY <1>2, <2>1, <2>2, <2>3 DEF RingNext
<1> QED
  BY <1>1, <1>2, AddressesAgree, PTL DEF RingSpec, ImplementsQueue, Queue!Spec

-----------------------------------------------------------------------------
(* The audio packet generator.                                               *)

\* The three registers that follow pcm_fs hold what its age tells.
FsShown(i) == pcmFs[i] <=> fsAge \in (4 - i)..(7 - i)
FsSeen == \A i \in 1..3 : FsShown(i)

\* The byte counter runs in step with the age of the rise it was started by,
\* so that the next rise finds it back at 0.
InStep ==
    /\ byteCounter \in 1..6 => fsAge = byteCounter + 2
    /\ byteCounter = 7 => fsAge = 1 \/ fsAge >= 8

\* The sample being cut into bytes is one sample, and so is its parity.
OneSample ==
    /\ byteCounter # 0 => \E p \in Pcm : pcmData = {p}
    /\ byteCounter \in 1..4 => pcmData = {sample}
    /\ byteCounter \in 2..7 => parity = pcmData

Chained(s) == \A i \in 1..(Len(s) - 1) : Follows(s[i], s[i + 1])
Untorn(s)  == \A i \in 1..Len(s) : \E p \in Pcm : s[i][3] = {p}

\* The last word queued is the one before the byte counter's.
Newest(w) ==
    IF byteCounter \in 2..7
    THEN w = <<byteCounter - 1, frameCount, pcmData>>
    ELSE w[1] = SUBFRAME /\ frameCount = NextFrame(w[2])

Cut ==
    /\ Chained(queue) /\ Untorn(queue)
    /\ queue # <<>> => Newest(queue[Len(queue)])

\* The words of the sample being cut have their places in the FIFO.
Room == byteCounter # 0 => Len(queue) + 8 - byteCounter < PcmFifoDepth

\* What is still to be read of the packet under way is in the FIFO.
Supply ==
    /\ readAck <=> dataCounter \in 1..PACKET
    /\ readAck => Len(queue) + dataCounter > PACKET

\* What is true of the generator behind any enable input that only comes when
\* the registers have seen the source.
AudioCore ==
    /\ AudioTypeOK /\ fsAge \in 1..FsPeriod /\ sample \in Pcm
    /\ InStep /\ OneSample /\ Cut /\ Room /\ Supply

\* A sample is captured at one age of its rise, and then no byte is under way.
LEMMA CaptureIsAlone ==
    ASSUME AudioCore, NEW enable \in BOOLEAN, enable => FsSeen, capture(enable)
    PROVE  fsAge = 2 /\ byteCounter = 0 /\ Len(queue) < PcmFifoDepth - 8
<1>1. fsAge \in 1..FsPeriod /\ FsPeriod \in Nat /\ byteCounter \in 0..7
  BY SourceAssumption DEF AudioCore, AudioTypeOK, SUBFRAME
<1>2. fsAge = 2
  BY <1>1 DEF capture, fsRise, fifoReady, FsSeen, FsShown
<1>3. byteCounter = 0
  BY <1>1, <1>2 DEF AudioCore, InStep
<1> QED
  BY <1>2, <1>3 DEF capture, fifoReady, Fifo!usedw

\* The source at one edge: either pcm_fs rises anew, or the sample stays.
SourceStep(pcm_fs, pcm) ==
    /\ \/ fsAge = FsPeriod /\ pcm_fs /\ fsAge' = 1
       \/ /\ pcm_fs <=> fsAge < 4
          /\ fsAge' = (IF fsAge < FsPeriod THEN fsAge + 1 ELSE FsPeriod)
          /\ sample' = sample
          /\ fsAge < 5 => pcm = sample
    /\ fsAge \in 1..FsPeriod /\ fsAge' \in 1..FsPeriod
    /\ sample' \in Pcm

LEMMA SourceSteps ==
    ASSUME AudioCore, NEW pcm_fs \in BOOLEAN, NEW pcm \in Pcm, SourceEdge(pcm_fs, pcm)
    PROVE  SourceStep(pcm_fs, pcm)
<1>1. fsAge \in 1..FsPeriod /\ sample \in Pcm /\ FsPeriod \in Nat /\ FsPeriod >= 8
  BY SourceAssumption DEF AudioCore
<1>2. CASE FsRises(pcm_fs, pcm)
  BY <1>1, <1>2 DEF FsRises, SourceStep
<1>3. CASE FsContinues(pcm_fs, pcm)
  <2>1. /\ fsAge < 5 => pcm = sample
        /\ fsAge' = (IF fsAge < FsPeriod THEN fsAge + 1 ELSE FsPeriod)
        /\ sample' = sample
    BY <1>3 DEF FsContinues, HOLD
  <2>2. pcm_fs <=> fsAge < 4
    BY <1>3 DEF FsContinues, FS_HIGH
  <2>3. fsAge' \in 1..FsPeriod
    BY <1>1, <2>1
  <2> QED
    BY <1>1, <2>1, <2>2, <2>3 DEF SourceStep
<1> QED
  BY <1>2, <1>3 DEF SourceEdge

\* One edge sets the newest register right and carries the others on.
LEMMA ClockFsShown ==
    ASSUME NEW pcm_fs \in BOOLEAN, NEW pcm \in Pcm, SourceStep(pcm_fs, pcm),
           pcmFs' = <<pcmFs[2], pcmFs[3], pcm_fs>>
    PROVE  /\ FsShown(3)'
           /\ FsShown(3) => FsShown(2)'
           /\ FsShown(2) => FsShown(1)'
<1>1. pcmFs'[1] = pcmFs[2] /\ pcmFs'[2] = pcmFs[3] /\ pcmFs'[3] = pcm_fs
  OBVIOUS
<1>2. FsPeriod \in Nat /\ FsPeriod >= 8
  BY SourceAssumption
<1>3. /\ \/ fsAge = FsPeriod /\ pcm_fs /\ fsAge' = 1
         \/ /\ pcm_fs <=> fsAge < 4
            /\ fsAge' = (IF fsAge < FsPeriod THEN fsAge + 1 ELSE FsPeriod)
      /\ fsAge \in 1..FsPeriod /\ fsAge' \in 1..FsPeriod
  BY DEF SourceStep
<1>4. FsShown(3)'
  BY <1>1, <1>2, <1>3 DEF FsShown
<1>5. FsShown(3) => FsShown(2)'
  BY <1>1, <1>2, <1>3 DEF FsShown
<1>6. FsShown(2) => FsShown(1)'
  BY <1>1, <1>2, <1>3 DEF FsShown
<1> QED
  BY <1>4, <1>5, <1>6

\* The capture side at one edge, in plain terms.
CaptureStep(pcm) ==
    /\ byteCounter \in 0..7 /\ byteCounter' \in 0..7
    /\ byteCounter \in 1..6 => byteCounter' = byteCounter + 1
    /\ byteCounter = 7 => byteCounter' = 0
    /\ byteCounter = 0 =>
          \/ byteCounter' = 0
          \/ /\ byteCounter' = 1 /\ fsAge = 2
             /\ Len(queue) < PcmFifoDepth - 8
             /\ pcmData' = {pcm} /\ pcm = sample
    /\ byteCounter # 0 => pcmData' = pcmData
    /\ byteCounter # 7 => frameCount' = frameCount
    /\ byteCounter = 7 => frameCount' = NextFrame(frameCount)

LEMMA CaptureSteps ==
    ASSUME AudioCore, NEW enable \in BOOLEAN, NEW pcm_fs \in BOOLEAN, NEW pcm \in Pcm,
           enable => FsSeen,
           SourceEdge(pcm_fs, pcm), CaptureEdge(enable, pcm_fs, pcm)
    PROVE  CaptureStep(pcm)
<1>1. byteCounter \in 0..7
  BY DEF AudioCore, AudioTypeOK, SUBFRAME
<1>2. byteCounter' = IF capture(enable) \/ byteCounter # 0 THEN (byteCounter + 1) % 8 ELSE 0
  BY DEF CaptureEdge
<1>3. capture(enable) => fsAge = 2 /\ byteCounter = 0 /\ Len(queue) < PcmFifoDepth - 8
  BY CaptureIsAlone
<1>4. byteCounter \in 0..6 => (byteCounter + 1) % 8 = byteCounter + 1
  BY <1>1
<1>5. byteCounter = 7 => (byteCounter + 1) % 8 = 0
  BY <1>1
<1>6. fsAge = 2 => pcm = sample
  <2>1. SourceStep(pcm_fs, pcm)
    BY SourceSteps
  <2> QED
    BY <2>1, SourceAssumption DEF SourceStep
<1>7. pcmData' = IF capture(enable) THEN {pcm} ELSE pcmData
  BY DEF CaptureEdge
<1>8. frameCount' = IF byteCounter = 7 THEN NextFrame(frameCount) ELSE frameCount
  BY DEF CaptureEdge, SUBFRAME
<1> QED
  BY <1>1, <1>2, <1>3, <1>4, <1>5, <1>6, <1>7, <1>8 DEF CaptureStep

LEMMA ClockInStep ==
    ASSUME AudioCore, NEW pcm_fs \in BOOLEAN, NEW pcm \in Pcm,
           SourceStep(pcm_fs, pcm), CaptureStep(pcm)
    PROVE  InStep'
<1>1. /\ \/ fsAge = FsPeriod /\ fsAge' = 1
         \/ fsAge' = (IF fsAge < FsPeriod THEN fsAge + 1 ELSE FsPeriod)
      /\ fsAge \in 1..FsPeriod
  BY DEF SourceStep
<1>2. /\ byteCounter \in 0..7 /\ byteCounter' \in 0..7
      /\ byteCounter \in 1..6 => byteCounter' = byteCounter + 1
      /\ byteCounter = 7 => byteCounter' = 0
      /\ byteCounter = 0 => byteCounter' = 0 \/ (byteCounter' = 1 /\ fsAge = 2)
  BY DEF CaptureStep
<1>3. byteCounter \in 1..6 => fsAge = byteCounter + 2
  BY DEF AudioCore, InStep
<1> QED
  BY <1>1, <1>2, <1>3, SourceAssumption DEF InStep

LEMMA ClockOneSample ==
    ASSUME AudioCore, NEW enable \in BOOLEAN, NEW pcm_fs \in BOOLEAN, NEW pcm \in Pcm,
           SourceStep(pcm_fs, pcm), CaptureStep(pcm), CaptureEdge(enable, pcm_fs, pcm)
    PROVE  OneSample'
<1>1. /\ byteCounter # 0 => \E p \in Pcm : pcmData = {p}
      /\ byteCounter \in 1..4 => pcmData = {sample}
      /\ byteCounter \in 2..7 => parity = pcmData
      /\ byteCounter \in 1..6 => fsAge = byteCounter + 2
  BY DEF AudioCore, OneSample, InStep
<1>2. /\ byteCounter \in 0..7 /\ byteCounter' \in 0..7
      /\ byteCounter \in 1..6 => byteCounter' = byteCounter + 1
      /\ byteCounter = 7 => byteCounter' = 0
      /\ byteCounter = 0 =>
            \/ byteCounter' = 0
            \/ byteCounter' = 1 /\ fsAge = 2 /\ pcmData' = {pcm} /\ pcm = sample
      /\ byteCounter # 0 => pcmData' = pcmData
  BY DEF CaptureStep
<1>3. fsAge < FsPeriod => sample' = sample
  BY SourceAssumption DEF SourceStep
<1>4. FsPeriod \in Nat /\ FsPeriod >= 8
  BY SourceAssumption
<1>5. byteCounter' # 0 => \E p \in Pcm : pcmData' = {p}
  BY <1>1, <1>2
<1>6. byteCounter' \in 1..4 => pcmData' = {sample'}
  BY <1>1, <1>2, <1>3, <1>4
<1>7. byteCounter' \in 2..7 => parity' = pcmData'
  <2> SUFFICES ASSUME byteCounter' \in 2..7 PROVE parity' = pcmData'
    OBVIOUS
  <2>1. byteCounter \in 1..6 /\ pcmData' = pcmData
    BY <1>2
  <2>2. parity' = nextParity
    BY DEF CaptureEdge
  <2>3. CASE byteCounter = 1
    BY <2>1, <2>2, <2>3 DEF nextParity
  <2>4. CASE byteCounter \in 2..6
    <3>1. nextParity = parity \cup pcmData
      BY <2>4 DEF nextParity
    <3>2. parity = pcmData
      BY <1>1, <2>4
    <3> QED
      BY <2>1, <2>2, <3>1, <3>2
  <2> QED
    BY <2>1, <2>3, <2>4
<1> QED
  BY <1>5, <1>6, <1>7 DEF OneSample

\* What an acknowledge leaves in the FIFO.
Unread(ack) == IF ack /\ queue # <<>> THEN Tail(queue) ELSE queue

LEMMA FifoSteps ==
    ASSUME NEW ready \in BOOLEAN, FifoEdge(ready)
    PROVE  /\ queue' = IF fifoWrite THEN Append(Unread(pcmFifoAck(ready)), fifoWord)
                                    ELSE Unread(pcmFifoAck(ready))
           /\ \/ q' = NoWord
              \/ /\ Unread(pcmFifoAck(ready)) # <<>>
                 /\ q' = Head(Unread(pcmFifoAck(ready)))
  BY DEF FifoEdge, Fifo!Edge, Unread

\* Whole sub-frames stay whole when the oldest word is read.
LEMMA UnreadIsCut ==
    ASSUME NEW ack, queue \in Seq(Word), Cut
    PROVE  /\ Unread(ack) \in Seq(Word)
           /\ Len(Unread(ack)) = Len(queue) - (IF ack /\ queue # <<>> THEN 1 ELSE 0)
           /\ Chained(Unread(ack)) /\ Untorn(Unread(ack))
           /\ Unread(ack) # <<>> => Newest(Unread(ack)[Len(Unread(ack))])
<1>1. Chained(queue) /\ Untorn(queue) /\ (queue # <<>> => Newest(queue[Len(queue)]))
  BY DEF Cut
<1>2. CASE ack /\ queue # <<>>
  <2>1. /\ Tail(queue) \in Seq(Word) /\ Len(Tail(queue)) = Len(queue) - 1
        /\ Len(queue) \in Nat
        /\ \A i \in 1..(Len(queue) - 1) : Tail(queue)[i] = queue[i + 1]
    BY <1>2, HeadTailProperties
  <2>2. Chained(Tail(queue))
    <3> SUFFICES ASSUME NEW i \in 1..(Len(Tail(queue)) - 1)
                 PROVE  Follows(Tail(queue)[i], Tail(queue)[i + 1])
      BY DEF Chained
    <3>1. /\ i \in 1..(Len(queue) - 1) /\ i + 1 \in 1..(Len(queue) - 1)
      BY <2>1
    <3>2. Tail(queue)[i] = queue[i + 1] /\ Tail(queue)[i + 1] = queue[(i + 1) + 1]
      BY <2>1, <3>1
    <3>3. Follows(queue[i + 1], queue[(i + 1) + 1])
      BY <1>1, <3>1 DEF Chained
    <3> QED
      BY <3>2, <3>3
  <2>3. Untorn(Tail(queue))
    <3> SUFFICES ASSUME NEW i \in 1..Len(Tail(queue))
                 PROVE  \E p \in Pcm : Tail(queue)[i][3] = {p}
      BY DEF Untorn
    <3>1. i \in 1..(Len(queue) - 1) /\ i + 1 \in 1..Len(queue)
      BY <2>1
    <3>2. \E p \in Pcm : queue[i + 1][3] = {p}
      BY <1>1, <3>1 DEF Untorn
    <3> QED
      BY <2>1, <3>1, <3>2
  <2>4. ASSUME Tail(queue) # <<>> PROVE Newest(Tail(queue)[Len(Tail(queue))])
    <3>1. Len(queue) - 1 \in 1..(Len(queue) - 1)
      <4>1. Len(Tail(queue)) # 0
        BY <2>1, <2>4, EmptySeq
      <4> QED
        BY <2>1, <4>1
    <3>2. Tail(queue)[Len(queue) - 1] = queue[(Len(queue) - 1) + 1]
      BY <2>1, <3>1
    <3>3. (Len(queue) - 1) + 1 = Len(queue)
      BY <2>1
    <3> QED
      BY <1>1, <1>2, <2>1, <3>2, <3>3
  <2>5. Unread(ack) = Tail(queue)
    BY <1>2 DEF Unread
  <2> QED
    BY <1>2, <2>1, <2>2, <2>3, <2>4, <2>5
<1>3. CASE ~(ack /\ queue # <<>>)
  <2>1. Unread(ack) = queue /\ Len(queue) \in Nat
    BY <1>3 DEF Unread
  <2> QED
    BY <1>1, <1>3, <2>1
<1> QED
  BY <1>2, <1>3

\* The word written at this edge continues the sub-frame the newest one began.
LEMMA WordFollows ==
    ASSUME AudioCore, fifoWrite, NEW w \in Word, Newest(w)
    PROVE  Follows(w, fifoWord)
<1>1. /\ byteCounter \in 1..7
      /\ byteCounter \in 2..7 => parity = pcmData
  BY DEF fifoWrite, AudioCore, AudioTypeOK, SUBFRAME, OneSample
<1>2. CASE byteCounter = 1
  <2>1. w[1] = SUBFRAME /\ frameCount = NextFrame(w[2])
    BY <1>2 DEF Newest
  <2> QED
    BY <1>2, <2>1 DEF Follows, fifoWord
<1>3. CASE byteCounter \in 2..7
  <2>1. w = <<byteCounter - 1, frameCount, pcmData>>
    BY <1>3 DEF Newest
  <2>2. w[1] = byteCounter - 1 /\ w[2] = frameCount /\ w[3] = pcmData
    BY <2>1
  <2>3. fifoWord = <<byteCounter, frameCount, pcmData>>
    BY <1>1, <1>3 DEF fifoWord
  <2>4. byteCounter - 1 # 7 /\ (byteCounter - 1) + 1 = byteCounter
    BY <1>3
  <2> QED
    BY <2>2, <2>3, <2>4 DEF Follows, SUBFRAME
<1> QED
  BY <1>1, <1>2, <1>3

LEMMA WordIsWord ==
    ASSUME AudioCore, fifoWrite
    PROVE  fifoWord \in Word /\ \E p \in Pcm : fifoWord[3] = {p}
<1>1. /\ byteCounter \in 1..7 /\ frameCount \in 0..(Frames - 1)
      /\ pcmData \in SUBSET Pcm /\ parity \in SUBSET Pcm
      /\ byteCounter \in 2..7 => parity = pcmData
      /\ \E p \in Pcm : pcmData = {p}
  BY DEF fifoWrite, AudioCore, AudioTypeOK, SUBFRAME, OneSample
<1>2. fifoWord = <<byteCounter, frameCount, pcmData>>
  BY <1>1 DEF fifoWord, SUBFRAME
<1> QED
  BY <1>1, <1>2 DEF Word, SUBFRAME

LEMMA ClockCut ==
    ASSUME AudioCore, NEW ready \in BOOLEAN, NEW pcm \in Pcm, CaptureStep(pcm),
           FifoEdge(ready)
    PROVE  Cut' /\ queue' \in Seq(Word)
<1> DEFINE left == Unread(pcmFifoAck(ready))
<1>1. queue \in Seq(Word) /\ Cut
  BY DEF AudioCore, AudioTypeOK
<1>2. /\ left \in Seq(Word) /\ Chained(left) /\ Untorn(left)
      /\ left # <<>> => Newest(left[Len(left)])
  BY <1>1, UnreadIsCut
<1>3. queue' = IF fifoWrite THEN Append(left, fifoWord) ELSE left
  BY FifoSteps
<1> HIDE DEF left
<1>4. Len(left) \in Nat
  BY <1>2
<1>5. CASE fifoWrite
  <2>1. fifoWord \in Word /\ \E p \in Pcm : fifoWord[3] = {p}
    BY <1>5, WordIsWord
  <2>2. /\ queue' \in Seq(Word) /\ Len(queue') = Len(left) + 1
        /\ \A i \in 1..Len(left) : queue'[i] = left[i]
        /\ queue'[Len(left) + 1] = fifoWord
    BY <1>2, <1>3, <1>5, <2>1, AppendProperties
  <2>3. ASSUME NEW i \in 1..(Len(queue') - 1)
        PROVE  Follows(queue'[i], queue'[i + 1])
    <3>1. i \in 1..Len(left) /\ queue'[i] = left[i] /\ left[i] \in Word
      BY <1>2, <1>4, <2>2
    <3>2. CASE i = Len(left)
      <4>1. left # <<>>
        BY <1>4, <3>1, <3>2
      <4>2. Newest(left[i])
        BY <1>2, <3>2, <4>1
      <4>3. Follows(left[i], fifoWord)
        BY <1>5, <3>1, <4>2, WordFollows
      <4> QED
        BY <2>2, <3>1, <3>2, <4>3
    <3>3. CASE i # Len(left)
      <4>1. i \in 1..(Len(left) - 1) /\ i + 1 \in 1..Len(left)
        BY <1>4, <3>1, <3>3
      <4>2. Follows(left[i], left[i + 1])
        BY <1>2, <4>1 DEF Chained
      <4> QED
        BY <2>2, <3>1, <4>1, <4>2
    <3> QED
      BY <3>2, <3>3
  <2>4. ASSUME NEW i \in 1..Len(queue') PROVE \E p \in Pcm : queue'[i][3] = {p}
    <3>1. CASE i = Len(left) + 1
      BY <2>1, <2>2, <3>1
    <3>2. CASE i # Len(left) + 1
      <4>1. i \in 1..Len(left)
        BY <1>4, <2>2, <3>2
      <4> QED
        BY <1>2, <2>2, <4>1 DEF Untorn
    <3> QED
      BY <3>1, <3>2
  <2>5. Newest(queue[Len(queue)])'
    <3>1. /\ byteCounter \in 1..7
          /\ byteCounter' = (IF byteCounter = 7 THEN 0 ELSE byteCounter + 1)
          /\ pcmData' = pcmData
          /\ byteCounter # 7 => frameCount' = frameCount
          /\ byteCounter = 7 => frameCount' = NextFrame(frameCount)
      BY <1>5 DEF CaptureStep, fifoWrite
    <3>2. queue'[Len(queue')] = fifoWord
      BY <2>2
    <3>3. CASE byteCounter = 7
      <4>1. fifoWord[1] = 7 /\ fifoWord[2] = frameCount
        BY <3>3 DEF fifoWord
      <4> QED
        BY <3>1, <3>2, <3>3, <4>1 DEF Newest, SUBFRAME, NextFrame
    <3>4. CASE byteCounter # 7
      <4>1. fifoWord = <<byteCounter, frameCount, pcmData>>
        BY <3>4 DEF fifoWord, SUBFRAME
      <4>2. byteCounter' \in 2..7 /\ byteCounter' - 1 = byteCounter
        BY <3>1, <3>4
      <4>3. queue'[Len(queue')] = <<byteCounter' - 1, frameCount', pcmData'>>
        BY <3>1, <3>2, <3>4, <4>1, <4>2
      <4> QED
        BY <4>2, <4>3 DEF Newest
    <3> QED
      BY <3>3, <3>4
  <2> QED
    BY <2>2, <2>3, <2>4, <2>5 DEF Cut, Chained, Untorn
<1>6. CASE ~fifoWrite
  <2>1. queue' = left
    BY <1>3, <1>6
  <2>2. ASSUME NEW w, Newest(w) PROVE Newest(w)'
    <3>1. byteCounter = 0
      BY <1>6 DEF fifoWrite
    <3>2. byteCounter' \in {0, 1} /\ frameCount' = frameCount
      BY <3>1 DEF CaptureStep
    <3> QED
      BY <2>2, <3>1, <3>2 DEF Newest
  <2> QED
    BY <1>2, <2>1, <2>2 DEF Cut, Chained, Untorn
<1> QED
  BY <1>5, <1>6

LEMMA ClockRoom ==
    ASSUME AudioCore, NEW ready \in BOOLEAN, NEW pcm \in Pcm, CaptureStep(pcm),
           FifoEdge(ready)
    PROVE  Room' /\ Len(queue') <= PcmFifoDepth
<1>1. /\ queue \in Seq(Word) /\ Len(queue) \in Nat /\ Len(queue) <= PcmFifoDepth
      /\ PcmFifoDepth \in Nat /\ Cut
  BY AudioAssumption DEF AudioCore, AudioTypeOK
<1>2. /\ Unread(pcmFifoAck(ready)) \in Seq(Word)
      /\ Len(Unread(pcmFifoAck(ready))) \in Nat
      /\ Len(Unread(pcmFifoAck(ready))) <= Len(queue)
  BY <1>1, UnreadIsCut
<1>3. /\ fifoWrite => Len(queue') <= Len(queue) + 1
      /\ ~fifoWrite => Len(queue') <= Len(queue)
      /\ Len(queue') \in Nat
  <2>1. CASE fifoWrite
    <3>1. Len(queue') = Len(Unread(pcmFifoAck(ready))) + 1
      BY <1>2, <2>1, FifoSteps, WordIsWord, AppendProperties
    <3> QED
      BY <1>1, <1>2, <2>1, <3>1
  <2>2. CASE ~fifoWrite
    BY <1>1, <1>2, <2>2, FifoSteps
  <2> QED
    BY <2>1, <2>2
<1>4. byteCounter # 0 => Len(queue) + 8 - byteCounter < PcmFifoDepth
  BY DEF AudioCore, Room
<1>5. fifoWrite <=> byteCounter # 0
  BY DEF fifoWrite
<1>6. /\ byteCounter \in 0..7 /\ byteCounter' \in 0..7
      /\ byteCounter \in 1..6 => byteCounter' = byteCounter + 1
      /\ byteCounter = 7 => byteCounter' = 0
      /\ byteCounter = 0 =>
            byteCounter' = 0 \/ (byteCounter' = 1 /\ Len(queue) < PcmFifoDepth - 8)
  BY DEF CaptureStep
<1> QED
  BY <1>1, <1>3, <1>4, <1>5, <1>6 DEF Room

\* The send side at one edge, in plain terms.
SendStep ==
    /\ dataCounter \in 0..31 /\ dataCounter' \in 0..31
    /\ dataCounter = 0 => dataCounter' = (IF Len(queue) >= 28 THEN 1 ELSE 0)
    /\ dataCounter = 1 => dataCounter' \in {1, 2}
    /\ dataCounter \in 2..30 => dataCounter' = dataCounter + 1
    /\ dataCounter = 31 => dataCounter' = 0
    /\ readAck' <=> \/ dataCounter = 0 /\ Len(queue) >= 28
                    \/ dataCounter # 28 /\ readAck
    /\ readAck' \in BOOLEAN

LEMMA SendSteps ==
    ASSUME AudioCore, NEW ready \in BOOLEAN, ~ready => MayStall, SendEdge(ready)
    PROVE  SendStep
<1>1. dataCounter \in 0..31
  BY DEF AudioCore, AudioTypeOK
<1>2. /\ dataCounter' = IF \/ dataCounter = 0 /\ arrival
                           \/ dataCounter # 0 /\ ready
                        THEN (dataCounter + 1) % 32 ELSE dataCounter
      /\ readAck' = \/ dataCounter = 0 /\ arrival
                    \/ dataCounter # 28 /\ readAck
  BY DEF SendEdge, LastRead, PACKET, SUBFRAME
<1>3. arrival <=> Len(queue) >= 28
  BY DEF arrival, Fifo!usedw, PACKET, SUBFRAME
<1>4. /\ dataCounter \in 0..30 => (dataCounter + 1) % 32 = dataCounter + 1
      /\ dataCounter = 31 => (dataCounter + 1) % 32 = 0
  BY <1>1
<1>5. dataCounter \in 2..31 => ready
  BY DEF MayStall
<1>6. readAck \in BOOLEAN
  BY DEF AudioCore, AudioTypeOK
<1>7. /\ dataCounter' \in 0..31
      /\ dataCounter = 0 => dataCounter' = IF Len(queue) >= 28 THEN 1 ELSE 0
      /\ dataCounter = 1 => dataCounter' \in {1, 2}
      /\ dataCounter \in 2..30 => dataCounter' = dataCounter + 1
      /\ dataCounter = 31 => dataCounter' = 0
  BY <1>1, <1>2, <1>3, <1>4, <1>5
<1>8. readAck' \in BOOLEAN
  BY <1>2
<1>9. readAck' <=> \/ dataCounter = 0 /\ Len(queue) >= 28
                   \/ dataCounter # 28 /\ readAck
  <2>1. readAck' <=> \/ dataCounter = 0 /\ arrival
                     \/ dataCounter # 28 /\ readAck
    BY <1>2
  <2> QED
    BY <1>3, <2>1
<1> QED
  BY <1>1, <1>7, <1>8, <1>9 DEF SendStep

LEMMA ClockSupply ==
    ASSUME AudioCore, NEW ready \in BOOLEAN, ~ready => MayStall, SendEdge(ready),
           FifoEdge(ready)
    PROVE  Supply'
<1>1. /\ readAck <=> dataCounter \in 1..28
      /\ readAck => Len(queue) + dataCounter > 28
  BY DEF AudioCore, Supply, PACKET, SUBFRAME
<1>2. SendStep
  BY SendSteps
<1>3. readAck' <=> dataCounter' \in 1..28
  BY <1>1, <1>2 DEF SendStep
<1>4. /\ Len(queue) \in Nat /\ Len(queue') \in Nat
      /\ Len(queue') >= Len(queue) - 1
      /\ ~(readAck /\ ready) => Len(queue') >= Len(queue)
  <2>1. queue \in Seq(Word) /\ Cut
    BY DEF AudioCore, AudioTypeOK
  <2>2. /\ Unread(pcmFifoAck(ready)) \in Seq(Word)
        /\ Len(queue) \in Nat
        /\ Len(Unread(pcmFifoAck(ready))) \in Nat
        /\ Len(Unread(pcmFifoAck(ready))) >= Len(queue) - 1
        /\ ~pcmFifoAck(ready) => Len(Unread(pcmFifoAck(ready))) = Len(queue)
    BY <2>1, UnreadIsCut
  <2>3. pcmFifoAck(ready) <=> readAck /\ ready
    BY DEF pcmFifoAck
  <2>4. Len(queue') \in Nat /\ Len(queue') >= Len(Unread(pcmFifoAck(ready)))
    <3>1. CASE fifoWrite
      BY <2>2, <3>1, FifoSteps, WordIsWord, AppendProperties
    <3>2. CASE ~fifoWrite
      BY <2>2, <3>2, FifoSteps
    <3> QED
      BY <3>1, <3>2
  <2> QED
    BY <2>2, <2>3, <2>4
<1>5. readAck' => Len(queue') + dataCounter' > 28
  <2> SUFFICES ASSUME dataCounter' \in 1..28 PROVE Len(queue') + dataCounter' > 28
    BY <1>3
  <2>1. CASE dataCounter = 0
    <3>1. ~readAck
      BY <1>1, <2>1
    <3>2. Len(queue') >= Len(queue)
      BY <1>4, <3>1
    <3>3. Len(queue) >= 28 /\ dataCounter' = 1
      BY <1>2, <2>1 DEF SendStep
    <3> QED
      BY <1>4, <3>2, <3>3
  <2>2. CASE dataCounter \in 1..28
    <3>1. Len(queue) + dataCounter > 28
      BY <1>1, <2>2
    <3>2. CASE ready
      <4>1. dataCounter' = dataCounter + 1
        <5>1. dataCounter' = (dataCounter + 1) % 32
          BY <2>2, <3>2 DEF SendEdge
        <5> QED
          BY <2>2, <5>1
      <4> QED
        BY <1>4, <2>2, <3>1, <4>1
    <3>3. CASE ~ready
      <4>1. dataCounter' = dataCounter
        BY <2>2, <3>3 DEF SendEdge
      <4> QED
        BY <1>4, <2>2, <3>1, <3>3, <4>1
    <3> QED
      BY <3>2, <3>3
  <2>3. CASE dataCounter \in 29..31
    BY <1>2, <2>3 DEF SendStep
  <2> QED
    BY <1>2, <2>1, <2>2, <2>3 DEF SendStep
<1> QED
  BY <1>3, <1>5 DEF Supply, PACKET, SUBFRAME

LEMMA ClockTypes ==
    ASSUME AudioCore, NEW enable \in BOOLEAN, NEW pcm_fs \in BOOLEAN,
           NEW ready \in BOOLEAN, NEW pcm \in Pcm,
           SourceStep(pcm_fs, pcm), CaptureStep(pcm), SendStep,
           AudioEdge(enable, pcm_fs, pcm, ready)
    PROVE  AudioTypeOK'
<1>1. /\ pcmFs \in BOOLEAN \X BOOLEAN \X BOOLEAN
      /\ byteCounter \in 0..7 /\ frameCount \in 0..(Frames - 1)
      /\ pcmData \in SUBSET Pcm /\ parity \in SUBSET Pcm
      /\ queue \in Seq(Word) /\ q \in Word \cup {NoWord}
      /\ marker \in [0..3 -> BOOLEAN]
      /\ Frames \in Nat \ {0}
  BY AudioAssumption DEF AudioCore, AudioTypeOK, SUBFRAME
<1>2. CaptureEdge(enable, pcm_fs, pcm) /\ SendEdge(ready) /\ FifoEdge(ready)
  BY DEF AudioEdge
<1>3. pcmFs' \in BOOLEAN \X BOOLEAN \X BOOLEAN
  <2>1. pcmFs' = <<pcmFs[2], pcmFs[3], pcm_fs>>
    BY <1>2 DEF CaptureEdge
  <2>2. pcmFs[2] \in BOOLEAN /\ pcmFs[3] \in BOOLEAN
    BY <1>1
  <2> QED
    BY <2>1, <2>2
<1>4. /\ byteCounter' \in 0..7
      /\ dataCounter' \in 0..31 /\ readAck' \in BOOLEAN
  BY DEF CaptureStep, SendStep
<1>5. frameCount' \in 0..(Frames - 1)
  <2>1. frameCount' = frameCount \/ frameCount' = NextFrame(frameCount)
    BY DEF CaptureStep
  <2> QED
    BY <1>1, <2>1 DEF NextFrame
<1>6. pcmData' \in SUBSET Pcm /\ parity' \in SUBSET Pcm
  <2>1. pcmData' = pcmData \/ pcmData' = {pcm}
    BY <1>2 DEF CaptureEdge
  <2>2. nextParity \in SUBSET Pcm
    BY <1>1 DEF nextParity
  <2>3. parity' = nextParity
    BY <1>2 DEF CaptureEdge
  <2> QED
    BY <1>1, <2>1, <2>2, <2>3
<1>7. marker' \in [0..3 -> BOOLEAN]
  <2> DEFINE latch(j) == /\ dataCounter # 0
                        /\ IF dataCounter = MarkerSlot(j)
                           THEN q # NoWord /\ FirstFlag(q) ELSE marker[j]
  <2>1. marker' = [j \in 0..3 |-> latch(j)]
    BY <1>2 DEF SendEdge
  <2>2. ASSUME NEW j \in 0..3 PROVE latch(j) \in BOOLEAN
    <3>1. marker[j] \in BOOLEAN
      BY <1>1
    <3> QED
      BY <3>1
  <2> HIDE DEF latch
  <2> QED
    BY <2>1, <2>2
<1>8. queue' \in Seq(Word) /\ Len(queue') <= PcmFifoDepth
  BY <1>2, ClockCut, ClockRoom
<1>9. q' \in Word \cup {NoWord}
  <2>1. Unread(pcmFifoAck(ready)) \in Seq(Word)
    BY <1>1, UnreadIsCut DEF AudioCore
  <2>2. CASE q' = NoWord
    BY <2>2
  <2>3. CASE /\ Unread(pcmFifoAck(ready)) # <<>>
             /\ q' = Head(Unread(pcmFifoAck(ready)))
    <3>1. Head(Unread(pcmFifoAck(ready))) \in Word
      BY <2>1, <2>3, HeadTailProperties
    <3> QED
      BY <2>3, <3>1
  <2> QED
    BY <1>2, <2>2, <2>3, FifoSteps
<1> QED
  BY <1>3, <1>4, <1>5, <1>6, <1>7, <1>8, <1>9 DEF AudioTypeOK, SUBFRAME

\* One edge of the source and the generator, and a consumer that only stalls
\* in front of the first byte of a packet.
LEMMA ClockKeepsAudioCore ==
    ASSUME AudioCore, NEW enable \in BOOLEAN, enable => FsSeen,
           NEW pcm_fs \in BOOLEAN, NEW pcm \in Pcm,
           NEW ready \in BOOLEAN, ~ready => MayStall,
           SourceEdge(pcm_fs, pcm), AudioEdge(enable, pcm_fs, pcm, ready)
    PROVE  AudioCore'
<1>1. CaptureEdge(enable, pcm_fs, pcm) /\ SendEdge(ready) /\ FifoEdge(ready)
  BY DEF AudioEdge
<1>2. SourceStep(pcm_fs, pcm)
  BY SourceSteps
<1>3. CaptureStep(pcm)
  BY <1>1, CaptureSteps
<1>4. SendStep
  BY <1>1, SendSteps
<1>5. AudioTypeOK' /\ fsAge' \in 1..FsPeriod /\ sample' \in Pcm
  BY <1>2, <1>3, <1>4, ClockTypes DEF SourceStep
<1>6. InStep'
  BY <1>2, <1>3, ClockInStep
<1>7. OneSample'
  BY <1>1, <1>2, <1>3, ClockOneSample
<1>8. Cut' /\ Room' /\ Supply'
  BY <1>1, <1>3, ClockCut, ClockRoom, ClockSupply
<1> QED
  BY <1>5, <1>6, <1>7, <1>8 DEF AudioCore

\* A generator in reset, whatever the source does.
AudioCleared ==
    /\ pcmFs = <<FALSE, FALSE, FALSE>> /\ byteCounter = 0 /\ frameCount = 0
    /\ pcmData = {} /\ parity = {} /\ queue = <<>> /\ q = NoWord
    /\ dataCounter = 0 /\ readAck = FALSE /\ marker = [j \in 0..3 |-> FALSE]
    /\ fsAge \in 1..FsPeriod /\ sample \in Pcm

LEMMA ClearedAudioCore == AudioCleared => AudioCore
<1> SUFFICES ASSUME AudioCleared PROVE AudioCore
  OBVIOUS
<1>1. AudioTypeOK
  <2>1. pcmFs \in BOOLEAN \X BOOLEAN \X BOOLEAN
    BY DEF AudioCleared
  <2>2. marker \in [0..3 -> BOOLEAN]
    BY DEF AudioCleared
  <2>3. readAck \in BOOLEAN
    BY DEF AudioCleared
  <2>4. queue \in Seq(Word) /\ Len(queue) = 0
    BY DEF AudioCleared
  <2>5. /\ frameCount \in 0..(Frames - 1) /\ Len(queue) <= PcmFifoDepth
        /\ byteCounter \in 0..7 /\ dataCounter \in 0..31
    <3>1. frameCount = 0 /\ byteCounter = 0 /\ dataCounter = 0
      BY DEF AudioCleared
    <3> QED
      BY <2>4, <3>1, AudioAssumption
  <2>6. pcmData \in SUBSET Pcm /\ parity \in SUBSET Pcm /\ q \in Word \cup {NoWord}
    BY DEF AudioCleared
  <2> QED
    BY <2>1, <2>2, <2>3, <2>4, <2>5, <2>6 DEF AudioTypeOK, SUBFRAME
<1>2. /\ byteCounter = 0 /\ queue = <<>> /\ dataCounter = 0 /\ ~readAck
      /\ fsAge \in 1..FsPeriod /\ sample \in Pcm
  BY DEF AudioCleared
<1>3. InStep /\ OneSample /\ Room
  BY <1>2 DEF InStep, OneSample, Room
<1>4. Cut
  BY <1>2 DEF Cut, Chained, Untorn
<1>5. Supply
  BY <1>2 DEF Supply, PACKET, SUBFRAME
<1> QED
  BY <1>1, <1>2, <1>3, <1>4, <1>5 DEF AudioCore

LEMMA StutterAudioCore ==
    ASSUME AudioCore, UNCHANGED <<audioVars, sourceVars>> PROVE AudioCore'
<1>1. /\ UNCHANGED <<pcmFs, byteCounter, frameCount, pcmData, parity>>
      /\ UNCHANGED <<queue, q, dataCounter, readAck, marker>>
      /\ UNCHANGED <<fsAge, sample>>
  BY DEF audioVars, captureVars, senderVars, sourceVars
<1>2. AudioTypeOK' /\ fsAge' \in 1..FsPeriod /\ sample' \in Pcm
  BY <1>1 DEF AudioCore, AudioTypeOK
<1>3. InStep' /\ OneSample' /\ Room' /\ Supply'
  BY <1>1 DEF AudioCore, InStep, OneSample, Room, Supply
<1>4. Cut'
  BY <1>1 DEF AudioCore, Cut, Chained, Untorn, Newest
<1> QED
  BY <1>2, <1>3, <1>4 DEF AudioCore

\* AudioStream's source restarts with the reset.
AudioInv == AudioCore /\ FsSeen /\ audioEna \in BOOLEAN

FsCleared == pcmFs = <<FALSE, FALSE, FALSE>> /\ fsAge = FsPeriod

LEMMA ClearedFsSeen == FsCleared => FsSeen
<1> SUFFICES ASSUME FsCleared PROVE FsSeen
  OBVIOUS
<1>1. ~pcmFs[1] /\ ~pcmFs[2] /\ ~pcmFs[3]
  BY DEF FsCleared
<1>2. fsAge \in Nat /\ fsAge >= 8
  BY SourceAssumption DEF FsCleared
<1>3. FsShown(1) /\ FsShown(2) /\ FsShown(3)
  BY <1>1, <1>2 DEF FsShown
<1> QED
  BY <1>3 DEF FsSeen

LEMMA InitAudioInv == ASSUME StreamInit PROVE AudioInv
<1>1. AudioCleared /\ FsCleared /\ audioEna = FALSE
  BY SourceAssumption
  DEF StreamInit, AudioInit, SourceInit, Fifo!Init, AudioCleared, FsCleared
<1> QED
  BY <1>1, ClearedAudioCore, ClearedFsSeen DEF AudioInv

LEMMA ResetAudioInv == ASSUME AudioInv, StreamReset PROVE AudioInv'
<1>1. AudioCleared' /\ FsCleared' /\ audioEna' = FALSE
  BY SourceAssumption
  DEF StreamReset, AudioReset, Fifo!Clear, AudioInv, AudioCore, AudioCleared, FsCleared
<1>2. AudioCore'
  BY <1>1, ClearedAudioCore, PTL
<1>3. FsSeen'
  BY <1>1, ClearedFsSeen, PTL
<1> QED
  BY <1>1, <1>2, <1>3 DEF AudioInv

LEMMA ClockKeepsAudioInv ==
    ASSUME AudioInv, audioEna' \in {audioEna, TRUE}, NEW pcm_fs \in BOOLEAN,
           NEW ready \in BOOLEAN, NEW pcm \in Pcm, StreamClock(pcm_fs, pcm, ready)
    PROVE  AudioInv'
<1>1. /\ ~ready => MayStall
      /\ SourceEdge(pcm_fs, pcm) /\ AudioEdge(audioEna, pcm_fs, pcm, ready)
      /\ AudioCore /\ FsSeen /\ audioEna \in BOOLEAN
  BY DEF StreamClock, AudioInv
<1>2. AudioCore'
  BY <1>1, ClockKeepsAudioCore
<1>3. FsSeen'
  <2>1. SourceStep(pcm_fs, pcm)
    BY <1>1, SourceSteps
  <2>2. pcmFs' = <<pcmFs[2], pcmFs[3], pcm_fs>>
    BY <1>1 DEF AudioEdge, CaptureEdge
  <2>3. FsShown(1)' /\ FsShown(2)' /\ FsShown(3)'
    BY <1>1, <2>1, <2>2, ClockFsShown DEF FsSeen
  <2> QED
    BY <2>3 DEF FsSeen
<1> QED
  BY <1>1, <1>2, <1>3 DEF AudioInv

LEMMA AudioInvariant == StreamSpec => []AudioInv
<1>1. ASSUME AudioInv, [StreamNext]_streamVars PROVE AudioInv'
  <2>1. ASSUME NEW pcm_fs \in BOOLEAN, NEW out_ready \in BOOLEAN, NEW pcm \in Pcm,
               StreamClock(pcm_fs, pcm, out_ready), audioEna' \in {audioEna, TRUE}
        PROVE  AudioInv'
    BY <1>1, <2>1, ClockKeepsAudioInv
  <2>2. CASE StreamReset
    BY <1>1, <2>2, ResetAudioInv
  <2>3. CASE UNCHANGED streamVars
    <3>1. UNCHANGED <<audioVars, sourceVars>> /\ audioEna' = audioEna
      BY <2>3 DEF streamVars
    <3>2. AudioCore'
      BY <1>1, <3>1, StutterAudioCore DEF AudioInv
    <3>3. UNCHANGED pcmFs /\ UNCHANGED fsAge
      BY <3>1 DEF audioVars, captureVars, sourceVars
    <3>4. FsSeen'
      BY <1>1, <3>3 DEF AudioInv, FsSeen, FsShown
    <3> QED
      BY <1>1, <3>1, <3>2, <3>4 DEF AudioInv
  <2> QED
    BY <1>1, <2>1, <2>2, <2>3 DEF StreamNext
<1> QED
  BY <1>1, InitAudioInv, PTL DEF StreamSpec

\* What the core says of the properties.
LEMMA CoreKeepsContract == ASSUME AudioCore PROVE FifoContract
<1> SUFFICES ASSUME NEW ready \in BOOLEAN
             PROVE  Fifo!LegalUse(fifoWrite, pcmFifoAck(ready))
  BY DEF FifoContract
<1>1. /\ Len(queue) \in Nat /\ byteCounter \in 0..7 /\ PcmFifoDepth \in Nat
      /\ byteCounter # 0 => Len(queue) + 8 - byteCounter < PcmFifoDepth
      /\ readAck => dataCounter \in 1..28 /\ Len(queue) + dataCounter > 28
  BY AudioAssumption DEF AudioCore, AudioTypeOK, Room, Supply, PACKET, SUBFRAME
<1> QED
  BY <1>1 DEF Fifo!LegalUse, Fifo!usedw, fifoWrite, pcmFifoAck

LEMMA CoreIsWhole == ASSUME AudioCore PROVE WholeSubframes
<1>1. Chained(queue) /\ Untorn(queue) /\ queue \in Seq(Word)
  BY DEF AudioCore, Cut, AudioTypeOK
<1>2. ASSUME fifoWrite, queue # <<>> PROVE Follows(queue[Len(queue)], fifoWord)
  <2>1. queue[Len(queue)] \in Word
    BY <1>1, <1>2
  <2>2. Newest(queue[Len(queue)])
    BY <1>2 DEF AudioCore, Cut
  <2> QED
    BY <1>2, <2>1, <2>2, WordFollows
<1> QED
  BY <1>1, <1>2 DEF WholeSubframes, Chained, Untorn

(* The audio packet generator keeps the contract of its FIFO: it never writes*)
(* a full one and never reads an empty one.  The level is looked at once     *)
(* before seven writes and once before 28 reads; Room and Supply account for *)
(* the words still to come and still to be fetched.                          *)
THEOREM FifoIsUsedInContract == StreamSpec => []FifoContract
<1>1. AudioInv => FifoContract
  BY CoreKeepsContract DEF AudioInv
<1> QED
  BY <1>1, AudioInvariant, PTL

(* The words in the FIFO are whole sub-frames in frame order, of one sample  *)
(* each, with a parity taken over that sample alone, however captures and    *)
(* packets interleave.                                                       *)
THEOREM SubframesStayWhole == StreamSpec => []WholeSubframes
<1>1. AudioInv => WholeSubframes
  BY CoreIsWhole DEF AudioInv
<1> QED
  BY <1>1, AudioInvariant, PTL

(* What is cut into bytes is the sample the last rise of pcm_fs announced,   *)
(* although it is latched after three registers from a bus that holds it for *)
(* six clocks.                                                               *)
THEOREM CapturedAsAnnounced == StreamSpec => []SampleIsAnnounced
<1>1. AudioInv => SampleIsAnnounced
  BY DEF AudioInv, AudioCore, OneSample, SampleIsAnnounced
<1> QED
  BY <1>1, AudioInvariant, PTL

-----------------------------------------------------------------------------
(* The packet path.  The infoframe generator and the assembler keep in step  *)
(* with each other and with the audio sender, byte by byte.                  *)

PathTypes ==
    /\ infoCounter \in 0..95 /\ counter \in Count \ (7..20) /\ datacount \in 0..31
    /\ infoValid \in BOOLEAN /\ infoSop \in BOOLEAN /\ infoEop \in BOOLEAN
    /\ pcmEna \in BOOLEAN /\ readyOld \in BOOLEAN /\ infoSel \in BOOLEAN
    /\ requestReg \in BOOLEAN
    /\ buf = [j \in 0..30 |-> buf[j]]

\* The registers behind pcm_fs have seen the source long before the generator
\* is enabled: the first set of infoframes takes longer.
FreshInv ==
    /\ infoCounter >= 1 \/ pcmEna => FsShown(3)
    /\ infoCounter >= 2 \/ pcmEna => FsShown(2)
    /\ infoCounter >= 3 \/ pcmEna => FsShown(1)

QuietInv == ~pcmEna => byteCounter = 0 /\ queue = <<>> /\ dataCounter = 0

\* Past its first byte an audio packet has the link and the assembler.
LinkInv == dataCounter \in 2..31 => ~infoSel /\ counter = STOP_COUNT

\* Within a set the link belongs to the infoframe generator, whose registers
\* show the byte before infoCounter; the assembler is busy only in front of a
\* packet.
InfoInv ==
    /\ infoCounter # 0 => infoSel
    /\ infoSel /\ infoCounter = 0 /\ ~readyOld => counter = READY_COUNT
    /\ infoSel /\ counter # STOP_COUNT => slot = 0
    /\ infoValid <=> slot # 0
    /\ slot # 0 => /\ infoSop <=> slot = 1
                   /\ infoEop <=> slot = 31
                   /\ infoData = TableByte(infoCounter - 1)

\* The assembler counts the bytes of the packet under way.
CountInv ==
    datacount = IF dataCounter \in 2..31 THEN dataCounter - 1
                ELSE IF slot # 0 THEN slot - 1 ELSE 0

InfoBytes ==
    \A j \in 0..30 : j < slot - 1 => buf[j] = TableByte(infoCounter - slot + j)

\* Word j of an audio packet whose first frame is f.
Numbered(w, j, f) ==
    \E p \in Pcm : w = <<(j % SUBFRAME) + 1, (f + j \div SUBFRAME) % Frames, {p}>>

\* The FIFO begins with the word that is due, and q shows it while it is read.
QueueInv ==
    /\ queue = <<>> => byteCounter \in {0, 1}
    /\ queue # <<>> /\ dataCounter \notin 1..PACKET => queue[1][1] = 1
    /\ dataCounter \in 1..PACKET => q = queue[1]

\* The frame of the word behind the packet under way.
NextDue == IF queue = <<>> THEN frameCount ELSE queue[1][2]

\* What there is of the audio packet under way.
Begun(f) ==
    /\ dataCounter \in 1..PACKET => Numbered(queue[1], dataCounter - 1, f)
    /\ dataCounter > PACKET => NextDue = (f + 4) % Frames
    /\ \A j \in 0..(PACKET - 1) : j < dataCounter - 1 => Numbered(buf[j], j, f)
    /\ dataCounter > 29 => buf[28] = <<"AudioHB0">>
    /\ dataCounter > 30 => buf[29] = <<"AudioHB1">>
    /\ \A i \in 0..3 :
          dataCounter > MarkerSlot(i) => (marker[i] <=> (f + i) % Frames = 0)

AudioBytes == dataCounter # 0 => \E f \in 0..(Frames - 1) : Begun(f)

\* The packet that waits or is being sent.
LoadedInv ==
    packetLoaded => \/ \E p \in 0..2 : IsInfo(p)
                    \/ \E f \in 0..(Frames - 1) : IsAudio(f)

PathInv ==
    /\ AudioCore /\ PathTypes /\ FreshInv /\ QuietInv /\ LinkInv /\ InfoInv
    /\ CountInv /\ InfoBytes /\ QueueInv /\ AudioBytes /\ LoadedInv

-----------------------------------------------------------------------------
(* Frames are counted modulo the length of a block.                          *)
LEMMA ModIsUnique ==
    ASSUME NEW m \in Nat \ {0}, NEW k \in Int, NEW r \in 0..(m - 1)
    PROVE  (m * k + r) % m = r
  OBVIOUS

LEMMA NextFrameIsMod ==
    ASSUME NEW x \in Nat
    PROVE  NextFrame(x % Frames) = (x + 1) % Frames /\ x % Frames \in 0..(Frames - 1)
<1> DEFINE k == x \div Frames
           r == x % Frames
<1>1. /\ Frames \in Nat \ {0} /\ k \in Int /\ r \in 0..(Frames - 1)
      /\ x = Frames * k + r
  BY AudioAssumption
<1> HIDE DEF k, r
<1>2. CASE r = Frames - 1
  <2>1. x + 1 = Frames * (k + 1) + 0 /\ 0 \in 0..(Frames - 1) /\ k + 1 \in Int
    BY <1>1, <1>2
  <2>2. (x + 1) % Frames = 0
    BY <1>1, <2>1, ModIsUnique
  <2> QED
    BY <1>1, <1>2, <2>2 DEF NextFrame, r
<1>3. CASE r # Frames - 1
  <2>1. x + 1 = Frames * k + (r + 1) /\ r + 1 \in 0..(Frames - 1)
    BY <1>1, <1>3
  <2>2. (x + 1) % Frames = r + 1
    BY <1>1, <2>1, ModIsUnique
  <2> QED
    BY <1>1, <1>3, <2>2 DEF NextFrame, r
<1> QED
  BY <1>2, <1>3

LEMMA FrameIsMod == ASSUME NEW f \in 0..(Frames - 1) PROVE f % Frames = f
<1>1. f = Frames * 0 + f /\ Frames \in Nat \ {0}
  BY AudioAssumption
<1> QED
  BY <1>1, ModIsUnique

-----------------------------------------------------------------------------
(* One edge of the path, in plain terms.                                     *)

Ready == ~infoSel /\ counter = STOP_COUNT    \* for a byte of audio

InfoAdvances == /\ infoCounter # 0 \/ requestReg
                /\ infoSel /\ counter = STOP_COUNT

InfoStep ==
    /\ InfoAdvances =>
          /\ infoCounter' = IF infoCounter = 95 THEN 0 ELSE infoCounter + 1
          /\ pcmEna' <=> pcmEna \/ infoCounter = 95
          /\ infoValid' <=> slot = 0 \/ (infoValid /\ slot # 31)
          /\ infoSop' <=> slot = 0
          /\ infoEop' <=> slot = 30
          /\ infoData' = TableByte(infoCounter)
          /\ {pcmEna', infoValid', infoSop', infoEop'} \subseteq BOOLEAN
    /\ ~InfoAdvances =>
          /\ infoCounter' = infoCounter /\ pcmEna' = pcmEna
          /\ infoValid' = infoValid /\ infoSop' = infoSop /\ infoEop' = infoEop
          /\ infoData' = infoData
    /\ readyOld' <=> infoCounter = 0
    /\ infoSel => (infoSel' <=> readyOld \/ infoCounter # 0)
    /\ ~infoSel => (infoSel' <=> /\ requestReg
                                 /\ dataCounter = 0 \/ (dataCounter = 31 /\ Ready))
    /\ readyOld' \in BOOLEAN /\ infoSel' \in BOOLEAN

AudioStep ==
    /\ dataCounter = 0 => dataCounter' = IF Len(queue) >= PACKET THEN 1 ELSE 0
    /\ dataCounter # 0 /\ Ready =>
          dataCounter' = IF dataCounter = 31 THEN 0 ELSE dataCounter + 1
    /\ ~Ready => dataCounter \in {0, 1}
    /\ dataCounter = 1 /\ ~Ready => dataCounter' = 1

\* The bytes the arbiter lets through.
Offered == IF infoSel THEN infoValid ELSE dataCounter # 0
First   == IF infoSel THEN infoSop ELSE dataCounter = 1
Last    == IF infoSel THEN infoEop ELSE dataCounter = 31

IslandStep ==
    /\ counter = STOP_COUNT =>
          counter' = IF Offered /\ Last THEN READY_COUNT ELSE STOP_COUNT
    /\ counter = READY_COUNT => counter' \in {READY_COUNT, START_COUNT}
    /\ counter \notin {STOP_COUNT, READY_COUNT} => counter' = Increment(counter)
    /\ ~(Offered /\ counter = STOP_COUNT) =>
          /\ datacount' = datacount
          /\ buf' = IF counter = 63 THEN BufferEmpty ELSE buf
    /\ Offered /\ counter = STOP_COUNT =>
          /\ datacount' = nextDatacount(First, Last)
          /\ buf' = IF (First \/ datacount # 0) /\ datacount \in 0..30
                    THEN [buf EXCEPT ![datacount] = packetData] ELSE buf

LEMMA InfoSteps ==
    ASSUME PathInv, InfoEdge(requestReg, audioValid, audioEop, inReady)
    PROVE  InfoStep
<1>1. /\ infoCounter \in 0..95 /\ infoSel \in BOOLEAN /\ requestReg \in BOOLEAN
      /\ readyOld \in BOOLEAN
      /\ pcmEna \in BOOLEAN /\ infoValid \in BOOLEAN
  BY DEF PathInv, PathTypes
<1>2. infoAdvances(requestReg, inReady) <=> InfoAdvances
  BY DEF infoAdvances, infoOutReady, inReady, InfoAdvances
<1>3. ASSUME InfoAdvances
      PROVE  /\ infoCounter' = IF infoCounter = 95 THEN 0 ELSE infoCounter + 1
             /\ pcmEna' <=> pcmEna \/ infoCounter = 95
             /\ infoValid' <=> slot = 0 \/ (infoValid /\ slot # 31)
             /\ infoSop' <=> slot = 0
             /\ infoEop' <=> slot = 30
             /\ infoData' = TableByte(infoCounter)
             /\ {pcmEna', infoValid', infoSop', infoEop'} \subseteq BOOLEAN
  <2>1. SendTableByte
    BY <1>2, <1>3 DEF InfoEdge, TableEdge
  <2>2. /\ infoCounter' = IF infoCounter = 95 THEN 0 ELSE infoCounter + 1
        /\ infoData' = TableByte(infoCounter)
    BY <2>1 DEF SendTableByte, lastOfSet, PACKET_NUM, PACKET_LENGTH
  <2>3. /\ pcmEna' = (pcmEna \/ infoCounter = 95)
        /\ infoValid' = (slot = 0 \/ (infoValid /\ slot # 31))
        /\ infoSop' = (slot = 0)
        /\ infoEop' = (slot = 30)
    BY <2>1 DEF SendTableByte, lastOfSet, nextInfoValid, PACKET_NUM, PACKET_LENGTH
  <2>4. {pcmEna', infoValid', infoSop', infoEop'} \subseteq BOOLEAN
    BY <2>3
  <2> QED
    BY <2>2, <2>3, <2>4
<1>4. ASSUME ~InfoAdvances
      PROVE  /\ infoCounter' = infoCounter /\ pcmEna' = pcmEna
             /\ infoValid' = infoValid /\ infoSop' = infoSop /\ infoEop' = infoEop
             /\ infoData' = infoData
  BY <1>2, <1>4 DEF InfoEdge, TableEdge
<1>5. readyOld' <=> infoCounter = 0
  BY DEF InfoEdge, ArbiterEdge, infoReady
<1>6. readyOld' \in BOOLEAN
  BY DEF InfoEdge, ArbiterEdge, infoReady
<1>7. infoSel' = IF infoSel THEN ~setDone
                 ELSE takesOver(requestReg, audioValid, audioEop, inReady)
  BY DEF InfoEdge, ArbiterEdge
<1>8. ASSUME infoSel PROVE infoSel' <=> readyOld \/ infoCounter # 0
  BY <1>7, <1>8 DEF setDone, infoReady
<1>9. ASSUME ~infoSel
      PROVE  infoSel' <=> /\ requestReg
                          /\ dataCounter = 0 \/ (dataCounter = 31 /\ Ready)
  BY <1>7, <1>9 DEF takesOver, audioValid, audioEop, audioReady, inReady, Ready
<1>10. infoSel' \in BOOLEAN
  BY <1>1, <1>7 DEF setDone, takesOver
<1> QED
  BY <1>3, <1>4, <1>5, <1>6, <1>8, <1>9, <1>10 DEF InfoStep

LEMMA AudioSteps ==
    ASSUME PathInv, SendEdge(audioReady(inReady))
    PROVE  AudioStep /\ audioReady(inReady) \in BOOLEAN
                     /\ (~audioReady(inReady) => MayStall)
<1>1. /\ dataCounter \in 0..31 /\ infoSel \in BOOLEAN
      /\ dataCounter \in 2..31 => Ready
  BY DEF PathInv, AudioCore, AudioTypeOK, PathTypes, LinkInv, Ready
<1>2. audioReady(inReady) <=> Ready
  BY DEF audioReady, inReady, Ready
<1>3. audioReady(inReady) \in BOOLEAN
  BY DEF audioReady, inReady
<1>4. dataCounter' = IF (dataCounter = 0 /\ arrival) \/ (dataCounter # 0 /\ Ready)
                     THEN (dataCounter + 1) % 32 ELSE dataCounter
  BY <1>2 DEF SendEdge
<1>5. arrival <=> Len(queue) >= PACKET
  BY DEF arrival, Fifo!usedw
<1>6. /\ dataCounter \in 0..30 => (dataCounter + 1) % 32 = dataCounter + 1
      /\ dataCounter = 31 => (dataCounter + 1) % 32 = 0
  BY <1>1
<1> QED
  BY <1>1, <1>2, <1>3, <1>4, <1>5, <1>6 DEF AudioStep, MayStall

LEMMA IslandSteps ==
    ASSUME PathInv, NEW packetready \in BOOLEAN,
           IslandEdge(packetValid, packetData, packetSop, packetEop, packetready)
    PROVE  IslandStep
<1>1. counter \in 0..63 /\ infoSel \in BOOLEAN
  BY DEF PathInv, PathTypes, Count
<1>2. /\ packetValid <=> Offered
      /\ packetSop <=> First
      /\ packetEop <=> Last
  BY DEF packetValid, packetSop, packetEop, audioValid, audioSop, audioEop,
         Offered, First, Last
<1>3. /\ inReady <=> counter = 6
      /\ dataenable <=> counter \in 32..63
  BY DEF inReady, dataenable, STOP_COUNT
<1>4. SequencerEdge(packetValid /\ packetEop, packetready)
  BY DEF IslandEdge
<1>5. /\ counter = STOP_COUNT =>
            counter' = IF Offered /\ Last THEN READY_COUNT ELSE STOP_COUNT
      /\ counter = READY_COUNT => counter' \in {READY_COUNT, START_COUNT}
      /\ counter \notin {STOP_COUNT, READY_COUNT} => counter' = Increment(counter)
  BY <1>1, <1>2, <1>3, <1>4
  DEF SequencerEdge, AcceptPacket, StartIsland, RunIsland, HoldSequencer,
      STOP_COUNT, READY_COUNT, START_COUNT
<1>6. ASSUME Offered, counter = STOP_COUNT
      PROVE  /\ datacount' = nextDatacount(First, Last)
             /\ buf' = IF (First \/ datacount # 0) /\ datacount \in 0..30
                       THEN [buf EXCEPT ![datacount] = packetData] ELSE buf
  <2>1. packetValid /\ inReady /\ ~dataenable
    BY <1>2, <1>3, <1>6 DEF STOP_COUNT
  <2>2. ReceiveByte(packetData, packetSop, packetEop)
    BY <2>1 DEF IslandEdge
  <2>3. datacount' = nextDatacount(packetSop, packetEop)
    BY <2>2 DEF ReceiveByte
  <2>4. nextDatacount(packetSop, packetEop) = nextDatacount(First, Last)
    BY <1>2 DEF nextDatacount
  <2> QED
    BY <1>2, <2>2, <2>3, <2>4 DEF ReceiveByte
<1>7. ASSUME ~(Offered /\ counter = STOP_COUNT)
      PROVE  /\ datacount' = datacount
             /\ buf' = IF counter = 63 THEN BufferEmpty ELSE buf
  <2>1. ~(packetValid /\ inReady)
    BY <1>2, <1>3, <1>7 DEF STOP_COUNT
  <2>2. \/ dataenable /\ ShiftOut
        \/ ~dataenable /\ UNCHANGED <<datacount, buf>>
    BY <2>1 DEF IslandEdge, ReceiveByte
  <2> QED
    BY <1>3, <2>2 DEF ShiftOut
<1> QED
  BY <1>5, <1>6, <1>7 DEF IslandStep

PathStep == InfoStep /\ AudioStep /\ IslandStep

LEMMA LinkTypes ==
    ASSUME PathInv
    PROVE  /\ infoCounter \in 0..95 /\ datacount \in 0..31
           /\ counter \in 0..63 /\ counter \notin 7..20
           /\ infoSel \in BOOLEAN /\ infoValid \in BOOLEAN
           /\ dataCounter \in 0..31
           /\ slot \in 0..31
           /\ infoCounter = 0 => slot = 0
           /\ infoCounter = 95 => slot = 31
<1>1. slot = infoCounter % 32
  BY DEF slot, PACKET_LENGTH
<1>2. /\ infoCounter \in 0..95 /\ datacount \in 0..31
      /\ counter \in 0..63 /\ counter \notin 7..20
      /\ infoSel \in BOOLEAN /\ infoValid \in BOOLEAN
  BY DEF PathInv, PathTypes, Count
<1>3. dataCounter \in 0..31
  BY DEF PathInv, AudioCore, AudioTypeOK
<1>4. /\ slot \in 0..31
      /\ infoCounter = 0 => slot = 0
      /\ infoCounter = 95 => slot = 31
  BY <1>1, <1>2
<1> QED
  BY <1>2, <1>3, <1>4

LEMMA SlotSteps ==
    ASSUME PathInv, InfoStep
    PROVE  /\ InfoAdvances => slot' = IF slot = 31 THEN 0 ELSE slot + 1
           /\ ~InfoAdvances => slot' = slot
<1>1. infoCounter \in 0..95
  BY LinkTypes
<1>2. slot = infoCounter % 32 /\ slot' = infoCounter' % 32
  BY DEF slot, PACKET_LENGTH
<1>3. /\ InfoAdvances => infoCounter' = IF infoCounter = 95 THEN 0 ELSE infoCounter + 1
      /\ ~InfoAdvances => infoCounter' = infoCounter
  BY DEF InfoStep
<1> QED
  BY <1>1, <1>2, <1>3

LEMMA PathKeepsLink == ASSUME PathInv, PathStep PROVE LinkInv'
<1> SUFFICES ASSUME dataCounter' \in 2..31 PROVE infoSel' = FALSE /\ counter' = STOP_COUNT
  BY DEF LinkInv
<1>1. /\ dataCounter \in 0..31 /\ infoSel \in BOOLEAN /\ infoSel' \in BOOLEAN
      /\ dataCounter = 0 => dataCounter' \in {0, 1}
      /\ dataCounter # 0 /\ Ready =>
            dataCounter' = IF dataCounter = 31 THEN 0 ELSE dataCounter + 1
      /\ dataCounter = 1 /\ ~Ready => dataCounter' = 1
      /\ dataCounter \in 2..31 => Ready
  BY LinkTypes DEF PathStep, AudioStep, InfoStep, PathInv, LinkInv, Ready
<1>2. dataCounter \in 1..30 /\ Ready
  BY <1>1
<1>3. ~infoSel /\ counter = STOP_COUNT
  BY <1>2 DEF Ready
<1>4. ~Last
  BY <1>2, <1>3 DEF Last
<1>5. infoSel' = FALSE
  BY <1>1, <1>2, <1>3 DEF PathStep, InfoStep
<1> QED
  BY <1>3, <1>4, <1>5 DEF PathStep, IslandStep

\* Within a set: what the assembler is offered, and when.
LEMMA InfoOffers ==
    ASSUME PathInv
    PROVE  /\ infoSel => (Offered <=> slot # 0)
           /\ infoSel /\ slot # 0 =>
                 /\ First <=> slot = 1
                 /\ Last <=> slot = 31
           /\ slot # 0 => infoSel /\ counter = STOP_COUNT /\ InfoAdvances
           /\ InfoAdvances => infoSel /\ counter = STOP_COUNT
           /\ ~infoSel => infoCounter = 0 /\ slot = 0
<1>1. /\ infoCounter # 0 => infoSel
      /\ infoSel /\ counter # STOP_COUNT => slot = 0
      /\ infoValid <=> slot # 0
      /\ slot # 0 => /\ infoSop <=> slot = 1
                     /\ infoEop <=> slot = 31
  BY DEF PathInv, InfoInv
<1>2. infoCounter = 0 => slot = 0
  BY LinkTypes
<1> QED
  BY <1>1, <1>2 DEF Offered, First, Last, InfoAdvances

LEMMA PathKeepsInfo == ASSUME PathInv, PathStep PROVE InfoInv'
<1>1. InfoStep /\ IslandStep
  BY DEF PathStep
<1>2. /\ InfoAdvances => slot' = IF slot = 31 THEN 0 ELSE slot + 1
      /\ ~InfoAdvances => slot' = slot
  BY <1>1, SlotSteps
<1>3. /\ infoCounter \in 0..95 /\ slot \in 0..31
      /\ infoCounter = 0 => slot = 0
      /\ infoCounter = 95 => slot = 31
      /\ infoSel \in BOOLEAN
  BY LinkTypes
<1>4. /\ infoCounter # 0 => infoSel
      /\ infoSel /\ infoCounter = 0 /\ ~readyOld => counter = READY_COUNT
      /\ infoSel /\ counter # STOP_COUNT => slot = 0
      /\ infoValid <=> slot # 0
      /\ slot # 0 => /\ infoSop <=> slot = 1
                     /\ infoEop <=> slot = 31
                     /\ infoData = TableByte(infoCounter - 1)
  BY DEF PathInv, InfoInv
<1>5. /\ InfoAdvances => infoCounter' = IF infoCounter = 95 THEN 0 ELSE infoCounter + 1
      /\ ~InfoAdvances => infoCounter' = infoCounter
      /\ readyOld' <=> infoCounter = 0
      /\ infoSel => (infoSel' <=> readyOld \/ infoCounter # 0)
  BY <1>1 DEF InfoStep
<1>6. READY_COUNT # STOP_COUNT
  BY DEF READY_COUNT, STOP_COUNT
<1>7. infoCounter' # 0 => infoSel'
  <2>1. InfoAdvances => infoSel /\ counter = STOP_COUNT
    BY InfoOffers
  <2> QED
    BY <1>4, <1>5, <1>6, <2>1
<1>8. ASSUME infoSel, slot = 31 PROVE counter' = READY_COUNT /\ InfoAdvances /\ slot' = 0
  <2>1. Offered /\ Last /\ counter = STOP_COUNT /\ InfoAdvances
    BY <1>8, InfoOffers
  <2> QED
    BY <1>1, <1>2, <1>8, <2>1 DEF IslandStep
<1>9. infoSel' /\ infoCounter' = 0 /\ ~readyOld' => counter' = READY_COUNT
  BY <1>3, <1>4, <1>5, <1>8
<1>10. infoSel' /\ counter' # STOP_COUNT => slot' = 0
  <2> SUFFICES ASSUME counter' # STOP_COUNT PROVE slot' = 0
    OBVIOUS
  <2>1. CASE ~infoSel
    BY <1>2, <2>1, InfoOffers
  <2>2. CASE infoSel /\ counter # STOP_COUNT
    BY <1>2, <1>4, <2>2, InfoOffers
  <2>3. CASE infoSel /\ counter = STOP_COUNT
    <3>1. Offered /\ Last
      BY <1>1, <2>3 DEF IslandStep
    <3>2. slot = 31
      BY <2>3, <3>1, InfoOffers
    <3> QED
      BY <1>8, <2>3, <3>2
  <2> QED
    BY <1>3, <2>1, <2>2, <2>3
<1>11. CASE InfoAdvances
  <2>1. /\ infoValid' <=> slot = 0 \/ (infoValid /\ slot # 31)
        /\ infoSop' <=> slot = 0
        /\ infoEop' <=> slot = 30
        /\ infoData' = TableByte(infoCounter)
    BY <1>1, <1>11 DEF InfoStep
  <2>2. slot' = IF slot = 31 THEN 0 ELSE slot + 1
    BY <1>2, <1>11
  <2>3. infoValid' <=> slot' # 0
    BY <1>3, <1>4, <2>1, <2>2
  <2>4. slot' # 0 => (infoSop' <=> slot' = 1) /\ (infoEop' <=> slot' = 31)
    BY <1>3, <2>1, <2>2
  <2>5. slot' # 0 => infoData' = TableByte(infoCounter' - 1)
    <3>1. slot' # 0 => infoCounter' = infoCounter + 1
      BY <1>3, <1>5, <1>11, <2>2
    <3>2. (infoCounter + 1) - 1 = infoCounter
      BY <1>3
    <3> QED
      BY <2>1, <3>1, <3>2
  <2> QED
    BY <1>7, <1>9, <1>10, <2>3, <2>4, <2>5 DEF InfoInv, TableByte
<1>12. CASE ~InfoAdvances
  <2>1. /\ infoValid' = infoValid /\ infoSop' = infoSop /\ infoEop' = infoEop
        /\ infoData' = infoData /\ infoCounter' = infoCounter /\ slot' = slot
    BY <1>1, <1>2, <1>12 DEF InfoStep
  <2> QED
    BY <1>4, <1>7, <1>9, <1>10, <2>1 DEF InfoInv, TableByte
<1> QED
  BY <1>11, <1>12

LEMMA PathKeepsCount == ASSUME PathInv, PathStep PROVE CountInv' /\ datacount' \in 0..31
<1>1. InfoStep /\ IslandStep /\ AudioStep
  BY DEF PathStep
<1>2. /\ InfoAdvances => slot' = IF slot = 31 THEN 0 ELSE slot + 1
      /\ ~InfoAdvances => slot' = slot
  BY <1>1, SlotSteps
<1>3. slot \in 0..31 /\ dataCounter \in 0..31 /\ datacount \in 0..31
  BY LinkTypes
<1>4. datacount = IF dataCounter \in 2..31 THEN dataCounter - 1
                  ELSE IF slot # 0 THEN slot - 1 ELSE 0
  BY DEF PathInv, CountInv
<1>5. /\ dataCounter = 0 => dataCounter' \in {0, 1}
      /\ dataCounter # 0 /\ Ready =>
            dataCounter' = IF dataCounter = 31 THEN 0 ELSE dataCounter + 1
      /\ ~Ready => dataCounter \in {0, 1}
      /\ dataCounter = 1 /\ ~Ready => dataCounter' = 1
  BY <1>1 DEF AudioStep
<1>6. /\ ~(Offered /\ counter = STOP_COUNT) => datacount' = datacount
      /\ Offered /\ counter = STOP_COUNT => datacount' = nextDatacount(First, Last)
  BY <1>1 DEF IslandStep
<1>7. ASSUME NEW n \in 0..31
      PROVE  nextDatacount(n = 1, n = 31) =
                 IF n = 31 THEN 0 ELSE IF n = 1 THEN 1
                 ELSE IF datacount \in 1..30 THEN datacount + 1 ELSE datacount
  BY DEF nextDatacount
<1>8. CASE infoSel
  <2>1. ~Ready /\ dataCounter \in {0, 1} /\ dataCounter' \in {0, 1}
    BY <1>5, <1>8 DEF Ready
  <2>2. CASE slot # 0
    <3>1. /\ Offered /\ counter = STOP_COUNT /\ InfoAdvances
          /\ First <=> slot = 1
          /\ Last <=> slot = 31
      BY <1>8, <2>2, InfoOffers
    <3>2. datacount' = nextDatacount(First, Last)
      BY <1>6, <3>1
    <3>3. nextDatacount(First, Last) = nextDatacount(slot = 1, slot = 31)
      BY <3>1 DEF nextDatacount
    <3>4. datacount' = IF slot = 31 THEN 0 ELSE slot
      BY <1>3, <1>4, <1>7, <2>1, <2>2, <3>2, <3>3
    <3> QED
      BY <1>2, <1>3, <2>1, <2>2, <3>1, <3>4 DEF CountInv
  <2>3. CASE slot = 0
    <3>1. datacount' = 0
      BY <1>4, <1>6, <1>8, <2>1, <2>3, InfoOffers
    <3>2. slot' \in {0, 1}
      BY <1>2, <2>3
    <3> QED
      BY <2>1, <3>1, <3>2 DEF CountInv
  <2> QED
    BY <2>2, <2>3
<1>9. CASE ~infoSel
  <2>1. slot = 0 /\ slot' = 0
    BY <1>2, <1>9, InfoOffers
  <2>2. /\ Offered <=> dataCounter # 0
        /\ First <=> dataCounter = 1
        /\ Last <=> dataCounter = 31
        /\ Ready <=> counter = STOP_COUNT
    BY <1>9 DEF Offered, First, Last, Ready
  <2>3. nextDatacount(First, Last) = nextDatacount(dataCounter = 1, dataCounter = 31)
    BY <2>2 DEF nextDatacount
  <2>4. CASE dataCounter # 0 /\ Ready
    <3>1. datacount' = IF dataCounter = 31 THEN 0 ELSE dataCounter
      BY <1>3, <1>4, <1>6, <1>7, <2>1, <2>2, <2>3, <2>4
    <3> QED
      BY <1>3, <1>5, <2>1, <2>4, <3>1 DEF CountInv
  <2>5. CASE ~(dataCounter # 0 /\ Ready)
    <3>1. datacount' = 0 /\ dataCounter' \in {0, 1}
      BY <1>3, <1>4, <1>5, <1>6, <2>1, <2>2, <2>5
    <3> QED
      BY <2>1, <3>1 DEF CountInv
  <2> QED
    BY <2>4, <2>5
<1> QED
  BY <1>8, <1>9

\* Where the assembler puts the byte it accepts.
Place == IF dataCounter \in 2..31 THEN dataCounter - 1
         ELSE IF slot # 0 THEN slot - 1 ELSE 0

LEMMA ByteIsStored ==
    ASSUME PathInv, PathStep, Offered, counter = STOP_COUNT
    PROVE  /\ Place \in 0..30
           /\ buf' = [j \in 0..30 |-> IF j = Place THEN packetData ELSE buf[j]]
<1>1. slot \in 0..31 /\ dataCounter \in 0..31 /\ datacount = Place
  BY LinkTypes DEF PathInv, CountInv, Place
<1>2. Place \in 0..30
  BY <1>1 DEF Place
<1>3. First \/ Place # 0
  <2>1. CASE infoSel
    <3>1. slot # 0 /\ (First <=> slot = 1)
      BY <2>1, InfoOffers
    <3>2. dataCounter \in {0, 1}
      BY <1>1, <2>1 DEF PathInv, LinkInv
    <3> QED
      BY <1>1, <3>1, <3>2 DEF Place
  <2>2. CASE ~infoSel
    <3>1. dataCounter # 0 /\ (First <=> dataCounter = 1)
      BY <2>2 DEF Offered, First
    <3> QED
      BY <1>1, <3>1 DEF Place
  <2> QED
    BY <2>1, <2>2
<1>4. buf' = [buf EXCEPT ![Place] = packetData]
  BY <1>1, <1>2, <1>3 DEF PathStep, IslandStep
<1>5. buf = [j \in 0..30 |-> buf[j]]
  BY DEF PathInv, PathTypes
<1> QED
  BY <1>2, <1>4, <1>5

LEMMA PathKeepsInfoBytes == ASSUME PathInv, PathStep PROVE InfoBytes'
<1> SUFFICES ASSUME NEW j \in 0..30, j < slot' - 1
             PROVE  buf'[j] = TableByte(infoCounter' - slot' + j)
  BY DEF InfoBytes, TableByte
<1>1. /\ InfoAdvances => slot' = IF slot = 31 THEN 0 ELSE slot + 1
      /\ ~InfoAdvances => slot' = slot
  BY SlotSteps DEF PathStep
<1>2. /\ slot \in 0..31 /\ infoCounter \in 0..95 /\ dataCounter \in 0..31
      /\ infoCounter = 95 => slot = 31
  BY LinkTypes
<1>3. InfoAdvances
  BY <1>1, <1>2, InfoOffers
<1>4. slot \in 1..30 /\ slot' = slot + 1 /\ j < slot
  BY <1>1, <1>2, <1>3
<1>5. infoSel /\ counter = STOP_COUNT /\ Offered
  BY <1>4, InfoOffers
<1>6. infoCounter' = infoCounter + 1
  BY <1>2, <1>3, <1>4 DEF PathStep, InfoStep
<1>7. dataCounter \in {0, 1}
  BY <1>2, <1>5 DEF PathInv, LinkInv
<1>8. Place = slot - 1
  BY <1>4, <1>7 DEF Place
<1>9. buf'[j] = IF j = slot - 1 THEN packetData ELSE buf[j]
  BY <1>5, <1>8, ByteIsStored
<1>10. packetData = TableByte(infoCounter - 1)
  BY <1>4, <1>5 DEF PathInv, InfoInv, packetData
<1>11. j < slot - 1 => buf[j] = TableByte(infoCounter - slot + j)
  BY DEF PathInv, InfoBytes
<1>12. /\ infoCounter' - slot' + j = infoCounter - slot + j
       /\ j = slot - 1 => infoCounter - slot + j = infoCounter - 1
  BY <1>2, <1>4, <1>6
<1> QED
  BY <1>4, <1>9, <1>10, <1>11, <1>12

-----------------------------------------------------------------------------
(* The FIFO at one edge of the path.                                         *)

Pops == dataCounter \in 1..PACKET /\ Ready

\* What the sender leaves in the FIFO.
Left == IF Pops THEN Tail(queue) ELSE queue

LEMMA QueueSteps ==
    ASSUME PathInv, FifoEdge(audioReady(inReady))
    PROVE  /\ queue' = IF byteCounter # 0 THEN Append(Left, fifoWord) ELSE Left
           /\ Left # <<>> => q' = Head(Left)
           /\ Left \in Seq(Word)
           /\ queue \in Seq(Word)
           /\ Pops => queue # <<>>
<1>1. /\ queue \in Seq(Word) /\ Len(queue) \in Nat
      /\ readAck <=> dataCounter \in 1..PACKET
      /\ readAck => Len(queue) + dataCounter > PACKET
      /\ dataCounter \in 0..31
  BY DEF PathInv, AudioCore, AudioTypeOK, Supply
<1>2. pcmFifoAck(audioReady(inReady)) <=> Pops
  BY <1>1 DEF pcmFifoAck, audioReady, inReady, Pops, Ready
<1>3. Pops => queue # <<>>
  <2>1. Pops => Len(queue) > 0
    BY <1>1 DEF Pops, PACKET, SUBFRAME
  <2> QED
    BY <1>1, <2>1, EmptySeq
<1>4. Unread(pcmFifoAck(audioReady(inReady))) = Left
  BY <1>2, <1>3 DEF Unread, Left
<1>5. Left \in Seq(Word)
  BY <1>1, <1>3, HeadTailProperties DEF Left
<1>6. queue' = IF byteCounter # 0 THEN Append(Left, fifoWord) ELSE Left
  <2>1. audioReady(inReady) \in BOOLEAN
    BY DEF audioReady, inReady
  <2>2. queue' = IF fifoWrite THEN Append(Left, fifoWord) ELSE Left
    BY <1>4, <2>1, FifoSteps
  <2> QED
    BY <2>2 DEF fifoWrite
<1>7. Left # <<>> => q' = Head(Left)
  BY <1>4 DEF FifoEdge, Fifo!Edge, Unread
<1> QED
  BY <1>1, <1>3, <1>5, <1>6, <1>7

LEMMA FirstWord ==
    ASSUME PathInv, FifoEdge(audioReady(inReady))
    PROVE  /\ Left # <<>> => queue' # <<>> /\ queue'[1] = Left[1] /\ q' = Left[1]
           /\ Left = <<>> /\ byteCounter # 0 => queue' # <<>> /\ queue'[1] = fifoWord
           /\ Left = <<>> /\ byteCounter = 0 => queue' = <<>>
<1>1. /\ queue' = IF byteCounter # 0 THEN Append(Left, fifoWord) ELSE Left
      /\ Left # <<>> => q' = Head(Left)
      /\ Left \in Seq(Word)
  BY QueueSteps
<1>2. AudioCore
  BY DEF PathInv
<1> HIDE DEF Left
<1>3. Len(Left) \in Nat /\ (Left = <<>> <=> Len(Left) = 0)
  BY <1>1, EmptySeq
<1>4. Left # <<>> => Head(Left) = Left[1]
  BY <1>1
<1>5. CASE byteCounter # 0
  <2>1. fifoWord \in Word
    BY <1>2, <1>5, WordIsWord DEF fifoWrite
  <2>2. /\ queue' \in Seq(Word) /\ Len(queue') = Len(Left) + 1
        /\ \A i \in 1..Len(Left) : queue'[i] = Left[i]
        /\ queue'[Len(Left) + 1] = fifoWord
    BY <1>1, <1>5, <2>1, AppendProperties
  <2>3. queue' # <<>>
    BY <1>3, <2>2, EmptySeq
  <2>4. Left # <<>> => queue'[1] = Left[1]
    BY <1>3, <2>2
  <2>5. Left = <<>> => queue'[1] = fifoWord
    BY <1>3, <2>2
  <2> QED
    BY <1>1, <1>4, <1>5, <2>3, <2>4, <2>5
<1>6. CASE byteCounter = 0
  BY <1>1, <1>4, <1>6
<1> QED
  BY <1>5, <1>6

\* What is found behind the word that is read.
LEMMA SecondWord ==
    ASSUME PathInv, FifoEdge(audioReady(inReady)), Pops
    PROVE  /\ queue[1] \in Word /\ \E p \in Pcm : queue[1][3] = {p}
           /\ Left # <<>> => /\ Left[1] \in Word /\ Follows(queue[1], Left[1])
                             /\ \E p \in Pcm : Left[1][3] = {p}
           /\ Left = <<>> => Newest(queue[1])
           /\ Len(Left) = Len(queue) - 1
<1>1. queue \in Seq(Word) /\ queue # <<>> /\ Left = Tail(queue)
  BY QueueSteps DEF Left
<1>2. Chained(queue) /\ Untorn(queue) /\ Newest(queue[Len(queue)])
  BY <1>1 DEF PathInv, AudioCore, Cut
<1>3. /\ Len(queue) \in Nat /\ Len(queue) >= 1
      /\ Len(Left) = Len(queue) - 1 /\ Left \in Seq(Word)
      /\ \A i \in 1..(Len(queue) - 1) : Left[i] = queue[i + 1]
  <2>1. Len(queue) \in Nat /\ Len(queue) # 0
    BY <1>1, EmptySeq
  <2> QED
    BY <1>1, <2>1, HeadTailProperties
<1>4. queue[1] \in Word /\ \E p \in Pcm : queue[1][3] = {p}
  BY <1>1, <1>2, <1>3 DEF Untorn
<1>5. ASSUME Left # <<>>
      PROVE  /\ Left[1] \in Word /\ Follows(queue[1], Left[1])
             /\ \E p \in Pcm : Left[1][3] = {p}
  <2>1. Len(Left) # 0
    BY <1>3, <1>5, EmptySeq
  <2>2. 1 \in 1..(Len(queue) - 1) /\ 2 \in 1..Len(queue) /\ 1 + 1 = 2
    BY <1>3, <2>1
  <2>3. Left[1] = queue[2]
    BY <1>3, <2>2
  <2>4. Follows(queue[1], queue[1 + 1])
    BY <1>2, <2>2 DEF Chained
  <2>5. queue[2] \in Word /\ \E p \in Pcm : queue[2][3] = {p}
    BY <1>1, <1>2, <2>2 DEF Untorn
  <2> QED
    BY <2>2, <2>3, <2>4, <2>5
<1>6. Left = <<>> => Newest(queue[1])
  <2> SUFFICES ASSUME Left = <<>> PROVE Newest(queue[1])
    OBVIOUS
  <2>1. Len(queue) = 1
    <3>1. Len(Left) = 0
      OBVIOUS
    <3> QED
      BY <1>3, <3>1
  <2> QED
    BY <1>2, <2>1
<1> QED
  BY <1>3, <1>4, <1>5, <1>6

LEMMA NumberedParts ==
    ASSUME NEW w, NEW j \in 0..27, NEW f \in Nat, Numbered(w, j, f)
    PROVE  /\ w[1] = (j % 7) + 1 /\ w[2] = (f + j \div 7) % Frames
           /\ \E p \in Pcm : w[3] = {p}
  BY DEF Numbered, SUBFRAME

LEMMA PartsAreNumbered ==
    ASSUME NEW w \in Word, NEW j \in 0..27, NEW f \in Nat,
           w[1] = (j % 7) + 1, w[2] = (f + j \div 7) % Frames,
           \E p \in Pcm : w[3] = {p}
    PROVE  Numbered(w, j, f)
<1>1. w = <<w[1], w[2], w[3]>>
  BY DEF Word
<1> QED
  BY <1>1 DEF Numbered, SUBFRAME

LEMMA NumberedGoesOn ==
    ASSUME NEW v \in Word, NEW w \in Word, NEW j \in 0..26, NEW f \in Nat,
           Numbered(v, j, f), Follows(v, w), \E p \in Pcm : w[3] = {p}
    PROVE  Numbered(w, j + 1, f)
<1>1. v[1] = (j % 7) + 1 /\ v[2] = (f + j \div 7) % Frames
  BY NumberedParts
<1>2. CASE j % 7 = 6
  <2>1. /\ (j + 1) % 7 = 0 /\ (j + 1) \div 7 = (j \div 7) + 1
        /\ j \div 7 \in Nat /\ f + j \div 7 \in Nat
    BY <1>2
  <2>2. w[1] = 1 /\ w[2] = NextFrame(v[2])
    BY <1>1, <1>2 DEF Follows, SUBFRAME
  <2>3. w[2] = ((f + j \div 7) + 1) % Frames
    BY <1>1, <2>1, <2>2, NextFrameIsMod
  <2>4. (f + j \div 7) + 1 = f + (j + 1) \div 7
    BY <2>1
  <2>5. w[1] = ((j + 1) % 7) + 1 /\ w[2] = (f + (j + 1) \div 7) % Frames
    BY <2>1, <2>2, <2>3, <2>4
  <2> QED
    BY <2>5, PartsAreNumbered
<1>3. CASE j % 7 # 6
  <2>1. (j + 1) % 7 = (j % 7) + 1 /\ (j + 1) \div 7 = j \div 7 /\ j % 7 \in 0..5
    BY <1>3
  <2>2. w = <<v[1] + 1, v[2], v[3]>>
    BY <1>1, <2>1 DEF Follows, SUBFRAME
  <2>3. w[1] = ((j + 1) % 7) + 1 /\ w[2] = (f + (j + 1) \div 7) % Frames
    BY <1>1, <2>1, <2>2
  <2> QED
    BY <2>3, PartsAreNumbered
<1> QED
  BY <1>2, <1>3

-----------------------------------------------------------------------------
(* The audio packet under way at one edge.                                   *)

LEMMA AudioCounts ==
    ASSUME PathInv, PathStep
    PROVE  /\ dataCounter \in 0..31 /\ dataCounter' \in 0..31
           /\ Len(queue) \in Nat
           /\ dataCounter = 0 /\ dataCounter' # 0 => Len(queue) >= 28 /\ dataCounter' = 1
           /\ dataCounter # 0 /\ Ready =>
                 dataCounter' = IF dataCounter = 31 THEN 0 ELSE dataCounter + 1
           /\ dataCounter \in 2..31 => Ready
           /\ dataCounter = 1 /\ ~Ready => dataCounter' = 1
           /\ dataCounter \in 1..28 => Len(queue) + dataCounter > 28
<1>1. /\ dataCounter \in 0..31 /\ Len(queue) \in Nat
      /\ readAck <=> dataCounter \in 1..28
      /\ readAck => Len(queue) + dataCounter > 28
  BY DEF PathInv, AudioCore, AudioTypeOK, Supply, PACKET, SUBFRAME
<1>2. /\ dataCounter = 0 => dataCounter' = IF Len(queue) >= 28 THEN 1 ELSE 0
      /\ dataCounter # 0 /\ Ready =>
            dataCounter' = IF dataCounter = 31 THEN 0 ELSE dataCounter + 1
      /\ ~Ready => dataCounter \in {0, 1}
      /\ dataCounter = 1 /\ ~Ready => dataCounter' = 1
  BY DEF PathStep, AudioStep, PACKET, SUBFRAME
<1>3. dataCounter \in 2..31 => Ready
  BY <1>1, <1>2
<1>4. dataCounter' \in 0..31
  <2>1. CASE dataCounter = 0
    BY <1>2, <2>1
  <2>2. CASE dataCounter # 0 /\ Ready
    <3>1. dataCounter \in 1..31
      BY <1>1, <2>2
    <3>2. dataCounter' = IF dataCounter = 31 THEN 0 ELSE dataCounter + 1
      BY <1>2, <2>2
    <3> QED
      BY <3>1, <3>2
  <2>3. CASE dataCounter # 0 /\ ~Ready
    BY <1>2, <2>3
  <2> QED
    BY <2>1, <2>2, <2>3
<1>5. dataCounter = 0 /\ dataCounter' # 0 => Len(queue) >= 28 /\ dataCounter' = 1
  BY <1>2
<1>6. dataCounter \in 1..28 => Len(queue) + dataCounter > 28
  BY <1>1
<1> QED
  BY <1>1, <1>2, <1>3, <1>4, <1>5, <1>6

\* The word shown next is the next one of the FIFO.
LEMMA NextIsShown ==
    ASSUME PathInv, PathStep, FifoEdge(audioReady(inReady)), dataCounter' \in 1..28
    PROVE  Left # <<>> /\ queue' # <<>> /\ queue'[1] = Left[1] /\ q' = queue'[1]
<1>1. Len(queue) \in Nat /\ queue \in Seq(Word)
  BY AudioCounts, QueueSteps
<1>2. Left # <<>>
  <2>1. CASE Pops
    <3>1. dataCounter \in 1..28 /\ Ready /\ dataCounter' = dataCounter + 1
      BY <2>1, AudioCounts DEF Pops, PACKET, SUBFRAME
    <3>2. Len(queue) + dataCounter > 28 /\ dataCounter <= 27
      BY <3>1, AudioCounts
    <3>3. Len(Left) = Len(queue) - 1
      BY <2>1, SecondWord
    <3>4. Len(Left) >= 1
      BY <1>1, <3>1, <3>2, <3>3
    <3> QED
      BY <3>4
  <2>2. CASE ~Pops
    <3>1. Left = queue
      BY <2>2 DEF Left
    <3>2. CASE dataCounter = 0
      <4>1. Len(queue) # 0
        BY <3>2, AudioCounts
      <4> QED
        BY <3>1, <4>1
    <3>3. CASE dataCounter # 0
      <4>1. dataCounter = 1
        <5>1. ~(dataCounter \in 1..28 /\ Ready)
          BY <2>2 DEF Pops, PACKET, SUBFRAME
        <5>2. CASE Ready
          <6>1. dataCounter \in 29..31
            BY <3>3, <5>1, <5>2, AudioCounts
          <6> QED
            BY <5>2, <6>1, AudioCounts
        <5>3. CASE ~Ready
          BY <3>3, <5>3, AudioCounts
        <5> QED
          BY <5>2, <5>3
      <4>2. Len(queue) # 0
        BY <1>1, <4>1, AudioCounts
      <4> QED
        BY <3>1, <4>2
    <3> QED
      BY <3>2, <3>3
  <2> QED
    BY <2>1, <2>2
<1> QED
  BY <1>2, FirstWord

\* Where the FIFO runs empty the next word is the first of a sample.
LEMMA BehindLastWord ==
    ASSUME PathInv, NEW w, w[1] = 7, Newest(w)
    PROVE  byteCounter \notin 2..7 /\ frameCount = NextFrame(w[2])
<1>1. byteCounter \in 0..7
  BY DEF PathInv, AudioCore, AudioTypeOK, SUBFRAME
<1>2. CASE byteCounter \in 2..7
  <2>1. w = <<byteCounter - 1, frameCount, pcmData>>
    BY <1>2 DEF Newest
  <2>2. byteCounter - 1 = 7
    BY <2>1
  <2> QED
    BY <1>2, <2>2
<1>3. CASE byteCounter \notin 2..7
  BY <1>3 DEF Newest
<1> QED
  BY <1>2, <1>3

\* The frame behind the 28th word.
LEMMA PacketEnds ==
    ASSUME PathInv, PathStep, FifoEdge(audioReady(inReady)), dataCounter = 28,
           NEW pcm \in Pcm, CaptureStep(pcm),
           NEW f \in 0..(Frames - 1), Begun(f)
    PROVE  /\ queue' # <<>> => queue'[1][1] = 1
           /\ NextDue' = (f + 4) % Frames
<1>1. f \in Nat
  BY AudioAssumption
<1>2. Pops /\ Numbered(queue[1], 27, f)
  BY AudioCounts DEF Pops, Begun, PACKET, SUBFRAME
<1>3. queue[1][1] = 7 /\ queue[1][2] = (f + 3) % Frames
  BY <1>1, <1>2, NumberedParts
<1>4. NextFrame(queue[1][2]) = (f + 4) % Frames
  <2>1. NextFrame((f + 3) % Frames) = ((f + 3) + 1) % Frames /\ (f + 3) + 1 = f + 4
    BY <1>1, NextFrameIsMod
  <2> QED
    BY <1>3, <2>1
<1>5. CASE Left # <<>>
  <2>1. Left[1][1] = 1 /\ Left[1][2] = NextFrame(queue[1][2])
    BY <1>2, <1>3, <1>5, SecondWord DEF Follows, SUBFRAME
  <2>2. queue' # <<>> /\ queue'[1] = Left[1]
    BY <1>5, FirstWord
  <2> QED
    BY <1>4, <2>1, <2>2 DEF NextDue
<1>6. CASE Left = <<>>
  <2>1. byteCounter \notin 2..7 /\ frameCount = NextFrame(queue[1][2])
    BY <1>2, <1>3, <1>6, SecondWord, BehindLastWord
  <2>2. byteCounter \in {0, 1} /\ frameCount' = frameCount
    BY <2>1 DEF CaptureStep
  <2>3. CASE byteCounter = 0
    BY <1>4, <1>6, <2>1, <2>2, <2>3, FirstWord DEF NextDue
  <2>4. CASE byteCounter = 1
    <3>1. queue' # <<>> /\ queue'[1] = fifoWord
      BY <1>6, <2>4, FirstWord
    <3>2. fifoWord[1] = 1 /\ fifoWord[2] = frameCount
      BY <2>4 DEF fifoWord
    <3> QED
      BY <1>4, <2>1, <3>1, <3>2 DEF NextDue
  <2> QED
    BY <2>2, <2>3, <2>4
<1> QED
  BY <1>5, <1>6

\* While no word is read, the next one stays the next one.
LEMMA NextStays ==
    ASSUME PathInv, FifoEdge(audioReady(inReady)), ~Pops,
           NEW pcm \in Pcm, CaptureStep(pcm)
    PROVE  /\ NextDue' = NextDue
           /\ queue' # <<>> => \/ queue # <<>> /\ queue'[1] = queue[1]
                               \/ queue = <<>> /\ queue'[1][1] = 1
<1>1. Left = queue
  BY DEF Left
<1>2. CASE queue # <<>>
  BY <1>1, <1>2, FirstWord DEF NextDue
<1>3. CASE queue = <<>>
  <2>1. byteCounter \in {0, 1}
    BY <1>3 DEF PathInv, QueueInv
  <2>2. frameCount' = frameCount
    BY <2>1 DEF CaptureStep
  <2>3. CASE byteCounter = 0
    BY <1>1, <1>3, <2>2, <2>3, FirstWord DEF NextDue
  <2>4. CASE byteCounter = 1
    <3>1. queue' # <<>> /\ queue'[1] = fifoWord
      BY <1>1, <1>3, <2>4, FirstWord
    <3>2. fifoWord[1] = 1 /\ fifoWord[2] = frameCount
      BY <2>4 DEF fifoWord
    <3> QED
      BY <1>3, <3>1, <3>2 DEF NextDue
  <2> QED
    BY <2>1, <2>3, <2>4
<1> QED
  BY <1>2, <1>3

LEMMA PathKeepsQueue ==
    ASSUME PathInv, PathStep, FifoEdge(audioReady(inReady)),
           NEW pcm \in Pcm, CaptureStep(pcm)
    PROVE  QueueInv'
<1>1. queue' = <<>> => byteCounter' \in {0, 1}
  <2> SUFFICES ASSUME queue' = <<>> PROVE byteCounter' \in {0, 1}
    OBVIOUS
  <2>1. byteCounter = 0
    BY FirstWord
  <2> QED
    BY <2>1 DEF CaptureStep
<1>2. dataCounter' \in 1..28 => q' = queue'[1]
  BY NextIsShown
<1>3. queue' # <<>> /\ dataCounter' \notin 1..28 => queue'[1][1] = 1
  <2> SUFFICES ASSUME queue' # <<>>, dataCounter' \notin 1..28
               PROVE  queue'[1][1] = 1
    OBVIOUS
  <2>1. dataCounter \in {0, 28, 29, 30, 31}
    <3>1. CASE dataCounter # 0 /\ Ready
      <4>1. dataCounter \in 1..31
        BY <3>1, AudioCounts
      <4>2. dataCounter' = IF dataCounter = 31 THEN 0 ELSE dataCounter + 1
        BY <3>1, AudioCounts
      <4> QED
        BY <4>1, <4>2
    <3>2. CASE ~(dataCounter # 0 /\ Ready)
      BY <3>2, AudioCounts
    <3> QED
      BY <3>1, <3>2
  <2>2. CASE dataCounter = 28
    <3>1. PICK f \in 0..(Frames - 1) : Begun(f)
      BY <2>2 DEF PathInv, AudioBytes
    <3> QED
      BY <2>2, <3>1, PacketEnds
  <2>3. CASE dataCounter # 28
    <3>1. dataCounter \notin 1..28 /\ ~Pops
      BY <2>1, <2>3 DEF Pops, PACKET, SUBFRAME
    <3>2. queue # <<>> => queue[1][1] = 1
      BY <3>1 DEF PathInv, QueueInv, PACKET, SUBFRAME
    <3> QED
      BY <3>1, <3>2, NextStays
  <2> QED
    BY <2>2, <2>3
<1> QED
  BY <1>1, <1>2, <1>3 DEF QueueInv, PACKET, SUBFRAME

\* What the assembler stores of an audio packet.
LEMMA AudioIsStored ==
    ASSUME PathInv, PathStep, dataCounter # 0, Ready
    PROVE  buf' = [j \in 0..30 |-> IF j = dataCounter - 1 THEN audioData ELSE buf[j]]
<1>1. ~infoSel /\ counter = STOP_COUNT /\ slot = 0
  BY InfoOffers DEF Ready
<1>2. dataCounter \in 1..31
  BY LinkTypes
<1>3. Offered /\ packetData = audioData /\ Place = dataCounter - 1
  BY <1>1, <1>2 DEF Offered, packetData, Place
<1> QED
  BY <1>1, <1>3, ByteIsStored

\* The word that is read is the one that is due.
LEMMA WordIsDue ==
    ASSUME PathInv, dataCounter \in 1..28, NEW f \in 0..(Frames - 1), Begun(f)
    PROVE  /\ Numbered(queue[1], dataCounter - 1, f)
           /\ audioData = queue[1] /\ q = queue[1]
           /\ queue # <<>> /\ queue[1] \in Word
<1>1. Numbered(queue[1], dataCounter - 1, f) /\ q = queue[1]
  BY DEF PathInv, QueueInv, Begun, PACKET, SUBFRAME
<1>2. audioData = q
  BY DEF audioData
<1>3. queue # <<>> /\ queue[1] \in Word
  <2>1. /\ queue \in Seq(Word) /\ Len(queue) \in Nat
        /\ readAck <=> dataCounter \in 1..28
        /\ readAck => Len(queue) + dataCounter > 28
    BY DEF PathInv, AudioCore, AudioTypeOK, Supply, PACKET, SUBFRAME
  <2>2. Len(queue) >= 1
    BY <2>1
  <2> QED
    BY <2>1, <2>2
<1> QED
  BY <1>1, <1>2, <1>3

LEMMA BytesGoOn ==
    ASSUME PathInv, PathStep, dataCounter \in 1..30, Ready,
           NEW f \in 0..(Frames - 1), Begun(f)
    PROVE  /\ \A j \in 0..27 : j < dataCounter => Numbered(buf'[j], j, f)
           /\ dataCounter > 28 => buf'[28] = <<"AudioHB0">>
           /\ dataCounter > 29 => buf'[29] = <<"AudioHB1">>
<1>1. \A j \in 0..30 : buf'[j] = IF j = dataCounter - 1 THEN audioData ELSE buf[j]
  BY AudioIsStored
<1>2. /\ \A j \in 0..27 : j < dataCounter - 1 => Numbered(buf[j], j, f)
      /\ dataCounter > 29 => buf[28] = <<"AudioHB0">>
  BY DEF Begun, PACKET, SUBFRAME
<1>3. ASSUME NEW j \in 0..27, j < dataCounter PROVE Numbered(buf'[j], j, f)
  <2>1. CASE j = dataCounter - 1
    <3>1. dataCounter \in 1..28
      BY <2>1
    <3>2. Numbered(queue[1], j, f) /\ audioData = queue[1]
      BY <2>1, <3>1, WordIsDue
    <3>3. buf'[j] = audioData
      BY <1>1, <2>1
    <3> QED
      BY <3>2, <3>3
  <2>2. CASE j # dataCounter - 1
    <3>1. j < dataCounter - 1 /\ buf'[j] = buf[j]
      BY <1>1, <1>3, <2>2
    <3> QED
      BY <1>2, <3>1
  <2> QED
    BY <2>1, <2>2
<1>4. dataCounter > 28 => buf'[28] = <<"AudioHB0">>
  <2>1. CASE dataCounter = 29
    <3>1. audioData = <<"AudioHB0">>
      BY <2>1 DEF audioData
    <3>2. buf'[28] = audioData
      BY <1>1, <2>1
    <3> QED
      BY <3>1, <3>2
  <2>2. CASE dataCounter # 29
    BY <1>1, <1>2, <2>2
  <2> QED
    BY <2>1, <2>2
<1>5. dataCounter > 29 => buf'[29] = <<"AudioHB1">>
  <2> SUFFICES ASSUME dataCounter = 30 PROVE buf'[29] = <<"AudioHB1">>
    OBVIOUS
  <2>1. audioData = <<"AudioHB1">>
    BY DEF audioData
  <2> QED
    BY <1>1, <2>1
<1> QED
  BY <1>3, <1>4, <1>5

LEMMA MarkersGoOn ==
    ASSUME PathInv, SendEdge(audioReady(inReady)), dataCounter \in 1..30,
           NEW f \in 0..(Frames - 1), Begun(f),
           NEW i \in 0..3, dataCounter + 1 > 7 * i + 1
    PROVE  marker'[i] <=> (f + i) % Frames = 0
<1>1. marker'[i] = /\ dataCounter # 0
                   /\ IF dataCounter = 7 * i + 1
                      THEN q # NoWord /\ FirstFlag(q) ELSE marker[i]
  BY DEF SendEdge, MarkerSlot
<1>2. f \in Nat
  BY AudioAssumption
<1>3. CASE dataCounter = 7 * i + 1
  <2>1. dataCounter \in 1..28
    BY <1>3
  <2>2. /\ Numbered(queue[1], dataCounter - 1, f) /\ q = queue[1]
        /\ queue[1] \in Word
    BY <2>1, WordIsDue
  <2>3. dataCounter - 1 \in 0..27 /\ (dataCounter - 1) \div 7 = i
    BY <1>3
  <2>4. q[2] = (f + i) % Frames
    BY <1>2, <2>2, <2>3, NumberedParts
  <2>5. q # NoWord
    BY <2>2, NoWordAssumption
  <2>6. marker'[i] <=> q[2] = 0
    BY <1>1, <1>3, <2>1, <2>5 DEF FirstFlag
  <2> QED
    BY <2>4, <2>6
<1>4. CASE dataCounter # 7 * i + 1
  <2>1. dataCounter > MarkerSlot(i) /\ dataCounter # 0
    BY <1>4 DEF MarkerSlot
  <2>2. marker[i] <=> (f + i) % Frames = 0
    BY <2>1 DEF Begun
  <2>3. marker'[i] <=> marker[i]
    BY <1>1, <1>4, <2>1
  <2> QED
    BY <2>2, <2>3
<1> QED
  BY <1>3, <1>4

LEMMA PacketGoesOn ==
    ASSUME PathInv, PathStep, FifoEdge(audioReady(inReady)),
           SendEdge(audioReady(inReady)), NEW pcm \in Pcm, CaptureStep(pcm),
           dataCounter \in 1..30, Ready, NEW f \in 0..(Frames - 1), Begun(f)
    PROVE  Begun(f)'
<1>1. dataCounter' = dataCounter + 1 /\ dataCounter' \in 2..31
  <2>1. dataCounter' = IF dataCounter = 31 THEN 0 ELSE dataCounter + 1
    BY AudioCounts
  <2> QED
    BY <2>1
<1>2. f \in Nat
  BY AudioAssumption
<1>3. ASSUME dataCounter' \in 1..28 PROVE Numbered(queue'[1], dataCounter' - 1, f)
  <2>1. dataCounter \in 1..27 /\ dataCounter - 1 \in 0..26 /\ Pops
    BY <1>1, <1>3 DEF Pops, PACKET, SUBFRAME
  <2>2. Left # <<>> /\ queue'[1] = Left[1]
    BY <1>3, NextIsShown
  <2>3. /\ Left[1] \in Word /\ Follows(queue[1], Left[1])
        /\ \E p \in Pcm : Left[1][3] = {p}
        /\ queue[1] \in Word
    BY <2>1, <2>2, SecondWord
  <2>4. Numbered(queue[1], dataCounter - 1, f)
    BY <2>1, WordIsDue
  <2>5. Numbered(Left[1], (dataCounter - 1) + 1, f)
    BY <1>2, <2>1, <2>3, <2>4, NumberedGoesOn
  <2>6. (dataCounter - 1) + 1 = dataCounter' - 1
    BY <1>1, <2>1
  <2> QED
    BY <2>2, <2>5, <2>6
<1>4. ASSUME dataCounter' > 28 PROVE NextDue' = (f + 4) % Frames
  <2>1. CASE dataCounter = 28
    BY <2>1, PacketEnds
  <2>2. CASE dataCounter # 28
    <3>1. dataCounter > 28 /\ ~Pops
      BY <1>1, <1>4, <2>2 DEF Pops, PACKET, SUBFRAME
    <3>2. NextDue = (f + 4) % Frames
      BY <3>1 DEF Begun, PACKET, SUBFRAME
    <3> QED
      BY <3>1, <3>2, NextStays
  <2> QED
    BY <2>1, <2>2
<1>5. \A j \in 0..27 : j < dataCounter' - 1 => Numbered(buf'[j], j, f)
  <2>1. \A j \in 0..27 : j < dataCounter => Numbered(buf'[j], j, f)
    BY BytesGoOn
  <2> QED
    BY <1>1, <2>1
<1>6. /\ dataCounter' > 29 => buf'[28] = <<"AudioHB0">>
      /\ dataCounter' > 30 => buf'[29] = <<"AudioHB1">>
  <2>1. /\ dataCounter > 28 => buf'[28] = <<"AudioHB0">>
        /\ dataCounter > 29 => buf'[29] = <<"AudioHB1">>
    BY BytesGoOn
  <2> QED
    BY <1>1, <2>1
<1>7. ASSUME NEW i \in 0..3, dataCounter' > 7 * i + 1
      PROVE  marker'[i] <=> (f + i) % Frames = 0
  BY <1>1, <1>7, MarkersGoOn
<1> QED
  BY <1>3, <1>4, <1>5, <1>6, <1>7 DEF Begun, MarkerSlot, PACKET, SUBFRAME, Numbered

\* A packet begins with the oldest word.
LEMMA PacketStarts ==
    ASSUME PathInv, PathStep, FifoEdge(audioReady(inReady)),
           dataCounter \in {0, 1}, dataCounter' = 1, ~Pops
    PROVE  \E f \in 0..(Frames - 1) : Begun(f)'
<1>1. Left = queue
  BY DEF Left
<1>2. queue # <<>> /\ queue'[1] = queue[1]
  BY <1>1, NextIsShown
<1>3. \E f \in 0..(Frames - 1) : Numbered(queue[1], 0, f)
  <2>1. CASE dataCounter = 0
    <3>1. queue[1][1] = 1
      BY <1>2, <2>1 DEF PathInv, QueueInv, PACKET, SUBFRAME
    <3>2. queue \in Seq(Word) /\ Len(queue) \in Nat /\ Untorn(queue)
      BY DEF PathInv, AudioCore, AudioTypeOK, Cut
    <3>3. 1 \in 1..Len(queue)
      BY <1>2, <3>2, EmptySeq
    <3>4. queue[1] \in Word /\ \E p \in Pcm : queue[1][3] = {p}
      BY <3>2, <3>3 DEF Untorn
    <3>5. queue[1][2] \in 0..(Frames - 1) /\ queue[1][2] \in Nat
      BY <3>4, AudioAssumption DEF Word
    <3>6. /\ queue[1][1] = (0 % 7) + 1
          /\ queue[1][2] = (queue[1][2] + 0 \div 7) % Frames
      <4>1. queue[1][2] % Frames = queue[1][2]
        BY <3>5, FrameIsMod
      <4> QED
        BY <3>1, <3>5, <4>1
    <3>7. Numbered(queue[1], 0, queue[1][2])
      BY <3>4, <3>5, <3>6, PartsAreNumbered
    <3> QED
      BY <3>5, <3>7
  <2>2. CASE dataCounter = 1
    <3>1. PICK f \in 0..(Frames - 1) : Begun(f)
      BY <2>2 DEF PathInv, AudioBytes
    <3>2. Numbered(queue[1], 1 - 1, f)
      BY <2>2, <3>1, WordIsDue
    <3> QED
      BY <3>2
  <2> QED
    BY <2>1, <2>2
<1>4. PICK f \in 0..(Frames - 1) : Numbered(queue[1], 0, f)
  BY <1>3
<1>5. Numbered(queue'[1], dataCounter' - 1, f)
  BY <1>2, <1>4
<1>6. Begun(f)'
  BY <1>5 DEF Begun, MarkerSlot, PACKET, SUBFRAME, Numbered
<1> QED
  BY <1>6

LEMMA PathKeepsAudioBytes ==
    ASSUME PathInv, PathStep, FifoEdge(audioReady(inReady)),
           SendEdge(audioReady(inReady)), NEW pcm \in Pcm, CaptureStep(pcm)
    PROVE  AudioBytes'
<1> SUFFICES ASSUME dataCounter' # 0 PROVE \E f \in 0..(Frames - 1) : Begun(f)'
  BY DEF AudioBytes
<1>1. dataCounter \in 0..31
  BY AudioCounts
<1>2. CASE dataCounter \in 1..30 /\ Ready
  <2>1. PICK f \in 0..(Frames - 1) : Begun(f)
    BY <1>2 DEF PathInv, AudioBytes
  <2> QED
    BY <1>2, <2>1, PacketGoesOn
<1>3. CASE dataCounter = 0
  <2>1. dataCounter' = 1 /\ ~Pops
    BY <1>3, AudioCounts DEF Pops, PACKET, SUBFRAME
  <2> QED
    BY <1>3, <2>1, PacketStarts
<1>4. CASE dataCounter # 0 /\ ~Ready
  <2>1. dataCounter = 1 /\ dataCounter' = 1 /\ ~Pops
    BY <1>4, AudioCounts DEF Pops
  <2> QED
    BY <2>1, PacketStarts
<1>5. CASE dataCounter = 31
  <2>1. Ready
    BY <1>5, AudioCounts
  <2>2. dataCounter' = IF dataCounter = 31 THEN 0 ELSE dataCounter + 1
    BY <1>5, <2>1, AudioCounts
  <2> QED
    BY <1>5, <2>2
<1> QED
  BY <1>1, <1>2, <1>3, <1>4, <1>5

\* The last byte makes a packet whole.
LEMMA LastOfInfo ==
    ASSUME PathInv, infoSel, Offered, Last
    PROVE  slot = 31 /\ \E p \in 0..2 : infoCounter = 32 * p + 31
<1>1. slot = 31 /\ infoCounter \in 0..95 /\ slot = infoCounter % 32
  BY InfoOffers, LinkTypes DEF slot, PACKET_LENGTH
<1>2. infoCounter \in {31, 63, 95}
  BY <1>1
<1>3. infoCounter = 32 * 0 + 31 \/ infoCounter = 32 * 1 + 31 \/ infoCounter = 32 * 2 + 31
  BY <1>2
<1> QED
  BY <1>1, <1>3

LEMMA InfoIsWhole ==
    ASSUME PathInv, PathStep, infoSel, Offered, Last, counter = STOP_COUNT,
           NEW p \in 0..2, infoCounter = 32 * p + 31
    PROVE  IsInfo(p)'
<1>1. slot = 31
  BY LastOfInfo
<1>2. infoCounter = 32 * p + 31
  OBVIOUS
<1>3. dataCounter \in {0, 1}
  BY LinkTypes DEF PathInv, LinkInv
<1>4. Place = 30
  BY <1>1, <1>3 DEF Place
<1>5. packetData = TableByte(32 * p + 30)
  <2>1. infoData = TableByte(infoCounter - 1)
    BY <1>1 DEF PathInv, InfoInv
  <2>2. infoCounter - 1 = 32 * p + 30
    BY <1>2
  <2> QED
    BY <2>1, <2>2 DEF packetData
<1>6. ASSUME NEW j \in 0..30 PROVE buf'[j] = TableByte(32 * p + j)
  <2>1. buf'[j] = IF j = 30 THEN packetData ELSE buf[j]
    BY <1>4, ByteIsStored
  <2>2. j # 30 => buf[j] = TableByte(infoCounter - slot + j)
    BY <1>1 DEF PathInv, InfoBytes
  <2>3. infoCounter - slot + j = 32 * p + j
    BY <1>1, <1>2
  <2> QED
    BY <1>5, <2>1, <2>2, <2>3
<1> QED
  BY <1>6 DEF IsInfo, PACKET_LENGTH

LEMMA AudioIsWhole ==
    ASSUME PathInv, PathStep, ~infoSel, Offered, Last, counter = STOP_COUNT,
           NEW f \in 0..(Frames - 1), Begun(f)
    PROVE  IsAudio(f)'
<1>1. dataCounter = 31 /\ Ready
  BY DEF Last, Ready
<1>2. \A j \in 0..30 : buf'[j] = IF j = 30 THEN audioData ELSE buf[j]
  BY <1>1, AudioIsStored
<1>3. /\ \A j \in 0..27 : Numbered(buf[j], j, f)
      /\ buf[28] = <<"AudioHB0">> /\ buf[29] = <<"AudioHB1">>
      /\ \A i \in 0..3 : marker[i] <=> (f + i) % Frames = 0
  BY <1>1 DEF Begun, MarkerSlot, PACKET, SUBFRAME
<1>4. ASSUME NEW j \in 0..27
      PROVE  \E x \in Pcm : buf'[j] = <<(j % 7) + 1, (f + j \div 7) % Frames, {x}>>
  <2>1. buf'[j] = buf[j]
    BY <1>2
  <2> QED
    BY <1>3, <2>1 DEF Numbered, SUBFRAME
<1>5. buf'[28] = <<"AudioHB0">> /\ buf'[29] = <<"AudioHB1">>
  BY <1>2, <1>3
<1>6. buf'[30] = <<"AudioHB2", {j \in 0..3 : (f + j) % Frames = 0}>>
  <2>1. buf'[30] = audioData
    BY <1>2
  <2>2. audioData = <<"AudioHB2", {i \in 0..3 : marker[i]}>>
    BY <1>1 DEF audioData
  <2>3. {i \in 0..3 : marker[i]} = {j \in 0..3 : (f + j) % Frames = 0}
    BY <1>3
  <2> QED
    BY <2>1, <2>2, <2>3
<1>7. \A j \in 0..(PACKET - 1) :
        \E x \in Pcm :
           buf'[j] = <<(j % SUBFRAME) + 1, (f + j \div SUBFRAME) % Frames, {x}>>
  <2>1. 0..(PACKET - 1) = 0..27 /\ SUBFRAME = 7
    BY DEF PACKET, SUBFRAME
  <2> QED
    BY <1>4, <2>1
<1> QED
  BY <1>5, <1>6, <1>7 DEF IsAudio

\* A loaded packet came with its last byte, or was loaded before and is the same.
LEMMA PacketIsLoaded ==
    ASSUME PathInv, PathStep, packetLoaded'
    PROVE  \/ Offered /\ Last /\ counter = STOP_COUNT
           \/ packetLoaded /\ buf' = buf /\ counter # STOP_COUNT
<1>1. counter' \in 21..63 /\ counter \in 0..63 /\ counter \notin 7..20
  BY LinkTypes DEF packetLoaded, READY_COUNT
<1>2. /\ counter = 6 => counter' = IF Offered /\ Last THEN 21 ELSE 6
      /\ counter \notin {6, 21} => counter' = IF counter = 63 THEN 0 ELSE counter + 1
      /\ counter # 6 => buf' = IF counter = 63 THEN BufferEmpty ELSE buf
  BY DEF PathStep, IslandStep, STOP_COUNT, READY_COUNT, Increment
<1>3. CASE counter = 6
  <2>1. Offered /\ Last
    BY <1>1, <1>2, <1>3
  <2> QED
    BY <1>3, <2>1 DEF STOP_COUNT
<1>4. CASE counter # 6
  <2>1. counter \in 21..62
    BY <1>1, <1>2, <1>4
  <2> QED
    BY <1>2, <1>4, <2>1 DEF packetLoaded, STOP_COUNT, READY_COUNT
<1> QED
  BY <1>3, <1>4

LEMMA PathKeepsLoaded == ASSUME PathInv, PathStep PROVE LoadedInv'
<1> SUFFICES ASSUME packetLoaded'
             PROVE  \/ \E p \in 0..2 : IsInfo(p)'
                    \/ \E f \in 0..(Frames - 1) : IsAudio(f)'
  BY DEF LoadedInv
<1>1. CASE Offered /\ Last /\ counter = STOP_COUNT
  <2>1. CASE infoSel
    <3>1. PICK p \in 0..2 : infoCounter = 32 * p + 31
      BY <1>1, <2>1, LastOfInfo
    <3> QED
      BY <1>1, <2>1, <3>1, InfoIsWhole
  <2>2. CASE ~infoSel
    <3>1. dataCounter # 0
      BY <1>1, <2>2 DEF Offered
    <3>2. PICK f \in 0..(Frames - 1) : Begun(f)
      BY <3>1 DEF PathInv, AudioBytes
    <3> QED
      BY <1>1, <2>2, <3>2, AudioIsWhole
  <2> QED
    BY <2>1, <2>2
<1>2. CASE packetLoaded /\ buf' = buf
  <2>1. \/ \E p \in 0..2 : IsInfo(p)
        \/ \E f \in 0..(Frames - 1) : IsAudio(f)
    BY <1>2 DEF PathInv, LoadedInv
  <2>2. ASSUME NEW p \in 0..2, IsInfo(p) PROVE IsInfo(p)'
    BY <1>2, <2>2 DEF IsInfo, TableByte
  <2>3. ASSUME NEW f \in 0..(Frames - 1), IsAudio(f) PROVE IsAudio(f)'
    BY <1>2, <2>3 DEF IsAudio
  <2> QED
    BY <2>1, <2>2, <2>3
<1> QED
  BY <1>1, <1>2, PacketIsLoaded

-----------------------------------------------------------------------------
(* The rest of the invariant, and the invariant.                             *)
LEMMA PathKeepsTypes ==
    ASSUME PathInv, PathStep, NEW vsync \in BOOLEAN, RequestEdge(vsync)
    PROVE  PathTypes'
<1>1. InfoStep /\ IslandStep
  BY DEF PathStep
<1>2. /\ infoCounter \in 0..95 /\ counter \in 0..63 /\ counter \notin 7..20
      /\ infoValid \in BOOLEAN /\ infoSop \in BOOLEAN /\ infoEop \in BOOLEAN
      /\ pcmEna \in BOOLEAN
  BY DEF PathInv, PathTypes, Count
<1>3. /\ infoCounter' \in 0..95
      /\ {pcmEna', infoValid', infoSop', infoEop'} \subseteq BOOLEAN
  <2>1. CASE InfoAdvances
    BY <1>1, <1>2, <2>1 DEF InfoStep
  <2>2. CASE ~InfoAdvances
    BY <1>1, <1>2, <2>2 DEF InfoStep
  <2> QED
    BY <2>1, <2>2
<1>4. readyOld' \in BOOLEAN /\ infoSel' \in BOOLEAN
  BY <1>1 DEF InfoStep
<1>5. counter' \in 0..63 /\ counter' \notin 7..20
  <2>1. /\ counter = 6 => counter' \in {21, 6}
        /\ counter = 21 => counter' \in {21, 22}
        /\ counter \notin {6, 21} => counter' = IF counter = 63 THEN 0 ELSE counter + 1
    BY <1>1 DEF IslandStep, STOP_COUNT, READY_COUNT, START_COUNT, Increment
  <2> QED
    BY <1>2, <2>1
<1>6. datacount' \in 0..31
  BY PathKeepsCount
<1>7. requestReg' \in BOOLEAN
  BY DEF RequestEdge, startBool
<1>8. buf' = [j \in 0..30 |-> buf'[j]]
  <2>1. CASE Offered /\ counter = STOP_COUNT
    <3>1. buf' = [j \in 0..30 |-> IF j = Place THEN packetData ELSE buf[j]]
      BY <2>1, ByteIsStored
    <3> QED
      BY <3>1
  <2>2. CASE ~(Offered /\ counter = STOP_COUNT)
    <3>1. buf' = IF counter = 63 THEN BufferEmpty ELSE buf
      BY <1>1, <2>2 DEF IslandStep
    <3>2. buf = [j \in 0..30 |-> buf[j]]
      BY DEF PathInv, PathTypes
    <3>3. BufferEmpty = [j \in 0..30 |-> BufferEmpty[j]]
      BY DEF BufferEmpty
    <3> QED
      BY <3>1, <3>2, <3>3
  <2> QED
    BY <2>1, <2>2
<1> QED
  BY <1>3, <1>4, <1>5, <1>6, <1>7, <1>8 DEF PathTypes, Count

LEMMA PathKeepsFresh ==
    ASSUME PathInv, PathStep, NEW pcm_fs \in BOOLEAN, NEW pcm \in Pcm,
           SourceStep(pcm_fs, pcm), pcmFs' = <<pcmFs[2], pcmFs[3], pcm_fs>>
    PROVE  FreshInv'
<1>1. infoCounter \in 0..95 /\ pcmEna \in BOOLEAN
  BY DEF PathInv, PathTypes
<1>2. \/ /\ infoCounter' = IF infoCounter = 95 THEN 0 ELSE infoCounter + 1
         /\ pcmEna' <=> pcmEna \/ infoCounter = 95
      \/ infoCounter' = infoCounter /\ pcmEna' = pcmEna
  BY DEF PathStep, InfoStep
<1>3. /\ infoCounter >= 1 \/ pcmEna => FsShown(3)
      /\ infoCounter >= 2 \/ pcmEna => FsShown(2)
  BY DEF PathInv, FreshInv
<1>4. /\ FsShown(3)'
      /\ FsShown(3) => FsShown(2)'
      /\ FsShown(2) => FsShown(1)'
  BY ClockFsShown
<1>5. ASSUME infoCounter' >= 2 \/ pcmEna' PROVE infoCounter >= 1 \/ pcmEna
  BY <1>1, <1>2, <1>5
<1>6. ASSUME infoCounter' >= 3 \/ pcmEna' PROVE infoCounter >= 2 \/ pcmEna
  BY <1>1, <1>2, <1>6
<1> QED
  BY <1>3, <1>4, <1>5, <1>6 DEF FreshInv

LEMMA PathKeepsQuiet ==
    ASSUME PathInv, PathStep, FifoEdge(audioReady(inReady)),
           NEW pcm_fs \in BOOLEAN, NEW pcm \in Pcm, CaptureEdge(pcmEna, pcm_fs, pcm)
    PROVE  QuietInv'
<1> SUFFICES ASSUME ~pcmEna'
             PROVE  byteCounter' = 0 /\ queue' = <<>> /\ dataCounter' = 0
  BY DEF QuietInv
<1>1. ~pcmEna
  BY DEF PathStep, InfoStep
<1>2. byteCounter = 0 /\ queue = <<>> /\ dataCounter = 0
  BY <1>1 DEF PathInv, QuietInv
<1>3. byteCounter' = 0
  BY <1>1, <1>2 DEF CaptureEdge, capture, fifoReady
<1>4. Left = <<>>
  BY <1>2 DEF Left, Pops
<1>5. queue' = <<>>
  BY <1>2, <1>4, FirstWord
<1>6. dataCounter' = 0
  <2>1. Len(queue) = 0
    BY <1>2
  <2> QED
    BY <1>2, <2>1, AudioCounts
<1> QED
  BY <1>3, <1>5, <1>6

\* What one edge does to the parts, in plain terms.
LEMMA ClockSteps ==
    ASSUME PathInv, NEW vsync \in BOOLEAN, NEW pcm_fs \in BOOLEAN, NEW pcm \in Pcm,
           NEW packetready \in BOOLEAN, Clock(vsync, pcm_fs, pcm, packetready)
    PROVE  /\ RequestEdge(vsync)
           /\ CaptureEdge(pcmEna, pcm_fs, pcm)
           /\ SendEdge(audioReady(inReady)) /\ FifoEdge(audioReady(inReady))
           /\ PathStep /\ SourceStep(pcm_fs, pcm) /\ CaptureStep(pcm)
           /\ AudioCore'
<1> DEFINE ready == audioReady(inReady)
<1>1. /\ SourceEdge(pcm_fs, pcm) /\ RequestEdge(vsync)
      /\ AudioEdge(pcmEna, pcm_fs, pcm, ready)
      /\ InfoEdge(requestReg, audioValid, audioEop, inReady)
      /\ IslandEdge(packetValid, packetData, packetSop, packetEop, packetready)
  BY DEF Clock
<1>2. CaptureEdge(pcmEna, pcm_fs, pcm) /\ SendEdge(ready) /\ FifoEdge(ready)
  BY <1>1 DEF AudioEdge
<1>3. AudioCore /\ pcmEna \in BOOLEAN /\ (pcmEna => FsSeen)
  <2>1. pcmEna => FsShown(1) /\ FsShown(2) /\ FsShown(3)
    BY DEF PathInv, FreshInv
  <2> QED
    BY <2>1 DEF PathInv, PathTypes, FsSeen
<1>4. AudioStep /\ ready \in BOOLEAN /\ (~ready => MayStall)
  BY <1>2, AudioSteps
<1>5. PathStep
  <2>1. InfoStep
    BY <1>1, InfoSteps
  <2>2. IslandStep
    BY <1>1, IslandSteps
  <2> QED
    BY <1>4, <2>1, <2>2 DEF PathStep
<1>6. SourceStep(pcm_fs, pcm) /\ CaptureStep(pcm)
  BY <1>1, <1>2, <1>3, SourceSteps, CaptureSteps
<1>7. AudioCore'
  BY <1>1, <1>3, <1>4, ClockKeepsAudioCore
<1> QED
  BY <1>1, <1>2, <1>5, <1>6, <1>7

LEMMA ClockKeepsPathInv ==
    ASSUME PathInv, NEW vsync \in BOOLEAN, NEW pcm_fs \in BOOLEAN, NEW pcm \in Pcm,
           NEW packetready \in BOOLEAN, Clock(vsync, pcm_fs, pcm, packetready)
    PROVE  PathInv'
<1>1. /\ RequestEdge(vsync)
      /\ CaptureEdge(pcmEna, pcm_fs, pcm)
      /\ SendEdge(audioReady(inReady)) /\ FifoEdge(audioReady(inReady))
      /\ PathStep /\ SourceStep(pcm_fs, pcm) /\ CaptureStep(pcm)
      /\ AudioCore'
  BY ClockSteps
<1>2. PathTypes'
  BY <1>1, PathKeepsTypes
<1>3. FreshInv'
  <2>1. pcmFs' = <<pcmFs[2], pcmFs[3], pcm_fs>>
    BY <1>1 DEF CaptureEdge
  <2> QED
    BY <1>1, <2>1, PathKeepsFresh
<1>4. QuietInv'
  BY <1>1, PathKeepsQuiet
<1>5. LinkInv' /\ InfoInv' /\ CountInv' /\ InfoBytes' /\ LoadedInv'
  BY <1>1, PathKeepsLink, PathKeepsInfo, PathKeepsCount, PathKeepsInfoBytes,
     PathKeepsLoaded
<1>6. QueueInv'
  BY <1>1, PathKeepsQueue
<1>7. AudioBytes'
  BY <1>1, PathKeepsAudioBytes
<1> QED
  BY <1>1, <1>2, <1>3, <1>4, <1>5, <1>6, <1>7 DEF PathInv

\* A path in reset, or just powered up, whatever the source does.
PathCleared == AudioCleared /\ InfoInit /\ IslandInit /\ requestReg = FALSE

LEMMA ClearedPathInv == PathCleared => PathInv
<1> SUFFICES ASSUME PathCleared PROVE PathInv
  OBVIOUS
<1>1. AudioCore
  BY ClearedAudioCore DEF PathCleared
<1>2. /\ infoCounter = 0 /\ infoValid = FALSE /\ infoSop = FALSE /\ infoEop = FALSE
      /\ pcmEna = FALSE /\ readyOld = FALSE /\ infoSel = FALSE /\ requestReg = FALSE
  BY DEF PathCleared, InfoInit
<1>3. counter = 6 /\ datacount = 0 /\ buf = BufferEmpty
  BY DEF PathCleared, IslandInit, SequencerInit, STOP_COUNT
<1>4. byteCounter = 0 /\ queue = <<>> /\ dataCounter = 0
  BY DEF PathCleared, AudioCleared
<1>5. slot = 0
  BY <1>2 DEF slot, PACKET_LENGTH
<1>6. PathTypes
  <2>1. buf = [j \in 0..30 |-> buf[j]]
    BY <1>3 DEF BufferEmpty
  <2>2. infoCounter \in 0..95 /\ counter \in Count \ (7..20) /\ datacount \in 0..31
    BY <1>2, <1>3 DEF Count
  <2>3. /\ {infoValid, infoSop, infoEop} \subseteq BOOLEAN
        /\ {pcmEna, readyOld, infoSel, requestReg} \subseteq BOOLEAN
    BY <1>2
  <2> QED
    BY <2>1, <2>2, <2>3 DEF PathTypes
<1>7. FreshInv /\ QuietInv
  BY <1>2, <1>4 DEF FreshInv, QuietInv
<1>8. LinkInv /\ InfoInv /\ CountInv /\ InfoBytes
  BY <1>2, <1>3, <1>4, <1>5 DEF LinkInv, InfoInv, CountInv, InfoBytes
<1>9. QueueInv /\ AudioBytes
  BY <1>4 DEF QueueInv, AudioBytes, PACKET, SUBFRAME
<1>10. LoadedInv
  BY <1>3 DEF LoadedInv, packetLoaded, READY_COUNT
<1> QED
  BY <1>1, <1>6, <1>7, <1>8, <1>9, <1>10 DEF PathInv

LEMMA InitPathInv == ASSUME Init PROVE PathInv
<1>1. PathCleared
  BY SourceAssumption
  DEF Init, AudioInit, SourceInit, Fifo!Init, PathCleared, AudioCleared
<1> QED
  BY <1>1, ClearedPathInv

LEMMA ResetPathInv == ASSUME PathInv, Reset PROVE PathInv'
<1>1. AudioCleared'
  BY DEF Reset, AudioReset, Fifo!Clear, sourceVars, PathInv, AudioCore, AudioCleared
<1>2. InfoInit' /\ IslandInit'
  BY DEF Reset, InfoReset, IslandReset, InfoInit, IslandInit, SequencerInit,
         TableByte, BufferEmpty, STOP_COUNT
<1>3. PathCleared'
  BY <1>1, <1>2 DEF Reset, PathCleared
<1> QED
  BY <1>3, ClearedPathInv, PTL

LEMMA StutterPathInv == ASSUME PathInv, UNCHANGED pathVars PROVE PathInv'
<1>1. /\ UNCHANGED <<audioVars, sourceVars>>
      /\ UNCHANGED <<pcmFs, byteCounter, frameCount, pcmData, parity>>
      /\ UNCHANGED <<queue, q, dataCounter, marker, fsAge>>
      /\ UNCHANGED <<infoCounter, infoValid, infoSop, infoEop, infoData>>
      /\ UNCHANGED <<pcmEna, readyOld, infoSel, requestReg>>
      /\ UNCHANGED <<counter, datacount, buf>>
  BY DEF pathVars, audioVars, captureVars, senderVars, sourceVars, infoVars,
         islandVars, requestVars
<1>2. AudioCore'
  BY <1>1, StutterAudioCore DEF PathInv
<1>3. PathTypes' /\ FreshInv' /\ QuietInv'
  BY <1>1 DEF PathInv, PathTypes, FreshInv, QuietInv, FsShown
<1>4. LinkInv' /\ InfoInv' /\ CountInv' /\ InfoBytes'
  BY <1>1 DEF PathInv, LinkInv, InfoInv, CountInv, InfoBytes, slot, TableByte
<1>5. QueueInv'
  BY <1>1 DEF PathInv, QueueInv
<1>6. AudioBytes'
  BY <1>1 DEF PathInv, AudioBytes, Begun, NextDue, Numbered
<1>7. LoadedInv'
  BY <1>1 DEF PathInv, LoadedInv, packetLoaded, IsInfo, IsAudio, TableByte
<1> QED
  BY <1>2, <1>3, <1>4, <1>5, <1>6, <1>7 DEF PathInv

LEMMA PathInvariant == Spec => []PathInv
<1>1. ASSUME PathInv, [Next]_pathVars PROVE PathInv'
  <2>1. CASE Tick
    BY <1>1, <2>1, ClockKeepsPathInv DEF Tick
  <2>2. CASE Reset
    BY <1>1, <2>2, ResetPathInv
  <2>3. CASE UNCHANGED pathVars
    BY <1>1, <2>3, StutterPathInv
  <2> QED
    BY <1>1, <2>1, <2>2, <2>3 DEF Next
<1> QED
  BY <1>1, InitPathInv, PTL DEF Spec

(* Once the assembler has taken the first byte of an audio packet nothing    *)
(* stalls the sender: the arbiter leaves it the link and the sequencer keeps *)
(* accepting until the last byte, whatever requests and blankings come.      *)
THEOREM AudioIsNotStalled == Spec => []AudioNeverStalls
<1>1. PathInv => AudioNeverStalls
  BY DEF PathInv, LinkInv, AudioNeverStalls, audioReady, inReady
<1> QED
  BY <1>1, PathInvariant, PTL

(* Every packet that waits in the assembler or is being sent is whole: one   *)
(* entry of the infoframe table, or four complete samples of consecutive     *)
(* frames whose header marks exactly the first frame of a block.             *)
THEOREM PacketsAreWhole == Spec => []WholePacket
<1>1. PathInv => WholePacket
  BY DEF PathInv, LoadedInv, WholePacket, LoadedPackets
<1> QED
  BY <1>1, PathInvariant, PTL

(* In the path, too, the FIFO is used within its contract, and what it holds *)
(* is whole: the arbiter and the assembler are the consumer and the infoframe*)
(* generator is the enable input that AudioStream assumes.                   *)
THEOREM PathUsesFifoInContract == Spec => [](FifoContract /\ WholeSubframes)
<1>1. PathInv => FifoContract /\ WholeSubframes
  BY CoreKeepsContract, CoreIsWhole DEF PathInv
<1> QED
  BY <1>1, PathInvariant, PTL

-----------------------------------------------------------------------------
(* The packet bus.  No buffer can be read as two packets.                    *)
LEMMA InfoIsUnique ==
    ASSUME NEW p \in 0..2, IsInfo(p) PROVE LoadedPackets = {<<"Info", p>>}
<1>1. buf[0] = <<"Info", 32 * p>>
  <2>1. buf[0] = TableByte(32 * p + 0) /\ 32 * p + 0 = 32 * p
    BY DEF IsInfo, PACKET_LENGTH
  <2> QED
    BY <2>1 DEF TableByte
<1>2. ASSUME NEW n \in 0..2, IsInfo(n) PROVE n = p
  <2>1. buf[0] = TableByte(32 * n + 0) /\ 32 * n + 0 = 32 * n
    BY <1>2 DEF IsInfo, PACKET_LENGTH
  <2>2. buf[0] = <<"Info", 32 * n>>
    BY <2>1 DEF TableByte
  <2>3. 32 * n = 32 * p
    BY <1>1, <2>2
  <2> QED
    BY <2>3
<1>3. ASSUME NEW f \in 0..(Frames - 1), IsAudio(f) PROVE FALSE
  <2>1. Len(buf[28]) = 1
    BY <1>3 DEF IsAudio
  <2>2. Len(buf[28]) = 2
    <3>1. buf[28] = <<"Info", 32 * p + 28>>
      BY DEF IsInfo, TableByte, PACKET_LENGTH
    <3> QED
      BY <3>1
  <2> QED
    BY <2>1, <2>2
<1> QED
  BY <1>2, <1>3 DEF LoadedPackets

LEMMA AudioIsUnique ==
    ASSUME NEW f \in 0..(Frames - 1), IsAudio(f)
    PROVE  LoadedPackets = {<<"Audio", f>>} /\ buf[0][2] = f
<1>1. ASSUME NEW n \in 0..(Frames - 1), IsAudio(n) PROVE buf[0][2] = n
  <2>1. 0 \in 0..(PACKET - 1) /\ 0 \div SUBFRAME = 0 /\ 0 % SUBFRAME = 0
    BY DEF PACKET, SUBFRAME
  <2>2. \E p \in Pcm : buf[0] = <<0 + 1, (n + 0) % Frames, {p}>>
    BY <1>1, <2>1 DEF IsAudio
  <2>3. n + 0 = n /\ n % Frames = n
    BY FrameIsMod, AudioAssumption
  <2> QED
    BY <2>2, <2>3
<1>2. ASSUME NEW p \in 0..2, IsInfo(p) PROVE FALSE
  <2>1. LoadedPackets = {<<"Info", p>>}
    BY <1>2, InfoIsUnique
  <2>2. <<"Audio", f>> \in LoadedPackets
    BY DEF LoadedPackets
  <2>3. <<"Audio", f>> = <<"Info", p>>
    BY <2>1, <2>2
  <2> QED
    BY <2>3
<1> QED
  BY <1>1, <1>2 DEF LoadedPackets

ReadAsOne ==
    /\ \A p \in 0..2 : IsInfo(p) => LoadedPackets = {<<"Info", p>>}
    /\ \A f \in 0..(Frames - 1) :
          IsAudio(f) => LoadedPackets = {<<"Audio", f>>} /\ buf[0][2] = f

LEMMA BufferIsReadAsOne == ReadAsOne
  BY InfoIsUnique, AudioIsUnique DEF ReadAsOne

\* The mapping, in names of its own.
BusPacket == IF packetLoaded THEN CHOOSE packet \in LoadedPackets : TRUE ELSE Blank
BusInfo   == infoCounter \div PACKET_LENGTH

\* The frame that is due stays due until the last byte is accepted.
LEMMA FrameStaysDue ==
    ASSUME PathInv, PathStep, FifoEdge(audioReady(inReady)),
           NEW pcm \in Pcm, CaptureStep(pcm), ~(dataCounter = 31 /\ Ready)
    PROVE  frameDue' = frameDue
<1>1. dataCounter \in 0..31 /\ (dataCounter \in 2..31 => Ready)
  BY AudioCounts
<1>2. CASE dataCounter \in {0, 1} /\ ~(dataCounter = 1 /\ Ready)
  <2>1. dataCounter' \in {0, 1} /\ ~Pops
    BY <1>2, AudioCounts DEF Pops, PACKET, SUBFRAME
  <2>2. NextDue' = NextDue
    BY <2>1, NextStays
  <2>3. frameDue = NextDue
    BY <1>2 DEF frameDue, NextDue
  <2>4. frameDue' = NextDue'
    BY <2>1 DEF frameDue, NextDue
  <2> QED
    BY <2>2, <2>3, <2>4
<1>3. CASE dataCounter = 1 /\ Ready
  <2>1. dataCounter' = 2
    BY <1>3, AudioCounts
  <2>2. PICK f \in 0..(Frames - 1) : Begun(f)
    BY <1>3 DEF PathInv, AudioBytes
  <2>3. audioData = queue[1] /\ queue # <<>>
    BY <1>3, <2>2, WordIsDue
  <2>4. buf'[0] = audioData
    BY <1>3, AudioIsStored
  <2>5. frameDue = queue[1][2]
    BY <1>3, <2>3 DEF frameDue
  <2>6. frameDue' = buf'[0][2]
    BY <2>1 DEF frameDue
  <2> QED
    BY <2>3, <2>4, <2>5, <2>6
<1>4. CASE dataCounter \in 2..30
  <2>1. Ready /\ dataCounter' = dataCounter + 1
    <3>1. Ready
      BY <1>1, <1>4
    <3>2. dataCounter' = IF dataCounter = 31 THEN 0 ELSE dataCounter + 1
      BY <1>4, <3>1, AudioCounts
    <3> QED
      BY <1>4, <3>1, <3>2
  <2>2. buf'[0] = buf[0]
    <3>1. buf'[0] = IF 0 = dataCounter - 1 THEN audioData ELSE buf[0]
      BY <1>4, <2>1, AudioIsStored
    <3> QED
      BY <1>4, <3>1
  <2>3. dataCounter' \in 2..31
    BY <1>4, <2>1
  <2> QED
    BY <1>4, <2>2, <2>3 DEF frameDue
<1> QED
  BY <1>1, <1>2, <1>3, <1>4

LEMMA InfoPacketLoads ==
    ASSUME PathInv, PathStep, FifoEdge(audioReady(inReady)),
           NEW pcm \in Pcm, CaptureStep(pcm),
           infoSel, Offered, Last, counter = STOP_COUNT
    PROVE  Bus!LoadInfo
<1>1. PICK p \in 0..2 : infoCounter = 32 * p + 31
  BY LastOfInfo
<1>2. ~packetLoaded /\ packetLoaded'
  BY DEF PathStep, IslandStep, packetLoaded, STOP_COUNT, READY_COUNT
<1>3. BusPacket = Blank
  BY <1>2 DEF BusPacket
<1>4. IsInfo(p)'
  BY <1>1, InfoIsWhole
<1>5. BusPacket' = <<"Info", p>>
  <2>1. ReadAsOne'
    BY BufferIsReadAsOne, PTL
  <2>2. LoadedPackets' = {<<"Info", p>>}
    BY <1>4, <2>1 DEF ReadAsOne
  <2> QED
    BY <1>2, <2>2 DEF BusPacket
<1>6. InfoAdvances
  BY <1>1 DEF InfoAdvances
<1>7. BusInfo = p /\ BusInfo' = (p + 1) % 3
  BY <1>1, <1>6 DEF PathStep, InfoStep, BusInfo, PACKET_LENGTH
<1>8. pcmEna' = (pcmEna \/ p = 2)
  BY <1>1, <1>6 DEF PathStep, InfoStep
<1>9. frameDue' = frameDue
  BY FrameStaysDue DEF Ready
<1> QED
  BY <1>3, <1>5, <1>7, <1>8, <1>9 DEF Bus!LoadInfo, BusPacket, BusInfo

LEMMA AudioPacketLoads ==
    ASSUME PathInv, PathStep, FifoEdge(audioReady(inReady)),
           NEW pcm \in Pcm, CaptureStep(pcm),
           ~infoSel, Offered, Last, counter = STOP_COUNT
    PROVE  Bus!LoadAudio
<1>1. dataCounter = 31 /\ Ready
  BY DEF Last, Ready
<1>2. PICK f \in 0..(Frames - 1) : Begun(f)
  BY <1>1 DEF PathInv, AudioBytes
<1>3. ~packetLoaded /\ packetLoaded'
  BY DEF PathStep, IslandStep, packetLoaded, STOP_COUNT, READY_COUNT
<1>4. BusPacket = Blank
  BY <1>3 DEF BusPacket
<1>5. IsAudio(f)'
  BY <1>2, AudioIsWhole
<1>6. BusPacket' = <<"Audio", f>> /\ buf'[0][2] = f
  <2>1. ReadAsOne'
    BY BufferIsReadAsOne, PTL
  <2>2. LoadedPackets' = {<<"Audio", f>>} /\ buf'[0][2] = f
    BY <1>5, <2>1 DEF ReadAsOne
  <2> QED
    BY <1>3, <2>2 DEF BusPacket
<1>7. frameDue = f
  <2>1. buf'[0] = buf[0]
    BY <1>1, AudioIsStored
  <2> QED
    BY <1>1, <1>6, <2>1 DEF frameDue
<1>8. frameDue' = (f + 4) % Frames
  <2>1. dataCounter' = 0 /\ ~Pops
    BY <1>1, AudioCounts DEF Pops, PACKET, SUBFRAME
  <2>2. NextDue' = NextDue
    BY <2>1, NextStays
  <2>3. NextDue = (f + 4) % Frames
    BY <1>1, <1>2 DEF Begun, PACKET, SUBFRAME
  <2>4. frameDue' = NextDue'
    BY <2>1 DEF frameDue, NextDue
  <2> QED
    BY <2>2, <2>3, <2>4
<1>9. infoCounter = 0 /\ ~InfoAdvances
  BY InfoOffers
<1>10. BusInfo = 0 /\ BusInfo' = 0
  BY <1>9 DEF PathStep, InfoStep, BusInfo, PACKET_LENGTH
<1>11. pcmEna /\ pcmEna' = pcmEna
  BY <1>1, <1>9 DEF PathInv, QuietInv, PathStep, InfoStep
<1> QED
  BY <1>4, <1>6, <1>7, <1>8, <1>10, <1>11 DEF Bus!LoadAudio, BusPacket, BusInfo

\* No other edge moves the bus but the one that ends the island.
LEMMA OtherEdges ==
    ASSUME PathInv, PathStep, FifoEdge(audioReady(inReady)),
           NEW pcm \in Pcm, CaptureStep(pcm),
           ~(Offered /\ Last /\ counter = STOP_COUNT)
    PROVE  Bus!Send \/ UNCHANGED Bus!busVars
<1>1. frameDue' = frameDue
  <2>1. ~(dataCounter = 31 /\ Ready)
    BY DEF Ready, Offered, Last
  <2> QED
    BY <2>1, FrameStaysDue
<1>2. BusInfo' = BusInfo /\ pcmEna' = pcmEna
  <2>1. CASE InfoAdvances
    <3>1. infoSel /\ counter = STOP_COUNT /\ slot # 31
      BY <2>1, InfoOffers
    <3>2. infoCounter \in 0..95 /\ infoCounter % 32 # 31 /\ infoCounter # 95
      BY <3>1, LinkTypes DEF slot, PACKET_LENGTH
    <3>3. infoCounter' = infoCounter + 1
      BY <2>1, <3>2 DEF PathStep, InfoStep
    <3>4. BusInfo' = BusInfo
      BY <3>2, <3>3 DEF BusInfo, PACKET_LENGTH
    <3>5. pcmEna' <=> pcmEna
      BY <2>1, <3>2 DEF PathStep, InfoStep
    <3>6. pcmEna \in BOOLEAN /\ pcmEna' \in BOOLEAN
      BY <2>1 DEF PathInv, PathTypes, PathStep, InfoStep
    <3> QED
      BY <3>4, <3>5, <3>6
  <2>2. CASE ~InfoAdvances
    BY <2>2 DEF PathStep, InfoStep, BusInfo
  <2> QED
    BY <2>1, <2>2
<1>3. CASE packetLoaded'
  <2>1. packetLoaded /\ buf' = buf
    BY <1>3, PacketIsLoaded
  <2>2. LoadedPackets' = LoadedPackets
    BY <2>1 DEF LoadedPackets, IsInfo, IsAudio, TableByte
  <2>3. BusPacket' = BusPacket
    BY <1>3, <2>1, <2>2 DEF BusPacket
  <2> QED
    BY <1>1, <1>2, <2>3 DEF Bus!busVars, BusPacket, BusInfo
<1>4. CASE ~packetLoaded'
  <2>1. BusPacket' = Blank
    BY <1>4 DEF BusPacket
  <2>2. CASE BusPacket = Blank
    BY <1>1, <1>2, <2>1, <2>2 DEF Bus!busVars, BusPacket, BusInfo
  <2>3. CASE BusPacket # Blank
    BY <1>1, <1>2, <2>1, <2>3 DEF Bus!Send, BusPacket, BusInfo
  <2> QED
    BY <2>2, <2>3
<1> QED
  BY <1>3, <1>4

LinkCleared == /\ counter = 6 /\ infoCounter = 0 /\ dataCounter = 0
               /\ queue = <<>> /\ frameCount = 0
BusCleared == BusPacket = Blank /\ BusInfo = 0 /\ frameDue = 0

LEMMA ClearedBus == LinkCleared => BusCleared
<1> SUFFICES ASSUME LinkCleared PROVE BusCleared
  OBVIOUS
<1>1. ~packetLoaded
  BY DEF LinkCleared, packetLoaded, READY_COUNT
<1> QED
  BY <1>1 DEF LinkCleared, BusCleared, BusPacket, BusInfo, frameDue, PACKET_LENGTH

LEMMA InitIsBusInit == ASSUME Init PROVE Bus!Init
<1>1. LinkCleared /\ pcmEna = FALSE
  BY DEF Init, AudioInit, Fifo!Init, InfoInit, IslandInit, SequencerInit, STOP_COUNT,
         LinkCleared
<1>2. BusCleared
  BY <1>1, ClearedBus
<1> QED
  BY <1>1, <1>2 DEF Bus!Init, BusCleared, BusPacket, BusInfo

LEMMA ResetIsBusReset == ASSUME Reset PROVE Bus!Reset
<1>1. LinkCleared' /\ pcmEna' = FALSE
  BY DEF Reset, AudioReset, Fifo!Clear, InfoReset, IslandReset, STOP_COUNT, LinkCleared
<1>2. BusCleared'
  BY <1>1, ClearedBus, PTL
<1> QED
  BY <1>1, <1>2 DEF Bus!Reset, BusCleared, BusPacket, BusInfo

LEMMA ClockIsBusStep ==
    ASSUME PathInv, NEW vsync \in BOOLEAN, NEW pcm_fs \in BOOLEAN, NEW pcm \in Pcm,
           NEW packetready \in BOOLEAN, Clock(vsync, pcm_fs, pcm, packetready)
    PROVE  Bus!Next \/ UNCHANGED Bus!busVars
<1>1. FifoEdge(audioReady(inReady)) /\ PathStep /\ CaptureStep(pcm)
  BY ClockSteps
<1>2. CASE Offered /\ Last /\ counter = STOP_COUNT
  <2>1. CASE infoSel
    BY <1>1, <1>2, <2>1, InfoPacketLoads DEF Bus!Next
  <2>2. CASE ~infoSel
    BY <1>1, <1>2, <2>2, AudioPacketLoads DEF Bus!Next
  <2> QED
    BY <2>1, <2>2
<1>3. CASE ~(Offered /\ Last /\ counter = STOP_COUNT)
  BY <1>1, <1>3, OtherEdges DEF Bus!Next
<1> QED
  BY <1>2, <1>3

LEMMA StutterIsBusStutter == ASSUME UNCHANGED pathVars PROVE UNCHANGED Bus!busVars
<1>1. UNCHANGED <<dataCounter, queue, frameCount, infoCounter, pcmEna, counter, buf>>
  BY DEF pathVars, audioVars, captureVars, senderVars, infoVars, islandVars
<1>2. BusInfo' = BusInfo /\ frameDue' = frameDue /\ pcmEna' = pcmEna
  BY <1>1 DEF BusInfo, frameDue
<1>3. LoadedPackets' = LoadedPackets
  BY <1>1 DEF LoadedPackets, IsInfo, IsAudio, TableByte
<1>4. BusPacket' = BusPacket
  BY <1>1, <1>3 DEF BusPacket, packetLoaded
<1> QED
  BY <1>2, <1>4 DEF Bus!busVars, BusPacket, BusInfo

(* hdmi_tx implements the packet bus its sink is promised: infoframes in     *)
(* whole sets, no audio before the first of them, audio packets of four      *)
(* consecutive frames with none lost, repeated or torn, and one packet per   *)
(* data island - for every FIFO depth, block length and set of samples, and  *)
(* with vsync, pcm_fs, blankings and resets at any time.                     *)
THEOREM PathImplementsPacketBus == Spec => ImplementsPacketBus
<1>1. Init => Bus!Init
  BY InitIsBusInit
<1>2. ASSUME PathInv, [Next]_pathVars PROVE [Bus!Next]_Bus!busVars
  <2>1. CASE Tick
    BY <1>2, <2>1, ClockIsBusStep DEF Tick
  <2>2. CASE Reset
    BY <2>2, ResetIsBusReset DEF Bus!Next
  <2>3. CASE UNCHANGED pathVars
    BY <2>3, StutterIsBusStutter
  <2> QED
    BY <1>2, <2>1, <2>2, <2>3 DEF Next
<1> QED
  BY <1>1, <1>2, PathInvariant, PTL DEF Spec, ImplementsPacketBus, Bus!Spec

=============================================================================
