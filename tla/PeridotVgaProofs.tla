--------------------------- MODULE PeridotVgaProofs ----------------------------
(* The frame reader and its FIFO for every size of frame, burst and FIFO.    *)
EXTENDS PeridotVga, TLAPS, SequenceTheorems

-----------------------------------------------------------------------------
(* The inductive invariant: types, room and two parts.                       *)

\* A burst is not empty and does not go past the end of the line.
BurstInv ==
    /\ avmState = "READ_SETUP" => transcounter > 0
    /\ avmState \in {"READ_START", "READ_ISSUE", "READ_DATA"}
          => 0 < datacounter /\ datacounter <= transcounter

\* A frame on the screen is not finished, one to come is not begun.
FrameInv ==
    /\ phase \in {"rise", "sync", "back"} => count = 0
    /\ phase = "active" => count < FRAME

IInv == TypeOK /\ RoomForBurst /\ BurstInv /\ FrameInv

busVars == <<readerVars, pixelVars>>

-----------------------------------------------------------------------------
(* Sizes and the FIFO.                                                       *)
LEMMA Sizes ==
    /\ LINENUMBER \in Nat /\ 0 < LINENUMBER /\ TRANSCYCLE \in Nat /\ 0 < TRANSCYCLE
    /\ LINEWORDNUM \in Nat /\ BURSTUNIT \in Nat /\ 0 < BURSTUNIT
    /\ FIFODEPTH \in Nat /\ BURSTUNIT < FIFODEPTH
    /\ FIFORESETCOUNT \in Nat /\ 0 < FIFORESETCOUNT
  BY ReaderAssumption, PixelFifoAssumption, VgaAssumption

LEMMA FrameIsNat == FRAME \in Nat /\ 0 < FRAME
  <1> DEFINE L == LINENUMBER
             T == TRANSCYCLE
  <1>1. L \in Nat /\ T \in Nat /\ L >= 1 /\ T >= 1
    BY Sizes
  <1> HIDE DEF L, T
  <1>2. L * T \in Nat /\ 0 < L * T
    BY <1>1
  <1> QED
    BY <1>2 DEF FRAME, L, T

\* The words behind the FIFO's exit never become more by a shift.
LEMMA FifoIsTyped ==
  ASSUME fifo \in Seq(Nat)
  PROVE  Len(fifo) \in Nat
  BY LenProperties

LEMMA AppendWord ==
  ASSUME NEW word \in Nat, fifo \in Seq(Nat)
  PROVE  /\ Append(fifo, word) \in Seq(Nat)
         /\ Len(Append(fifo, word)) = Len(fifo) + 1
  BY AppendProperties

LEMMA TailWord ==
  ASSUME fifo \in Seq(Nat), fifo # <<>>
  PROVE  /\ Tail(fifo) \in Seq(Nat)
         /\ Len(Tail(fifo)) = Len(fifo) - 1
         /\ Len(fifo) > 0
  BY HeadTailProperties, EmptySeq, LenProperties

(* What an edge of the bus clock does to the queue: it stays typed, takes at *)
(* most the word that is written, and none when none is.                     *)
LEMMA QueueStep ==
  ASSUME NEW wrena \in BOOLEAN, NEW word \in Nat, TypeOK, QueueWord(wrena, word)
  PROVE  /\ fifo' \in Seq(Nat) /\ unseen' \in Nat
         /\ used' <= FIFODEPTH
         /\ used' <= used + 1
         /\ ~wrena => used' <= used
  <1>1. fifo \in Seq(Nat) /\ unseen \in Nat /\ used <= FIFODEPTH /\ Len(fifo) \in Nat
    BY FifoIsTyped DEF TypeOK, PixelTypeOK
  <1>2. unseen' \in Nat /\ unseen' <= unseen
    BY <1>1 DEF QueueWord
  <1>3. \/ fifo' = <<>>
        \/ fifo' = fifo
        \/ wrena /\ used < FIFODEPTH /\ fifo' = Append(fifo, word)
    <2>1. CASE nextFiforeset \/ fiforeset
      BY <2>1 DEF QueueWord
    <2>2. CASE ~(nextFiforeset \/ fiforeset) /\ (~wrena \/ used >= FIFODEPTH)
      BY <2>2 DEF QueueWord
    <2>3. CASE ~(nextFiforeset \/ fiforeset) /\ ~(~wrena \/ used >= FIFODEPTH)
      <3>1. fifo' \in {fifo, Append(fifo, word)}
        BY <2>3 DEF QueueWord
      <3>2. wrena /\ used < FIFODEPTH
        BY <2>3, <1>1, Sizes DEF used
      <3> QED
        BY <3>1, <3>2
    <2> QED
      BY <2>1, <2>2, <2>3
  <1>4. CASE fifo' = <<>>
    <2>1. fifo' \in Seq(Nat) /\ Len(fifo') = 0
      BY <1>4
    <2>2. Len(fifo') \in Nat /\ Len(fifo') <= Len(fifo)
      BY <2>1, <1>1
    <2>3. fifo' \in Seq(Nat)
      BY <2>1
    <2> QED
      BY <2>2, <2>3, <1>1, <1>2, Sizes DEF used
  <1>5. CASE fifo' = fifo
    BY <1>5, <1>1, <1>2, Sizes DEF used
  <1>6. CASE wrena /\ used < FIFODEPTH /\ fifo' = Append(fifo, word)
    <2>1. fifo' \in Seq(Nat) /\ Len(fifo') = Len(fifo) + 1
      BY <1>6, <1>1, AppendWord
    <2> QED
      BY <1>6, <2>1, <1>1, <1>2, Sizes DEF used
  <1> QED
    BY <1>3, <1>4, <1>5, <1>6

-----------------------------------------------------------------------------
(* The bus clock.                                                            *)
LEMMA BusTypes ==
  ASSUME IInv, NEW stall \in BOOLEAN, BusClock(stall)
  PROVE  TypeOK' /\ BurstInv'
  <1> USE DEF IInv
  <1>1. /\ fsSync' \in BOOLEAN \X BOOLEAN \X BOOLEAN
        /\ pixSync' \in BOOLEAN \X BOOLEAN \X BOOLEAN
    <2>1. framestart \in BOOLEAN /\ vsync \in BOOLEAN
      BY DEF framestart, vsync, TypeOK
    <2> QED
      BY <2>1 DEF BusClock, ReaderEdge, WriteEdge, ResetSequence, TypeOK,
                  ReaderTypeOK, PixelTypeOK
  <1>2. /\ fiforeset' \in BOOLEAN
        /\ resetcounter' \in 0..(FIFORESETCOUNT * 2 - 1)
    <2>1. fiforeset' \in BOOLEAN
      BY DEF BusClock, WriteEdge, ResetSequence, nextFiforeset, vsyncRises, TypeOK,
             PixelTypeOK
    <2>2. resetcounter' \in 0..(FIFORESETCOUNT * 2 - 1)
      BY Sizes DEF BusClock, WriteEdge, ResetSequence, TypeOK, PixelTypeOK
    <2> QED
      BY <2>1, <2>2
  <1>3. fifo' \in Seq(Nat) /\ unseen' \in Nat /\ used' <= FIFODEPTH
    <2>1. readdata_valid(stall) \in BOOLEAN /\ memAddr \in Nat
      BY DEF readdata_valid, TypeOK, ReaderTypeOK
    <2> QED
      BY <2>1, QueueStep DEF BusClock, WriteEdge
  <1>4. /\ avmState' \in BusStates
        /\ datacounter' \in 0..BURSTUNIT
        /\ transcounter' \in 0..TRANSCYCLE
        /\ linecounter' \in 0..(LINENUMBER - 1)
        /\ lineaddr' \in Nat /\ addr' \in Nat /\ memAddr' \in Nat
        /\ BurstInv'
    <2> USE Sizes DEF BurstInv, BusStates, TypeOK, ReaderTypeOK
    <2>0. topOut \in Nat
      BY VgaAssumption
    <2>1. CASE Idle(topOut)
      BY <2>0, <2>1 DEF Idle
    <2>2. CASE LineInit(fifo_ready)
      BY <2>2 DEF LineInit
    <2>3. CASE ReadSetup
      BY <2>3 DEF ReadSetup
    <2>4. CASE ReadStart(freedw)
      BY <2>4 DEF ReadStart
    <2>5. CASE ReadIssue(stall)
      BY <2>5 DEF ReadIssue
    <2>6. CASE ReadData(stall)
      BY <2>6 DEF ReadData
    <2>7. CASE LineLoop
      BY <2>7 DEF LineLoop
    <2> QED
      BY <2>1, <2>2, <2>3, <2>4, <2>5, <2>6, <2>7 DEF BusClock, ReaderEdge
  <1> QED
    BY <1>1, <1>2, <1>3, <1>4 DEF TypeOK, ReaderTypeOK, PixelTypeOK, BusClock,
                                  csrVars, videoVars

(* The words that are still to come when the bus clock ticks: room for them  *)
(* is checked before the request, and each takes the place kept for it.      *)
LEMMA BusRoom ==
  ASSUME IInv, NEW stall \in BOOLEAN, BusClock(stall)
  PROVE  RoomForBurst'
  <1> DEFINE wrena == readdata_valid(stall)
  <1>1. /\ Len(fifo) \in Nat /\ Len(fifo') \in Nat /\ unseen \in Nat /\ unseen' \in Nat
        /\ used' <= used + 1 /\ (~wrena => used' <= used)
    <2>1. wrena \in BOOLEAN /\ memAddr \in Nat /\ TypeOK
      BY DEF readdata_valid, IInv, TypeOK, ReaderTypeOK
    <2>2. QueueWord(wrena, memAddr)
      BY DEF BusClock, WriteEdge
    <2>3. /\ fifo' \in Seq(Nat) /\ unseen' \in Nat
          /\ used' <= used + 1 /\ (~wrena => used' <= used)
      BY <2>1, <2>2, QueueStep
    <2>4. Len(fifo) \in Nat /\ unseen \in Nat
      BY <2>1, FifoIsTyped DEF TypeOK, PixelTypeOK
    <2>5. Len(fifo') \in Nat
      BY <2>3, LenProperties
    <2> QED
      BY <2>3, <2>4, <2>5
  <1>2. datacounter \in Nat /\ FIFODEPTH \in Nat
    BY Sizes DEF IInv, TypeOK, ReaderTypeOK
  <1>3. CASE Idle(topOut) \/ LineInit(fifo_ready) \/ ReadSetup \/ LineLoop
    BY <1>3 DEF Idle, LineInit, ReadSetup, LineLoop, RoomForBurst
  <1>4. CASE ReadStart(freedw)
    <2>1. avmState' = "READ_ISSUE" => datacounter <= FIFODEPTH - used
      BY <1>1, <1>2, <1>4, Sizes DEF ReadStart, freedw, fifo_wrfreedw, used
    <2>2. datacounter' = datacounter /\ ~wrena
      BY <1>4 DEF ReadStart, readdata_valid
    <2>3. avmState' # "READ_DATA"
      BY <1>4 DEF ReadStart
    <2>4. used' <= used
      BY <1>1, <2>2
    <2>5. avmState' = "READ_ISSUE" => used' + datacounter' <= FIFODEPTH
      BY <1>1, <1>2, <2>1, <2>2, <2>4 DEF used
    <2> QED
      BY <2>3, <2>5 DEF RoomForBurst
  <1>5. CASE ReadIssue(stall)
    <2>1. used + datacounter <= FIFODEPTH
      BY <1>5 DEF ReadIssue, IInv, RoomForBurst
    <2>2. datacounter' = datacounter /\ ~wrena
      BY <1>5 DEF ReadIssue, readdata_valid
    <2>3. used' <= used
      BY <1>1, <2>2
    <2>4. used' + datacounter' <= FIFODEPTH
      BY <1>1, <1>2, <2>1, <2>2, <2>3 DEF used
    <2> QED
      BY <2>4 DEF RoomForBurst
  <1>6. CASE ReadData(stall)
    <2>1. used + datacounter <= FIFODEPTH
      BY <1>6 DEF ReadData, IInv, RoomForBurst
    <2>2. CASE stall
      <3>1. datacounter' = datacounter /\ ~wrena
        BY <1>6, <2>2 DEF ReadData, readdata_valid
      <3>2. used' <= used
        BY <1>1, <3>1
      <3>3. used' + datacounter' <= FIFODEPTH
        BY <1>1, <1>2, <2>1, <3>1, <3>2 DEF used
      <3> QED
        BY <3>3 DEF RoomForBurst
    <2>3. CASE ~stall
      <3>1. datacounter' = datacounter - 1
        BY <1>6, <2>3 DEF ReadData
      <3>2. used' <= used + 1
        BY <1>1
      <3>3. used' + datacounter' <= FIFODEPTH
        BY <1>1, <1>2, <2>1, <3>1, <3>2 DEF used
      <3> QED
        BY <3>3 DEF RoomForBurst
    <2> QED
      BY <2>2, <2>3
  <1> QED
    BY <1>3, <1>4, <1>5, <1>6 DEF BusClock, ReaderEdge

-----------------------------------------------------------------------------
(* The other clocks.                                                         *)
LEMMA CsrKeeps == IInv /\ CsrClock => IInv'
  <1> SUFFICES ASSUME IInv, CsrClock PROVE IInv'
    OBVIOUS
  <1> USE DEF IInv, CsrClock, CsrEdge, WriteScan, ShiftIn, readerVars, pixelVars, videoVars
  <1>1. csrSync' \in BOOLEAN \X BOOLEAN \X BOOLEAN
    <2>1. vsync \in BOOLEAN
      BY DEF vsync
    <2> QED
      BY <2>1 DEF TypeOK
  <1>2. topOut' \in Tops /\ scanReg' \in BOOLEAN
    BY DEF TypeOK
  <1>3. used' = used
    BY DEF used
  <1>4. TypeOK'
    BY <1>1, <1>2, <1>3 DEF TypeOK, ReaderTypeOK, PixelTypeOK
  <1> QED
    BY <1>3, <1>4 DEF RoomForBurst, BurstInv, FrameInv

\* The bus side learns of room: the words still to come have no less of it.
LEMMA CatchKeeps == IInv /\ Catch => IInv'
  <1> SUFFICES ASSUME IInv, Catch PROVE IInv'
    OBVIOUS
  <1> USE DEF IInv, Catch, Synchronize, csrVars, readerVars, videoVars
  <1>1. fifo \in Seq(Nat) /\ Len(fifo) \in Nat /\ unseen \in Nat /\ unseen > 0
    BY FifoIsTyped DEF TypeOK, PixelTypeOK
  <1>2. fifo' = fifo /\ unseen' = unseen - 1 /\ unseen' \in Nat
    BY <1>1
  <1>3. datacounter \in Nat /\ datacounter' = datacounter /\ avmState' = avmState
    BY DEF TypeOK, ReaderTypeOK
  <1>4. used' <= FIFODEPTH
    BY <1>1, <1>2, Sizes DEF used, TypeOK, PixelTypeOK
  <1>5. RoomForBurst'
    <2>1. avmState \in {"READ_ISSUE", "READ_DATA"} => used + datacounter <= FIFODEPTH
      BY DEF RoomForBurst
    <2>2. avmState \in {"READ_ISSUE", "READ_DATA"} => used' + datacounter' <= FIFODEPTH
      BY <1>1, <1>2, <1>3, <2>1, Sizes DEF used
    <2> QED
      BY <1>3, <2>2 DEF RoomForBurst
  <1>6. TypeOK'
    BY <1>2, <1>1, <1>4 DEF TypeOK, ReaderTypeOK, PixelTypeOK
  <1> QED
    BY <1>5, <1>6 DEF BurstInv, FrameInv

LEMMA TakeKeeps ==
  ASSUME IInv, TakeWord
  PROVE  /\ fifo' \in Seq(Nat) /\ unseen' \in Nat
         /\ Len(fifo') + unseen' = Len(fifo) + unseen
         /\ Len(fifo) \in Nat /\ Len(fifo') \in Nat
  <1>1. fifo \in Seq(Nat) /\ unseen \in Nat /\ Len(fifo) \in Nat
    BY FifoIsTyped DEF IInv, TypeOK, PixelTypeOK
  <1>2. Tail(fifo) \in Seq(Nat) /\ Len(Tail(fifo)) = Len(fifo) - 1 /\ Len(fifo) > 0
    BY <1>1, TailWord DEF TakeWord
  <1>3. fifo' = Tail(fifo) /\ unseen' = unseen + 1
    BY DEF TakeWord
  <1> QED
    BY <1>1, <1>2, <1>3

LEMMA RequestKeeps ==
  ASSUME IInv, Request, UNCHANGED <<csrVars, readerVars>>
  PROVE  IInv'
  <1> USE DEF IInv, Request, csrVars, readerVars
  <1>1. /\ fifo' \in Seq(Nat) /\ unseen' \in Nat
        /\ Len(fifo') + unseen' = Len(fifo) + unseen
        /\ clean' \in BOOLEAN
    <2>1. CASE TakeWord /\ clean' = clean
      BY <2>1, TakeKeeps DEF TypeOK
    <2>2. CASE underrun /\ clean' = FALSE /\ UNCHANGED <<fifo, unseen>>
      BY <2>2 DEF TypeOK, PixelTypeOK
    <2> QED
      BY <2>1, <2>2
  <1>2. used' = used
    BY <1>1 DEF used
  <1>3. count \in Nat /\ FRAME \in Nat /\ count < FRAME /\ count' = count + 1
    BY FrameIsNat DEF FrameInv, TypeOK
  <1>4. FRAME' = FRAME
    BY DEF FRAME
  <1>5. count' \in 0..FRAME /\ phase' \in Phases /\ FrameInv'
    BY <1>3, <1>4 DEF FrameInv, Phases
  <1>6. TypeOK'
    BY <1>1, <1>2, <1>4, <1>5 DEF TypeOK, ReaderTypeOK, PixelTypeOK
  <1> QED
    BY <1>2, <1>5, <1>6 DEF RoomForBurst, BurstInv

LEMMA VideoKeeps == IInv /\ Video => IInv'
  <1> SUFFICES ASSUME IInv, Video PROVE IInv'
    OBVIOUS
  <1>1. UNCHANGED <<csrVars, readerVars>>
    BY DEF Video
  <1>2. CASE VsyncRises \/ LatchScan \/ SyncEnds \/ BackPorch
    <2>1. UNCHANGED pixelVars
      BY <1>2 DEF VsyncRises, LatchScan, SyncEnds, BackPorch
    <2>2. used' = used /\ FRAME' = FRAME
      BY <2>1 DEF used, pixelVars, FRAME
    <2>3. ReaderAtRest \in BOOLEAN
      BY DEF ReaderAtRest
    <2>4. /\ phase' \in Phases /\ count' \in 0..FRAME /\ FrameInv'
          /\ scanIn' \in BOOLEAN /\ scanEna' \in BOOLEAN /\ clean' \in BOOLEAN
      <3> USE FrameIsNat, <2>2, <2>3 DEF IInv, TypeOK, FrameInv, Phases
      <3>1. CASE VsyncRises
        BY <3>1 DEF VsyncRises
      <3>2. CASE LatchScan
        BY <3>2 DEF LatchScan
      <3>3. CASE SyncEnds
        BY <3>3 DEF SyncEnds
      <3>4. CASE BackPorch
        BY <3>4 DEF BackPorch
      <3> QED
        BY <1>2, <3>1, <3>2, <3>3, <3>4
    <2>5. TypeOK'
      BY <1>1, <2>1, <2>2, <2>4 DEF IInv, TypeOK, ReaderTypeOK, PixelTypeOK,
                                    csrVars, readerVars, pixelVars
    <2>6. RoomForBurst' /\ BurstInv'
      BY <1>1, <2>2 DEF IInv, RoomForBurst, BurstInv, readerVars
    <2> QED
      BY <2>4, <2>5, <2>6 DEF IInv
  <1>3. CASE Request
    BY <1>1, <1>3, RequestKeeps
  <1> QED
    BY <1>2, <1>3 DEF Video

-----------------------------------------------------------------------------
(* The invariant.                                                            *)
LEMMA InitHolds == Init => IInv
  <1> SUFFICES ASSUME Init PROVE IInv
    OBVIOUS
  <1>1. /\ csrSync = Nothing /\ topOut \in Tops /\ scanReg = FALSE
        /\ fsSync = Nothing /\ avmState = "IDLE"
        /\ datacounter = 0 /\ transcounter = 0 /\ linecounter = 0
        /\ lineaddr = 0 /\ addr = 0 /\ memAddr = 0
        /\ pixSync = Nothing /\ fiforeset = FALSE /\ resetcounter = 0 /\ unseen = 0
        /\ phase = "front" /\ count = 0
        /\ scanIn = FALSE /\ scanEna = FALSE /\ clean = FALSE
    BY DEF Init, CsrInit, ReaderInit, PixelInit, Nothing
  <1>2. fifo \in Seq(Nat) /\ Len(fifo) \in 0..FIFODEPTH
    <2>1. PICK n \in 0..FIFODEPTH : fifo = [i \in 1..n |-> 0]
      BY DEF Init, PixelInit
    <2>2. n \in Nat
      BY <2>1, Sizes
    <2> QED
      BY <2>1, <2>2
  <1>3. used <= FIFODEPTH
    BY <1>1, <1>2, Sizes DEF used
  <1>4. ReaderTypeOK
    <2>1. /\ datacounter \in 0..BURSTUNIT /\ transcounter \in 0..TRANSCYCLE
          /\ linecounter \in 0..(LINENUMBER - 1)
      BY <1>1, Sizes
    <2>2. lineaddr \in Nat /\ addr \in Nat /\ memAddr \in Nat
      BY <1>1
    <2>3. fsSync \in BOOLEAN \X BOOLEAN \X BOOLEAN /\ avmState \in BusStates
      BY <1>1 DEF Nothing, BusStates
    <2> QED
      BY <2>1, <2>2, <2>3 DEF ReaderTypeOK
  <1>5. PixelTypeOK(Nat)
    <2>1. resetcounter \in 0..(FIFORESETCOUNT * 2 - 1) /\ unseen \in Nat
      BY <1>1, Sizes
    <2>2. pixSync \in BOOLEAN \X BOOLEAN \X BOOLEAN /\ fiforeset \in BOOLEAN
      BY <1>1 DEF Nothing
    <2> QED
      BY <2>1, <2>2, <1>2, <1>3 DEF PixelTypeOK
  <1>6. TypeOK
    <2>1. csrSync \in BOOLEAN \X BOOLEAN \X BOOLEAN /\ scanReg \in BOOLEAN
      BY <1>1 DEF Nothing
    <2>2. phase \in Phases /\ count \in 0..FRAME
      BY <1>1, FrameIsNat DEF Phases
    <2>3. scanIn \in BOOLEAN /\ scanEna \in BOOLEAN /\ clean \in BOOLEAN
      BY <1>1
    <2> QED
      BY <1>1, <1>4, <1>5, <2>1, <2>2, <2>3 DEF TypeOK
  <1> QED
    BY <1>1, <1>6 DEF IInv, RoomForBurst, BurstInv, FrameInv

LEMMA StepKeeps == IInv /\ [Next]_vars => IInv'
  <1> SUFFICES ASSUME IInv, [Next]_vars PROVE IInv'
    OBVIOUS
  <1>1. CASE CsrClock
    BY <1>1, CsrKeeps
  <1>2. ASSUME NEW stall \in BOOLEAN, BusClock(stall) PROVE IInv'
    <2>1. FrameInv'
      BY <1>2 DEF IInv, FrameInv, BusClock, videoVars, FRAME
    <2> QED
      BY <1>2, <2>1, BusTypes, BusRoom DEF IInv
  <1>3. CASE Catch
    BY <1>3, CatchKeeps
  <1>4. CASE Video
    BY <1>4, VideoKeeps
  <1>5. CASE UNCHANGED vars
    BY <1>5 DEF vars, csrVars, readerVars, pixelVars, videoVars, IInv, TypeOK,
                ReaderTypeOK, PixelTypeOK, RoomForBurst, BurstInv, FrameInv, used, FRAME
  <1> QED
    BY <1>1, <1>2, <1>3, <1>4, <1>5 DEF Next

(* A burst the reader has requested finds room in the pixel FIFO to its last *)
(* word, for every size of burst, line and FIFO, every speed of memory and   *)
(* whatever the FIFO reset and software do in between.                       *)
THEOREM BurstsFindRoom == Spec => []RoomForBurst
  <1>1. IInv => RoomForBurst
    BY DEF IInv
  <1> QED
    BY InitHolds, StepKeeps, <1>1, PTL DEF Spec

(* The registers, counters and the FIFO stay in their ranges.                *)
THEOREM TypesHold == Spec => []TypeOK
  <1>1. IInv => TypeOK
    BY DEF IInv
  <1> QED
    BY InitHolds, StepKeeps, <1>1, PTL DEF Spec

-----------------------------------------------------------------------------
(* The picture.  A frame is followed from the rise of vertical sync on: the  *)
(* sync reaches each bus clock in order, the FIFO is emptied before the      *)
(* reader is started, and then each word has one place to be put.            *)

\* A register chain fills while sync lasts, has filled when it ends, and has
\* emptied before the picture begins.
SyncOrder(sync) ==
    /\ vsync => (sync[3] => sync[2]) /\ (sync[2] => sync[1])
    /\ phase = "back" => (sync[1] => sync[2]) /\ (sync[2] => sync[3])
    /\ phase \in {"front", "active"} => ~sync[1] /\ ~sync[2] /\ ~sync[3]

SyncInv ==
    /\ SyncOrder(csrSync) /\ SyncOrder(pixSync)
    /\ fiforeset => resetcounter >= FIFORESETCOUNT
    /\ resetcounter # 0 => vsync /\ pixSync[3]

Begun   == avmState # "IDLE"
Flushed == vsync => pixSync[3]        \* the FIFO has been emptied for this frame
Shown   == clean /\ phase # "front"

Done == count + Len(fifo)             \* words of this frame put into the FIFO
Line == LINENUMBER - 1 - linecounter  \* the line being read
WordsBefore == Line * TRANSCYCLE      \* words of the lines before it
LineTop     == topOut + Line * LINEWORDNUM

\* The start comes after the buffer address and after the FIFO's reset.
StartInv ==
    /\ vsync => \A k \in 1..3 : fsSync[k] => csrSync[3] /\ pixSync[k]
    /\ ~Flushed => ~Begun
    /\ vsync /\ ~csrSync[3] => ~Begun /\ (Flushed => fifo = <<>>)
    /\ resetcounter # 0 => avmState \in {"IDLE", "LINE_INIT"} /\ fifo = <<>>

WordsInv ==
    Flushed => \A i \in 1..Len(fifo) : fifo[i] = Place(count + i - 1)

\* The counters and addresses of the reader agree with what it has delivered.
InLine == {"READ_SETUP", "READ_START", "READ_ISSUE", "READ_DATA", "LINE_LOOP"}

AimInv ==
    /\ avmState = "LINE_INIT" => Done = WordsBefore /\ lineaddr = LineTop
    /\ avmState \in InLine =>
          /\ Done = WordsBefore + TRANSCYCLE - transcounter
          /\ lineaddr = LineTop + LINEWORDNUM
    /\ avmState \in {"READ_SETUP", "READ_START", "READ_ISSUE"} =>
          addr = LineTop + TRANSCYCLE - transcounter
    /\ avmState = "READ_DATA" => memAddr = LineTop + TRANSCYCLE - transcounter
    /\ avmState \in {"READ_START", "READ_ISSUE", "READ_DATA"}
       /\ transcounter > datacounter =>
          addr + BURSTUNIT = LineTop + TRANSCYCLE - transcounter + datacounter
    /\ avmState = "LINE_LOOP" /\ transcounter > 0 =>
          addr + BURSTUNIT = LineTop + TRANSCYCLE - transcounter

\* A start still on its way when the picture begins finds the reader busy, and
\* it will be gone when the reader is done.
OnceInv ==
    phase = "active" =>
       /\ fsSync[1] \/ fsSync[2] => IF Begun THEN Done < FRAME ELSE Done = 0
       /\ fsSync[1] /\ avmState \in {"READ_ISSUE", "READ_DATA"} =>
             Done + datacounter < FRAME

\* Before the picture begins the reader cannot be done: the FIFO is too small.
WaitInv == phase # "active" /\ Flushed /\ ~Begun => fifo = <<>>

PictureInv ==
    /\ IInv /\ SyncInv
    /\ Shown => StartInv /\ WordsInv /\ AimInv /\ OnceInv /\ WaitInv

LEMMA SyncTypes ==
  ASSUME IInv
  PROVE  /\ csrSync \in BOOLEAN \X BOOLEAN \X BOOLEAN
         /\ pixSync \in BOOLEAN \X BOOLEAN \X BOOLEAN
         /\ fsSync \in BOOLEAN \X BOOLEAN \X BOOLEAN
         /\ vsync \in BOOLEAN /\ fiforeset \in BOOLEAN /\ phase \in Phases
         /\ resetcounter \in 0..(FIFORESETCOUNT * 2 - 1)
  BY DEF IInv, TypeOK, ReaderTypeOK, PixelTypeOK, vsync

\* A chain that takes in vertical sync keeps its order.
LEMMA ShiftKeepsOrder ==
  ASSUME NEW s \in BOOLEAN \X BOOLEAN \X BOOLEAN, SyncOrder(s), vsync \in BOOLEAN
  PROVE  SyncOrder(<<vsync, s[1], s[2]>>)
  <1>1. s[1] \in BOOLEAN /\ s[2] \in BOOLEAN /\ s[3] \in BOOLEAN
    OBVIOUS
  <1> DEFINE t == <<vsync, s[1], s[2]>>
  <1>2. (t[1] <=> vsync) /\ (t[2] <=> s[1]) /\ (t[3] <=> s[2])
    BY <1>1
  <1>3. phase = "back" => ~vsync
    BY DEF vsync
  <1>4. phase \in {"front", "active"} => ~vsync
    BY DEF vsync
  <1> QED
    BY <1>1, <1>2, <1>3, <1>4 DEF SyncOrder

LEMMA CsrKeepsSync ==
  ASSUME IInv, SyncInv, CsrClock
  PROVE  SyncInv'
  <1>1. /\ csrSync' = <<vsync, csrSync[1], csrSync[2]>>
        /\ UNCHANGED <<pixSync, fiforeset, resetcounter, phase>>
    BY DEF CsrClock, CsrEdge, ShiftIn, pixelVars, videoVars
  <1>2. SyncOrder(csrSync')
    BY <1>1, SyncTypes, ShiftKeepsOrder DEF SyncInv
  <1> QED
    BY <1>1, <1>2 DEF SyncInv, SyncOrder, vsync

LEMMA BusKeepsSync ==
  ASSUME IInv, SyncInv, NEW stall \in BOOLEAN, BusClock(stall)
  PROVE  SyncInv'
  <1>1. /\ pixSync' = <<vsync, pixSync[1], pixSync[2]>>
        /\ fiforeset' = nextFiforeset
        /\ resetcounter' = IF vsyncRises THEN FIFORESETCOUNT * 2 - 1
                           ELSE IF resetcounter # 0 THEN resetcounter - 1 ELSE 0
        /\ UNCHANGED <<csrSync, phase>>
    BY DEF BusClock, WriteEdge, ResetSequence, csrVars, videoVars
  <1>2. SyncOrder(pixSync')
    BY <1>1, SyncTypes, ShiftKeepsOrder DEF SyncInv
  <1>3. FIFORESETCOUNT \in Nat /\ FIFORESETCOUNT > 0
    BY Sizes
  <1>4. vsyncRises => vsync /\ pixSync[2]
    BY SyncTypes DEF SyncInv, SyncOrder, vsyncRises, vsync, Phases
  <1>5. fiforeset' => resetcounter' >= FIFORESETCOUNT
    <2>1. CASE vsyncRises
      BY <1>1, <1>3, <2>1
    <2>2. CASE ~vsyncRises
      <3>1. fiforeset' => fiforeset /\ resetcounter # FIFORESETCOUNT
        BY <1>1, <2>2 DEF nextFiforeset
      <3>2. fiforeset' => resetcounter > FIFORESETCOUNT
        BY <1>3, <3>1, SyncTypes DEF SyncInv
      <3> QED
        BY <1>1, <1>3, <2>2, <3>2, SyncTypes
    <2> QED
      BY <2>1, <2>2
  <1>6. resetcounter' # 0 => vsync /\ pixSync[2]
    <2>1. resetcounter # 0 => vsync /\ pixSync[2]
      BY DEF SyncInv, SyncOrder
    <2> QED
      BY <1>1, <1>4, <2>1
  <1>7. vsync' = vsync /\ pixSync'[3] = pixSync[2]
    BY <1>1 DEF vsync
  <1> QED
    BY <1>1, <1>2, <1>5, <1>6, <1>7 DEF SyncInv, SyncOrder, vsync

LEMMA VideoKeepsSync ==
  ASSUME IInv, SyncInv, Video
  PROVE  SyncInv'
  <1>1. UNCHANGED <<csrSync, pixSync, fiforeset, resetcounter>>
    BY DEF Video, csrVars, VsyncRises, LatchScan, SyncEnds, BackPorch, Request, TakeWord,
           pixelVars
  <1> USE <1>1 DEF SyncInv, SyncOrder, vsync
  <1>2. CASE VsyncRises
    BY <1>2 DEF VsyncRises, VsyncSeen, fifo_ready
  <1>3. CASE LatchScan
    BY <1>3 DEF LatchScan
  <1>4. CASE SyncEnds
    BY <1>4 DEF SyncEnds, VsyncSeen, fifo_ready
  <1>5. CASE BackPorch
    BY <1>5 DEF BackPorch, VsyncSeen, fifo_ready
  <1>6. CASE Request
    BY <1>6 DEF Request
  <1> QED
    BY <1>2, <1>3, <1>4, <1>5, <1>6 DEF Video

\* The FIFO at an edge of the bus clock: emptied once, then filled in order.
LEMMA BusQueue ==
  ASSUME PictureInv, Shown, NEW stall \in BOOLEAN, BusClock(stall)
  PROVE  /\ Flushed => /\ Flushed'
                       /\ fifo' = IF readdata_valid(stall) THEN Append(fifo, memAddr)
                                                           ELSE fifo
         /\ ~Flushed => ~readdata_valid(stall) /\ (Flushed' => fifo' = <<>>)
  <1>1. /\ pixSync' = <<vsync, pixSync[1], pixSync[2]>>
        /\ QueueWord(readdata_valid(stall), memAddr)
        /\ UNCHANGED phase
    BY DEF BusClock, WriteEdge, ResetSequence, videoVars
  <1>2. vsync' = vsync /\ pixSync'[3] = pixSync[2] /\ vsync \in BOOLEAN
    BY <1>1 DEF vsync
  <1>3. readdata_valid(stall) => avmState = "READ_DATA"
    BY DEF readdata_valid
  <1>4. ASSUME Flushed
        PROVE  fifo' = IF readdata_valid(stall) THEN Append(fifo, memAddr) ELSE fifo
    <2>1. ~vsyncRises
      BY <1>4, SyncTypes
      DEF PictureInv, SyncInv, SyncOrder, vsyncRises, Flushed, Shown, vsync, Phases
    <2>2. CASE resetcounter # 0
      <3>1. ~readdata_valid(stall) /\ fifo = <<>>
        BY <1>3, <2>2 DEF PictureInv, StartInv
      <3>2. fifo' = <<>>
        BY <1>1, <3>1 DEF QueueWord
      <3> QED
        BY <3>1, <3>2
    <2>3. CASE resetcounter = 0
      <3>1. ~fiforeset /\ ~nextFiforeset /\ fifo_ready
        BY <2>1, <2>3, SyncTypes, Sizes DEF PictureInv, SyncInv, nextFiforeset, fifo_ready
      <3>2. readdata_valid(stall) => ~(used >= FIFODEPTH)
        <4>1. fifo \in Seq(Nat) /\ unseen \in Nat /\ Len(fifo) \in Nat
          BY FifoIsTyped DEF PictureInv, IInv, TypeOK, PixelTypeOK
        <4>2. avmState = "READ_DATA" => used + datacounter <= FIFODEPTH /\ 0 < datacounter
          BY DEF PictureInv, IInv, RoomForBurst, BurstInv
        <4>3. datacounter \in Nat /\ FIFODEPTH \in Nat /\ used \in Nat
          BY <4>1, Sizes DEF PictureInv, IInv, TypeOK, ReaderTypeOK, used
        <4> QED
          BY <1>3, <4>2, <4>3
      <3>3. CASE readdata_valid(stall)
        BY <1>1, <3>1, <3>2, <3>3 DEF QueueWord
      <3>4. CASE ~readdata_valid(stall)
        BY <1>1, <3>1, <3>4 DEF QueueWord
      <3> QED
        BY <3>3, <3>4
    <2> QED
      BY <2>2, <2>3
  <1>5. Flushed => Flushed'
    BY <1>2, SyncTypes DEF PictureInv, SyncInv, SyncOrder, Flushed
  <1>6. ASSUME ~Flushed
        PROVE  ~readdata_valid(stall) /\ (Flushed' => fifo' = <<>>)
    <2>1. ~readdata_valid(stall)
      BY <1>3, <1>6 DEF PictureInv, StartInv, Begun
    <2>2. Flushed' => vsyncRises
      BY <1>2, <1>6, SyncTypes DEF Flushed, vsyncRises
    <2>3. vsyncRises => fifo' = <<>>
      BY <1>1 DEF QueueWord, nextFiforeset
    <2> QED
      BY <2>1, <2>2, <2>3
  <1> QED
    BY <1>4, <1>5, <1>6

\* Word r of line k has the place that the reader gives it.
LEMMA DivOfSum ==
  ASSUME NEW T \in Nat, T > 0, NEW k \in Nat, NEW r \in 0..(T - 1)
  PROVE  (k * T + r) \div T = k /\ (k * T + r) % T = r
  <1> DEFINE n == k * T + r
  <1>1. n \in Nat
    <2>1. k * T \in Nat
      OBVIOUS
    <2> QED
      BY <2>1
  <1>2. PICK d \in Int : d = n \div T
    BY <1>1
  <1>3. PICK m \in 0..(T - 1) : m = n % T
    BY <1>1
  <1>4. n = T * d + m
    BY <1>1, <1>2, <1>3
  <1>5. T * (k - d) = m - r
    BY <1>4
  <1>6. ~(k - d >= 1)
    <2> SUFFICES ASSUME k - d >= 1 PROVE FALSE
      OBVIOUS
    <2>1. T * (k - d) >= T
      OBVIOUS
    <2> QED
      BY <1>5, <2>1
  <1>7. ~(k - d <= -1)
    <2> SUFFICES ASSUME k - d <= -1 PROVE FALSE
      OBVIOUS
    <2>1. T * (k - d) <= -T
      OBVIOUS
    <2> QED
      BY <1>5, <2>1
  <1>8. d = k
    BY <1>6, <1>7
  <1>9. m = r
    BY <1>5, <1>8
  <1> QED
    BY <1>2, <1>3, <1>8, <1>9

LEMMA PlaceOfWord ==
  ASSUME IInv, transcounter > 0
  PROVE  Place(WordsBefore + TRANSCYCLE - transcounter) = LineTop + TRANSCYCLE - transcounter
  <1>1. Line \in Nat
    BY Sizes DEF IInv, TypeOK, ReaderTypeOK, Line
  <1>2. /\ TRANSCYCLE - transcounter \in 0..(TRANSCYCLE - 1) /\ transcounter \in Nat
        /\ TRANSCYCLE \in Nat /\ TRANSCYCLE > 0
    BY Sizes DEF IInv, TypeOK, ReaderTypeOK
  <1>3. PICK r \in 0..(TRANSCYCLE - 1) : r = TRANSCYCLE - transcounter
    BY <1>2
  <1>4. WordsBefore + TRANSCYCLE - transcounter = Line * TRANSCYCLE + r
    <2>1. Line * TRANSCYCLE \in Nat
      BY <1>1, <1>2
    <2> QED
      BY <1>2, <1>3, <2>1 DEF WordsBefore
  <1>5. /\ (Line * TRANSCYCLE + r) \div TRANSCYCLE = Line
        /\ (Line * TRANSCYCLE + r) % TRANSCYCLE = r
    BY <1>1, <1>2, DivOfSum
  <1>6. topOut \in Nat /\ Line * LINEWORDNUM \in Nat
    BY <1>1, Sizes, VgaAssumption DEF IInv, TypeOK
  <1>7. Place(Line * TRANSCYCLE + r) = topOut + Line * LINEWORDNUM + r
    BY <1>5 DEF Place
  <1> QED
    BY <1>2, <1>3, <1>4, <1>6, <1>7 DEF LineTop

LEMMA PictureTypes ==
  ASSUME IInv
  PROVE  /\ fifo \in Seq(Nat) /\ Len(fifo) \in Nat /\ count \in Nat /\ Done \in Nat
         /\ Line \in Nat /\ WordsBefore \in Nat /\ LineTop \in Nat
         /\ linecounter \in 0..(LINENUMBER - 1) /\ transcounter \in 0..TRANSCYCLE
         /\ datacounter \in 0..BURSTUNIT /\ avmState \in BusStates
         /\ lineaddr \in Nat /\ addr \in Nat /\ memAddr \in Nat /\ topOut \in Nat
  <1>1. /\ fifo \in Seq(Nat) /\ Len(fifo) \in Nat /\ count \in 0..FRAME
        /\ linecounter \in 0..(LINENUMBER - 1) /\ transcounter \in 0..TRANSCYCLE
        /\ datacounter \in 0..BURSTUNIT /\ avmState \in BusStates
        /\ lineaddr \in Nat /\ addr \in Nat /\ memAddr \in Nat /\ topOut \in Nat
    BY FifoIsTyped, VgaAssumption DEF IInv, TypeOK, ReaderTypeOK, PixelTypeOK
  <1>2. count \in Nat /\ Done \in Nat
    BY <1>1, FrameIsNat DEF Done
  <1>3. Line \in Nat
    BY <1>1, Sizes DEF Line
  <1>4. Line * TRANSCYCLE \in Nat /\ Line * LINEWORDNUM \in Nat
    BY <1>3, Sizes
  <1> QED
    BY <1>1, <1>2, <1>3, <1>4 DEF WordsBefore, LineTop

\* From line to line.
LEMMA SameLine ==
  ASSUME linecounter' = linecounter, topOut' = topOut
  PROVE  WordsBefore' = WordsBefore /\ LineTop' = LineTop
  BY DEF WordsBefore, LineTop, Line

LEMMA FirstLine ==
  ASSUME IInv, linecounter' = LINENUMBER - 1, topOut' = topOut
  PROVE  WordsBefore' = 0 /\ LineTop' = topOut
  <1>1. Line' = 0
    BY Sizes DEF Line
  <1>2. Line' * TRANSCYCLE = 0 /\ Line' * LINEWORDNUM = 0
    BY <1>1, Sizes
  <1> QED
    BY <1>2, PictureTypes DEF WordsBefore, LineTop

LEMMA NextLine ==
  ASSUME IInv, linecounter' = linecounter - 1, topOut' = topOut
  PROVE  WordsBefore' = WordsBefore + TRANSCYCLE /\ LineTop' = LineTop + LINEWORDNUM
  <1>1. Line' = Line + 1 /\ Line \in Nat
    BY PictureTypes, Sizes DEF Line
  <1>2. /\ (Line + 1) * TRANSCYCLE = Line * TRANSCYCLE + TRANSCYCLE
        /\ (Line + 1) * LINEWORDNUM = Line * LINEWORDNUM + LINEWORDNUM
        /\ Line * LINEWORDNUM \in Nat
    BY <1>1, Sizes
  <1>3. Line' * TRANSCYCLE = WordsBefore + TRANSCYCLE
    BY <1>1, <1>2 DEF WordsBefore
  <1>4. topOut + Line' * LINEWORDNUM = LineTop + LINEWORDNUM
    <2>1. topOut \in Nat /\ LINEWORDNUM \in Nat
      BY PictureTypes, Sizes
    <2>2. Line' * LINEWORDNUM = Line * LINEWORDNUM + LINEWORDNUM
      BY <1>1, <1>2
    <2> QED
      BY <1>2, <2>1, <2>2 DEF LineTop
  <1> QED
    BY <1>3, <1>4 DEF WordsBefore, LineTop

LEMMA LastLine ==
  ASSUME linecounter = 0
  PROVE  WordsBefore + TRANSCYCLE = FRAME
  <1>1. Line = LINENUMBER - 1
    BY Sizes DEF Line
  <1>2. (LINENUMBER - 1) * TRANSCYCLE + TRANSCYCLE = LINENUMBER * TRANSCYCLE
    BY Sizes
  <1> QED
    BY <1>1, <1>2 DEF WordsBefore, FRAME

\* What an edge of the bus clock leaves alone, and what it delivers.
LEMMA BusDelivers ==
  ASSUME PictureInv, Shown, NEW stall \in BOOLEAN, BusClock(stall)
  PROVE  /\ UNCHANGED <<csrSync, topOut, scanReg, phase, count, clean>>
         /\ Begun => Done' = Done + (IF readdata_valid(stall) THEN 1 ELSE 0)
  <1>1. UNCHANGED <<csrSync, topOut, scanReg, phase, count, clean>>
    BY DEF BusClock, csrVars, videoVars
  <1>2. IInv
    BY DEF PictureInv
  <1>3. ASSUME Begun PROVE Done' = Done + (IF readdata_valid(stall) THEN 1 ELSE 0)
    <2>1. fifo' = IF readdata_valid(stall) THEN Append(fifo, memAddr) ELSE fifo
      BY <1>3, BusQueue DEF PictureInv, StartInv
    <2>2. memAddr \in Nat /\ fifo \in Seq(Nat) /\ Len(fifo) \in Nat /\ count \in Nat
      BY <1>2, PictureTypes
    <2>3. Len(fifo') = Len(fifo) + (IF readdata_valid(stall) THEN 1 ELSE 0)
      BY <2>1, <2>2, AppendWord
    <2> QED
      BY <1>1, <2>2, <2>3 DEF Done
  <1> QED
    BY <1>1, <1>3

\* A start that reaches the idle reader finds the frame not begun.
LEMMA StartIsFirst ==
  ASSUME PictureInv, Shown, NEW stall \in BOOLEAN, BusClock(stall), fsSync[2],
         ~Begun
  PROVE  Flushed' /\ count = 0 /\ fifo' = <<>>
  <1>1. IInv /\ StartInv /\ OnceInv /\ WaitInv
    BY DEF PictureInv
  <1>2. phase \in Phases \ {"front"} /\ count \in Nat /\ Len(fifo) \in Nat /\ fifo \in Seq(Nat)
    BY <1>1, SyncTypes, PictureTypes DEF Shown
  <1>3. ~readdata_valid(stall)
    BY DEF Begun, readdata_valid
  <1>4. Flushed'
    <2>1. vsync => pixSync[2]
      BY <1>1 DEF StartInv
    <2>2. pixSync'[3] = pixSync[2] /\ vsync' = vsync
      BY DEF BusClock, WriteEdge, ResetSequence, videoVars, vsync
    <2> QED
      BY <2>1, <2>2 DEF Flushed
  <1>5. CASE phase = "active"
    <2>1. Done = 0 /\ Flushed
      BY <1>1, <1>5 DEF OnceInv, Flushed, vsync
    <2>2. count = 0 /\ Len(fifo) = 0
      BY <1>2, <2>1 DEF Done
    <2>3. fifo' = fifo
      BY <1>3, <2>1, BusQueue
    <2>4. fifo = <<>>
      BY <1>2, <2>2
    <2> QED
      BY <1>4, <2>2, <2>3, <2>4
  <1>6. CASE phase # "active"
    <2>1. count = 0
      BY <1>1, <1>2, <1>6 DEF IInv, FrameInv, Phases
    <2>2. CASE Flushed
      <3>1. fifo = <<>>
        BY <1>1, <1>6, <2>2 DEF WaitInv
      <3> QED
        BY <1>3, <1>4, <2>1, <2>2, <3>1, BusQueue
    <2>3. CASE ~Flushed
      BY <1>4, <2>1, <2>3, BusQueue
    <2> QED
      BY <2>2, <2>3
  <1> QED
    BY <1>5, <1>6

LEMMA BusKeepsWords ==
  ASSUME PictureInv, Shown, NEW stall \in BOOLEAN, BusClock(stall)
  PROVE  WordsInv'
  <1>1. IInv /\ WordsInv /\ AimInv
    BY DEF PictureInv
  <1>2. UNCHANGED <<topOut, count>>
    BY BusDelivers
  <1>3. \A n \in Nat : Place(n)' = Place(n)
    BY <1>2 DEF Place
  <1>4. CASE Flushed /\ ~readdata_valid(stall)
    BY <1>1, <1>2, <1>4, BusQueue DEF WordsInv, Place
  <1>5. CASE Flushed /\ readdata_valid(stall)
    <2>1. fifo' = Append(fifo, memAddr)
      BY <1>5, BusQueue
    <2>2. fifo \in Seq(Nat) /\ Len(fifo) \in Nat /\ memAddr \in Nat /\ count \in Nat
      BY <1>1, PictureTypes
    <2>3. avmState = "READ_DATA"
      BY <1>5 DEF readdata_valid
    <2>4. memAddr = Place(Done)
      <3>1. transcounter > 0
        BY <1>1, <2>3, PictureTypes DEF IInv, BurstInv
      <3> QED
        BY <1>1, <2>3, <3>1, PlaceOfWord DEF AimInv, InLine
    <2>5. /\ Len(fifo') = Len(fifo) + 1
          /\ \A i \in 1..Len(fifo) : fifo'[i] = fifo[i]
          /\ fifo'[Len(fifo) + 1] = memAddr
      BY <2>1, <2>2, AppendProperties
    <2>6. ASSUME NEW i \in 1..Len(fifo') PROVE fifo'[i] = Place(count + i - 1)
      <3>1. CASE i \in 1..Len(fifo)
        BY <1>1, <1>5, <2>5, <3>1 DEF WordsInv
      <3>2. CASE i \notin 1..Len(fifo)
        <4>1. i = Len(fifo) + 1
          BY <2>2, <2>5, <3>2
        <4>2. count + i - 1 = Done
          BY <2>2, <4>1 DEF Done
        <4> QED
          BY <2>4, <2>5, <4>1, <4>2
      <3> QED
        BY <3>1, <3>2
    <2> QED
      BY <1>2, <2>6 DEF WordsInv, Place
  <1>6. CASE ~Flushed
    BY <1>6, BusQueue DEF WordsInv
  <1> QED
    BY <1>4, <1>5, <1>6

LEMMA BusKeepsAim ==
  ASSUME PictureInv, Shown, NEW stall \in BOOLEAN, BusClock(stall)
  PROVE  AimInv'
  <1>1. IInv /\ AimInv /\ BurstInv
    BY DEF PictureInv, IInv
  <1>2. UNCHANGED <<topOut, count>>
    BY BusDelivers
  <1>3. Begun => Done' = Done + (IF readdata_valid(stall) THEN 1 ELSE 0)
    BY BusDelivers
  <1>4. /\ Done \in Nat /\ WordsBefore \in Nat /\ LineTop \in Nat
        /\ transcounter \in 0..TRANSCYCLE /\ datacounter \in 0..BURSTUNIT
        /\ lineaddr \in Nat /\ addr \in Nat /\ memAddr \in Nat /\ topOut \in Nat
        /\ TRANSCYCLE \in Nat /\ BURSTUNIT \in Nat /\ LINEWORDNUM \in Nat
    BY <1>1, PictureTypes, Sizes
  <1>5. linecounter' = linecounter => WordsBefore' = WordsBefore /\ LineTop' = LineTop
    BY <1>2, SameLine
  <1>6. avmState \notin {"IDLE", "READ_DATA"} => Done' = Done
    BY <1>3, <1>4 DEF Begun, readdata_valid
  <1>7. CASE Idle(topOut)
    <2>1. CASE framebegin
      <3>1. fsSync[2] /\ ~Begun
        BY <1>7, <2>1 DEF framebegin, Idle, Begun
      <3>2. fifo' = <<>> /\ count = 0
        BY <3>1, StartIsFirst
      <3>3. Done' = 0
        BY <1>2, <3>2 DEF Done
      <3>4. /\ avmState' = "LINE_INIT" /\ lineaddr' = topOut
            /\ linecounter' = LINENUMBER - 1
        BY <1>7, <2>1 DEF Idle
      <3>5. WordsBefore' = 0 /\ LineTop' = topOut
        BY <1>1, <1>2, <3>4, FirstLine
      <3> QED
        BY <3>3, <3>4, <3>5 DEF AimInv, InLine
    <2>2. CASE ~framebegin
      <3>1. avmState' = "IDLE"
        BY <1>7, <2>2 DEF Idle
      <3> QED
        BY <3>1 DEF AimInv, InLine
    <2> QED
      BY <2>1, <2>2
  <1>8. CASE LineInit(fifo_ready)
    <2>1. avmState = "LINE_INIT" /\ linecounter' = linecounter
      BY <1>8 DEF LineInit
    <2>2. Done = WordsBefore /\ lineaddr = LineTop
      BY <1>1, <2>1 DEF AimInv
    <2>3. Done' = WordsBefore' /\ LineTop' = lineaddr
      BY <1>5, <1>6, <2>1, <2>2
    <2>4. CASE fifo_ready
      <3>1. /\ avmState' = "READ_SETUP" /\ transcounter' = TRANSCYCLE
            /\ addr' = lineaddr /\ lineaddr' = lineaddr + LINEWORDNUM
        BY <1>8, <2>4 DEF LineInit
      <3>2. /\ Done' = WordsBefore' + TRANSCYCLE - transcounter'
            /\ lineaddr' = LineTop' + LINEWORDNUM
            /\ addr' = LineTop' + TRANSCYCLE - transcounter'
        BY <1>4, <1>5, <2>1, <2>3, <3>1
      <3> QED
        BY <3>1, <3>2 DEF AimInv, InLine
    <2>5. CASE ~fifo_ready
      BY <1>8, <2>1, <2>3, <2>5 DEF LineInit, AimInv, InLine
    <2> QED
      BY <2>4, <2>5
  <1>9. CASE ReadSetup
    <2>1. /\ avmState = "READ_SETUP" /\ avmState' = "READ_START"
          /\ datacounter' = IF transcounter > BURSTUNIT THEN BURSTUNIT ELSE transcounter
          /\ UNCHANGED <<transcounter, linecounter, lineaddr, addr, memAddr>>
      BY <1>9 DEF ReadSetup
    <2>2. /\ Done' = WordsBefore' + TRANSCYCLE - transcounter'
          /\ lineaddr' = LineTop' + LINEWORDNUM
          /\ addr' = LineTop' + TRANSCYCLE - transcounter'
      BY <1>1, <1>5, <1>6, <2>1 DEF AimInv, InLine
    <2>3. transcounter' > datacounter' => datacounter' = BURSTUNIT
      BY <1>4, <2>1
    <2>4. LineTop' \in Nat
      BY <1>4, <1>5, <2>1
    <2>5. transcounter' > datacounter' =>
            addr' + BURSTUNIT = LineTop' + TRANSCYCLE - transcounter' + datacounter'
      BY <2>2, <2>3
    <2> QED
      BY <2>1, <2>2, <2>5 DEF AimInv, InLine
  <1>10. CASE ReadStart(freedw) \/ (ReadIssue(stall) /\ stall)
    <2>1. /\ avmState \in {"READ_START", "READ_ISSUE"}
          /\ avmState' \in {"READ_START", "READ_ISSUE"}
          /\ UNCHANGED <<datacounter, transcounter, linecounter, lineaddr, addr>>
      BY <1>10 DEF ReadStart, ReadIssue
    <2> QED
      BY <1>1, <1>5, <1>6, <2>1 DEF AimInv, InLine
  <1>11. CASE ReadIssue(stall) /\ ~stall
    <2>1. /\ avmState = "READ_ISSUE" /\ avmState' = "READ_DATA" /\ memAddr' = addr
          /\ UNCHANGED <<datacounter, transcounter, linecounter, lineaddr, addr>>
      BY <1>11 DEF ReadIssue
    <2> QED
      BY <1>1, <1>5, <1>6, <2>1 DEF AimInv, InLine
  <1>12. CASE ReadData(stall) /\ stall
    <2>1. /\ avmState = "READ_DATA" /\ avmState' = "READ_DATA"
          /\ UNCHANGED <<datacounter, transcounter, linecounter, lineaddr, addr, memAddr>>
      BY <1>12 DEF ReadData
    <2>2. Done' = Done
      BY <1>3, <1>4, <1>12, <2>1 DEF Begun, readdata_valid
    <2> QED
      BY <1>1, <1>5, <2>1, <2>2 DEF AimInv, InLine
  <1>13. CASE ReadData(stall) /\ ~stall
    <2>1. /\ avmState = "READ_DATA"
          /\ avmState' = IF datacounter = 1 THEN "LINE_LOOP" ELSE avmState
          /\ datacounter' = datacounter - 1 /\ transcounter' = transcounter - 1
          /\ memAddr' = IF datacounter = 1 THEN 0 ELSE memAddr + 1
          /\ UNCHANGED <<linecounter, lineaddr, addr>>
      BY <1>13 DEF ReadData
    <2>2. Done' = Done + 1 /\ WordsBefore' = WordsBefore /\ LineTop' = LineTop
      BY <1>3, <1>5, <1>13, <2>1 DEF Begun, readdata_valid
    <2>3. /\ Done = WordsBefore + TRANSCYCLE - transcounter
          /\ lineaddr = LineTop + LINEWORDNUM
          /\ memAddr = LineTop + TRANSCYCLE - transcounter
          /\ transcounter > datacounter =>
                addr + BURSTUNIT = LineTop + TRANSCYCLE - transcounter + datacounter
      BY <1>1, <2>1 DEF AimInv, InLine
    <2>4. /\ Done' = WordsBefore' + TRANSCYCLE - transcounter'
          /\ lineaddr' = LineTop' + LINEWORDNUM
      BY <1>4, <2>1, <2>2, <2>3
    <2>5. transcounter' > datacounter' =>
                addr' + BURSTUNIT = LineTop' + TRANSCYCLE - transcounter' + datacounter'
      BY <1>4, <2>1, <2>2, <2>3
    <2>6. CASE datacounter = 1
      <3>1. transcounter' > 0 => addr' + BURSTUNIT = LineTop' + TRANSCYCLE - transcounter'
        BY <1>4, <2>1, <2>2, <2>5, <2>6
      <3> QED
        BY <2>1, <2>4, <2>6, <3>1 DEF AimInv, InLine
    <2>7. CASE datacounter # 1
      <3>1. memAddr' = LineTop' + TRANSCYCLE - transcounter'
        BY <1>4, <2>1, <2>2, <2>3, <2>7
      <3> QED
        BY <2>1, <2>4, <2>5, <2>7, <3>1 DEF AimInv, InLine
    <2> QED
      BY <2>6, <2>7
  <1>14. CASE LineLoop
    <2>1. /\ avmState = "LINE_LOOP"
          /\ IF transcounter # 0
             THEN avmState' = "READ_SETUP" /\ UNCHANGED linecounter
             ELSE IF linecounter # 0
             THEN avmState' = "LINE_INIT" /\ linecounter' = linecounter - 1
             ELSE avmState' = "IDLE" /\ UNCHANGED linecounter
          /\ addr' = addr + BURSTUNIT
          /\ UNCHANGED <<transcounter, lineaddr>>
      BY <1>14 DEF LineLoop
    <2>2. /\ Done' = Done
          /\ Done = WordsBefore + TRANSCYCLE - transcounter
          /\ lineaddr = LineTop + LINEWORDNUM
          /\ transcounter > 0 => addr + BURSTUNIT = LineTop + TRANSCYCLE - transcounter
      BY <1>1, <1>6, <2>1 DEF AimInv, InLine
    <2>3. CASE transcounter # 0
      <3>1. transcounter > 0
        BY <1>4, <2>3
      <3> QED
        BY <1>5, <2>1, <2>2, <2>3, <3>1 DEF AimInv, InLine
    <2>4. CASE transcounter = 0 /\ linecounter # 0
      <3>1. WordsBefore' = WordsBefore + TRANSCYCLE /\ LineTop' = LineTop + LINEWORDNUM
        BY <1>1, <1>2, <2>1, <2>4, NextLine
      <3>2. Done' = WordsBefore'
        BY <1>4, <2>2, <2>4, <3>1
      <3> QED
        BY <2>1, <2>2, <2>4, <3>1, <3>2 DEF AimInv, InLine
    <2>5. CASE transcounter = 0 /\ linecounter = 0
      BY <2>1, <2>5 DEF AimInv, InLine
    <2> QED
      BY <2>3, <2>4, <2>5
  <1> QED
    BY <1>7, <1>8, <1>9, <1>10, <1>11, <1>12, <1>13, <1>14 DEF BusClock, ReaderEdge

\* The reader comes to rest with the frame delivered, and not before.
LEMMA RestIsDone ==
  ASSUME PictureInv, Shown, NEW stall \in BOOLEAN, BusClock(stall), Begun, ~Begun'
  PROVE  avmState = "LINE_LOOP" /\ Done' = FRAME /\ Done = FRAME /\ Flushed
  <1>1. IInv /\ AimInv /\ StartInv
    BY DEF PictureInv
  <1>2. LineLoop
    BY DEF BusClock, ReaderEdge, Begun, Idle, LineInit, ReadSetup, ReadStart, ReadIssue,
           ReadData
  <1>3. avmState = "LINE_LOOP" /\ transcounter = 0 /\ linecounter = 0
    BY <1>2 DEF LineLoop, Begun
  <1>4. Done = WordsBefore + TRANSCYCLE - transcounter
    BY <1>1, <1>3 DEF AimInv, InLine
  <1>5. WordsBefore + TRANSCYCLE = FRAME
    BY <1>3, LastLine
  <1>6. Done' = Done /\ Done \in Nat /\ WordsBefore \in Nat
    BY <1>1, <1>3, BusDelivers, PictureTypes DEF readdata_valid
  <1>7. Done = FRAME
    BY <1>3, <1>4, <1>5, <1>6, Sizes
  <1> QED
    BY <1>1, <1>3, <1>6, <1>7 DEF StartInv

LEMMA IdleMoves ==
  ASSUME ~Begun, NEW stall \in BOOLEAN, BusClock(stall)
  PROVE  /\ avmState' \in {"IDLE", "LINE_INIT"} /\ ~readdata_valid(stall)
         /\ Begun' => fsSync[2]
  BY DEF Begun, BusClock, ReaderEdge, Idle, LineInit, ReadSetup, ReadStart, ReadIssue,
         ReadData, LineLoop, framebegin, readdata_valid

LEMMA BusKeepsStart ==
  ASSUME PictureInv, Shown, NEW stall \in BOOLEAN, BusClock(stall)
  PROVE  StartInv'
  <1>1. IInv /\ SyncInv /\ StartInv /\ WaitInv
    BY DEF PictureInv
  <1>2. /\ UNCHANGED <<csrSync, phase, count>> /\ vsync' = vsync
        /\ fsSync' = <<framestart, fsSync[1], fsSync[2]>>
        /\ pixSync' = <<vsync, pixSync[1], pixSync[2]>>
    BY BusDelivers DEF BusClock, ReaderEdge, WriteEdge, ResetSequence, vsync
  <1>3. framestart \in BOOLEAN /\ (framestart => csrSync[3])
    BY <1>1, SyncTypes DEF framestart, IInv, TypeOK
  <1>4. vsync' => \A k \in 1..3 : fsSync'[k] => csrSync'[3] /\ pixSync'[k]
    <2> SUFFICES ASSUME vsync, NEW k \in 1..3, fsSync'[k]
                 PROVE  csrSync[3] /\ pixSync'[k]
      BY <1>2
    <2>1. \A j \in 1..3 : fsSync[j] => csrSync[3] /\ pixSync[j]
      BY <1>1 DEF StartInv
    <2>2. CASE k = 1
      BY <1>2, <1>3, <2>2
    <2>3. CASE k = 2
      BY <1>2, <2>1, <2>3
    <2>4. CASE k = 3
      BY <1>2, <2>1, <2>4
    <2> QED
      BY <2>2, <2>3, <2>4
  <1>5. ~Flushed' => ~Begun'
    <2> SUFFICES ASSUME Begun' PROVE Flushed'
      OBVIOUS
    <2>1. CASE Begun
      BY <1>1, <2>1, BusQueue DEF StartInv
    <2>2. CASE ~Begun
      BY <2>2, IdleMoves, StartIsFirst
    <2> QED
      BY <2>1, <2>2
  <1>6. vsync' /\ ~csrSync'[3] => ~Begun' /\ (Flushed' => fifo' = <<>>)
    <2> SUFFICES ASSUME vsync, ~csrSync[3] PROVE ~Begun' /\ (Flushed' => fifo' = <<>>)
      BY <1>2
    <2>1. ~Begun /\ (Flushed => fifo = <<>>) /\ ~fsSync[2]
      BY <1>1 DEF StartInv
    <2>2. ~Begun' /\ ~readdata_valid(stall)
      BY <2>1, IdleMoves
    <2> QED
      BY <2>1, <2>2, BusQueue
  <1>7. resetcounter' # 0 => avmState' \in {"IDLE", "LINE_INIT"} /\ fifo' = <<>>
    <2> SUFFICES ASSUME resetcounter' # 0
                 PROVE  avmState' \in {"IDLE", "LINE_INIT"} /\ fifo' = <<>>
      OBVIOUS
    <2>1. vsyncRises \/ resetcounter # 0
      BY DEF BusClock, WriteEdge, ResetSequence
    <2>2. CASE vsyncRises
      <3>1. ~Flushed
        BY <1>1, <2>2, SyncTypes
        DEF SyncInv, SyncOrder, vsyncRises, Flushed, Shown, vsync, Phases
      <3>2. ~Begun
        BY <1>1, <3>1 DEF StartInv
      <3>3. fifo' = <<>>
        BY <2>2 DEF BusClock, WriteEdge, QueueWord, nextFiforeset
      <3> QED
        BY <3>2, <3>3, IdleMoves
    <2>3. CASE resetcounter # 0 /\ ~vsyncRises
      <3>1. avmState \in {"IDLE", "LINE_INIT"} /\ fifo = <<>>
        BY <1>1, <2>3 DEF StartInv
      <3>2. Flushed
        BY <1>1, <2>3 DEF SyncInv, Flushed
      <3>3. ~readdata_valid(stall)
        BY <3>1 DEF readdata_valid
      <3>4. fifo' = <<>>
        BY <3>1, <3>2, <3>3, BusQueue
      <3>5. ~fifo_ready
        BY <2>3 DEF fifo_ready
      <3>6. avmState' \in {"IDLE", "LINE_INIT"}
        BY <3>1, <3>5
        DEF BusClock, ReaderEdge, Idle, LineInit, ReadSetup, ReadStart, ReadIssue,
            ReadData, LineLoop
      <3> QED
        BY <3>4, <3>6
    <2> QED
      BY <2>1, <2>2, <2>3
  <1> QED
    BY <1>4, <1>5, <1>6, <1>7 DEF StartInv

LEMMA BusKeepsWait ==
  ASSUME FIFODEPTH < FRAME, PictureInv, Shown, NEW stall \in BOOLEAN, BusClock(stall)
  PROVE  WaitInv'
  <1>1. IInv /\ WaitInv /\ StartInv
    BY DEF PictureInv
  <1>2. UNCHANGED <<phase, count>>
    BY BusDelivers
  <1> SUFFICES ASSUME phase # "active", Flushed', ~Begun' PROVE fifo' = <<>>
    BY <1>2 DEF WaitInv
  <1>3. CASE ~Begun
    <2>1. ~readdata_valid(stall)
      BY <1>3, IdleMoves
    <2> QED
      BY <1>1, <1>3, <2>1, BusQueue DEF WaitInv
  <1>4. CASE Begun
    <2>1. Done = FRAME
      BY <1>4, RestIsDone
    <2>2. count = 0
      BY <1>1, SyncTypes DEF IInv, FrameInv, Shown, Phases
    <2>3. Len(fifo) <= FIFODEPTH
      BY <1>1, PictureTypes, Sizes DEF IInv, TypeOK, PixelTypeOK, used
    <2> QED
      BY <1>1, <2>1, <2>2, <2>3, PictureTypes, FrameIsNat, Sizes DEF Done
  <1> QED
    BY <1>3, <1>4

LEMMA BusKeepsOnce ==
  ASSUME PictureInv, Shown, NEW stall \in BOOLEAN, BusClock(stall)
  PROVE  OnceInv'
  <1>1. IInv /\ SyncInv /\ OnceInv
    BY DEF PictureInv
  <1>2. UNCHANGED <<phase, count>> /\ fsSync' = <<framestart, fsSync[1], fsSync[2]>>
    BY BusDelivers DEF BusClock, ReaderEdge
  <1> SUFFICES ASSUME phase = "active" PROVE OnceInv'
    BY <1>2 DEF OnceInv
  <1>3. ~fsSync'[1] /\ (fsSync'[2] <=> fsSync[1])
    <2>1. ~framestart
      BY <1>1 DEF SyncInv, SyncOrder, framestart
    <2> QED
      BY <1>1, <1>2, <2>1, SyncTypes
  <1>4. Flushed
    BY DEF Flushed, vsync
  <1>5. ASSUME fsSync[1] PROVE IF Begun' THEN Done' < FRAME ELSE Done' = 0
    <2>1. CASE ~Begun
      <3>1. Done = 0 /\ ~readdata_valid(stall)
        BY <1>1, <1>5, <2>1, IdleMoves DEF OnceInv
      <3>2. fifo' = fifo
        BY <1>4, <3>1, BusQueue
      <3>3. Done' = 0
        BY <1>2, <3>1, <3>2 DEF Done
      <3> QED
        BY <3>3, FrameIsNat
    <2>2. CASE Begun
      <3>1. Done < FRAME
        BY <1>1, <1>5, <2>2 DEF OnceInv
      <3>2. Begun'
        BY <1>1, <2>2, <3>1, RestIsDone, FrameIsNat
      <3>3. CASE readdata_valid(stall)
        <4>1. avmState = "READ_DATA" /\ Done' = Done + 1
          BY <2>2, <3>3, BusDelivers DEF readdata_valid
        <4>2. Done + datacounter < FRAME /\ datacounter > 0
          BY <1>1, <1>5, <4>1 DEF OnceInv, IInv, BurstInv
        <4> QED
          BY <1>1, <3>2, <4>1, <4>2, PictureTypes, FrameIsNat
      <3>4. CASE ~readdata_valid(stall)
        BY <1>1, <2>2, <3>1, <3>2, <3>4, BusDelivers, PictureTypes
      <3> QED
        BY <3>3, <3>4
    <2> QED
      BY <2>1, <2>2
  <1> QED
    BY <1>3, <1>5 DEF OnceInv, FRAME

LEMMA BusKeepsPicture ==
  ASSUME FIFODEPTH < FRAME, PictureInv, NEW stall \in BOOLEAN, BusClock(stall)
  PROVE  PictureInv'
  <1>1. IInv'
    BY StepKeeps DEF PictureInv, Next
  <1>2. SyncInv'
    BY BusKeepsSync DEF PictureInv
  <1>3. Shown' => Shown
    BY DEF Shown, BusClock, videoVars
  <1>4. ASSUME Shown PROVE (StartInv /\ WordsInv /\ AimInv /\ OnceInv /\ WaitInv)'
    BY <1>4, BusKeepsStart, BusKeepsWords, BusKeepsAim, BusKeepsOnce, BusKeepsWait
  <1> QED
    BY <1>1, <1>2, <1>3, <1>4 DEF PictureInv

\* The buffer address is only taken before the frame has begun.
LEMMA CsrKeepsPicture ==
  ASSUME PictureInv, CsrClock
  PROVE  PictureInv'
  <1>1. IInv /\ SyncInv /\ IInv' /\ SyncInv'
    BY CsrKeeps, CsrKeepsSync DEF PictureInv
  <1>2. /\ csrSync' = <<vsync, csrSync[1], csrSync[2]>>
        /\ Rises(csrSync) \/ UNCHANGED topOut
        /\ UNCHANGED <<fsSync, avmState, datacounter, transcounter, linecounter, lineaddr,
                       addr, memAddr, pixSync, fiforeset, resetcounter, fifo, unseen,
                       phase, count, clean>>
    BY DEF CsrClock, CsrEdge, ShiftIn, readerVars, pixelVars, videoVars
  <1> SUFFICES ASSUME Shown PROVE (StartInv /\ WordsInv /\ AimInv /\ OnceInv /\ WaitInv)'
    BY <1>1, <1>2 DEF PictureInv, Shown
  <1>3. StartInv /\ WordsInv /\ AimInv /\ OnceInv /\ WaitInv
    BY DEF PictureInv
  <1>4. vsync' = vsync /\ Flushed' = Flushed /\ Begun' = Begun /\ csrSync'[3] = csrSync[2]
    BY <1>2 DEF vsync, Flushed, Begun
  <1>5. vsync /\ csrSync[3] => csrSync'[3]
    BY <1>1, <1>4 DEF SyncInv, SyncOrder
  <1>6. StartInv'
    <2>1. vsync' => \A k \in 1..3 : fsSync'[k] => csrSync'[3] /\ pixSync'[k]
      BY <1>2, <1>3, <1>4, <1>5 DEF StartInv
    <2>2. ~Flushed' => ~Begun'
      BY <1>3, <1>4 DEF StartInv
    <2>3. vsync' /\ ~csrSync'[3] => ~Begun' /\ (Flushed' => fifo' = <<>>)
      BY <1>2, <1>3, <1>4, <1>5 DEF StartInv
    <2>4. resetcounter' # 0 => avmState' \in {"IDLE", "LINE_INIT"} /\ fifo' = <<>>
      BY <1>2, <1>3 DEF StartInv
    <2> QED
      BY <2>1, <2>2, <2>3, <2>4 DEF StartInv
  <1>7. OnceInv' /\ WaitInv'
    BY <1>2, <1>3, <1>4 DEF OnceInv, WaitInv, Done, FRAME
  <1>8. CASE UNCHANGED topOut
    <2>1. WordsInv'
      BY <1>2, <1>3, <1>4, <1>8 DEF WordsInv, Place
    <2>2. AimInv'
      BY <1>2, <1>3, <1>8, SameLine DEF AimInv, InLine, Done
    <2> QED
      BY <1>6, <1>7, <2>1, <2>2
  <1>9. CASE Rises(csrSync)
    <2>1. vsync /\ ~csrSync[3]
      BY <1>1, <1>9, SyncTypes DEF SyncInv, SyncOrder, Rises, Shown, vsync, Phases
    <2>2. ~Begun /\ (Flushed => fifo = <<>>)
      BY <1>3, <2>1 DEF StartInv
    <2>3. WordsInv'
      BY <1>2, <1>4, <2>2 DEF WordsInv
    <2>4. AimInv'
      BY <1>2, <2>2 DEF AimInv, InLine, Begun
    <2> QED
      BY <1>6, <1>7, <2>3, <2>4
  <1> QED
    BY <1>2, <1>8, <1>9

LEMMA CatchKeepsPicture ==
  ASSUME PictureInv, Catch
  PROVE  PictureInv'
  <1>1. IInv' /\ SyncInv
    BY CatchKeeps DEF PictureInv
  <1>2. UNCHANGED <<csrSync, topOut, fsSync, avmState, datacounter, transcounter,
                    linecounter, lineaddr, addr, memAddr, pixSync, fiforeset,
                    resetcounter, fifo, phase, count, clean>>
    BY DEF Catch, Synchronize, csrVars, readerVars, videoVars
  <1>3. SyncInv'
    BY <1>1, <1>2 DEF SyncInv, SyncOrder, vsync
  <1>4. ASSUME Shown PROVE (StartInv /\ WordsInv /\ AimInv /\ OnceInv /\ WaitInv)'
    <2>1. StartInv /\ WordsInv /\ AimInv /\ OnceInv /\ WaitInv
      BY <1>4 DEF PictureInv
    <2>2. StartInv' /\ WordsInv'
      BY <1>2, <2>1 DEF StartInv, WordsInv, Flushed, Begun, vsync, Place
    <2>3. AimInv'
      BY <1>2, <2>1, SameLine DEF AimInv, InLine, Done
    <2>4. OnceInv' /\ WaitInv'
      BY <1>2, <2>1 DEF OnceInv, WaitInv, Flushed, Begun, vsync, Done, FRAME
    <2> QED
      BY <2>2, <2>3, <2>4
  <1> QED
    BY <1>1, <1>2, <1>3, <1>4 DEF PictureInv, Shown

\* A frame begins clean with the reader at rest.
LEMMA VsyncBegins ==
  ASSUME PictureInv, VsyncRises, UNCHANGED <<csrVars, readerVars>>, Shown'
  PROVE  (StartInv /\ WordsInv /\ AimInv /\ OnceInv /\ WaitInv)'
  <1>1. /\ phase = "front" /\ VsyncSeen /\ phase' = "rise" /\ ReaderAtRest
        /\ UNCHANGED <<csrSync, fsSync, avmState, pixSync, resetcounter>>
    BY DEF VsyncRises, Shown, csrVars, readerVars, pixelVars
  <1>2. ~pixSync[3] /\ resetcounter = 0
    BY <1>1 DEF VsyncSeen, fifo_ready, vsync
  <1>3. avmState = "IDLE" /\ \A k \in 1..3 : ~fsSync[k]
    BY <1>1 DEF ReaderAtRest, Nothing
  <1>4. ~Begun' /\ ~Flushed'
    BY <1>1, <1>2, <1>3 DEF Begun, Flushed, vsync
  <1>5. StartInv'
    BY <1>1, <1>2, <1>3, <1>4 DEF StartInv
  <1>6. WordsInv' /\ WaitInv'
    BY <1>4 DEF WordsInv, WaitInv
  <1>7. AimInv'
    BY <1>1, <1>3 DEF AimInv, InLine
  <1>8. OnceInv'
    BY <1>1 DEF OnceInv
  <1> QED
    BY <1>5, <1>6, <1>7, <1>8

\* The other phases leave the FIFO and the reader alone.
LEMMA PhaseKeepsPicture ==
  ASSUME FIFODEPTH < FRAME, PictureInv, LatchScan \/ SyncEnds \/ BackPorch,
         UNCHANGED <<csrVars, readerVars>>, Shown'
  PROVE  (StartInv /\ WordsInv /\ AimInv /\ OnceInv /\ WaitInv)'
  <1>1. /\ UNCHANGED <<csrSync, topOut, fsSync, avmState, datacounter, transcounter,
                       linecounter, lineaddr, addr, memAddr, pixSync, resetcounter,
                       fifo, count, clean>>
        /\ phase \in {"rise", "sync", "back"}
        /\ ~vsync => ~vsync'
    BY DEF LatchScan, SyncEnds, BackPorch, csrVars, readerVars, pixelVars, vsync
  <1>2. Shown /\ IInv /\ StartInv /\ WordsInv /\ AimInv /\ OnceInv /\ WaitInv
    BY <1>1 DEF PictureInv, Shown
  <1>3. vsync /\ ~vsync' => pixSync[3]
    <2>1. CASE LatchScan
      BY <2>1 DEF LatchScan, vsync
    <2>2. CASE SyncEnds
      <3>1. vsync /\ pixSync = <<vsync, vsync, vsync>>
        BY <2>2 DEF SyncEnds, VsyncSeen, vsync
      <3> QED
        BY <3>1
    <2>3. CASE BackPorch
      BY <2>3 DEF BackPorch, vsync
    <2> QED
      BY <2>1, <2>2, <2>3
  <1>4. Flushed' = Flushed /\ Begun' = Begun
    BY <1>1, <1>3, SyncTypes DEF Flushed, Begun
  <1>5. StartInv'
    BY <1>1, <1>2, <1>4 DEF StartInv
  <1>6. WordsInv'
    BY <1>1, <1>2, <1>4 DEF WordsInv, Place
  <1>7. AimInv'
    BY <1>1, <1>2, SameLine DEF AimInv, InLine, Done
  <1>8. WaitInv'
    BY <1>1, <1>2, <1>4 DEF WaitInv
  <1>9. OnceInv'
    <2> SUFFICES ASSUME phase' = "active" PROVE OnceInv'
      BY DEF OnceInv
    <2>1. phase = "back"
      BY DEF LatchScan, SyncEnds, BackPorch
    <2>2. count = 0
      BY <1>2, <2>1 DEF IInv, FrameInv
    <2>3. Len(fifo) <= FIFODEPTH /\ Len(fifo) \in Nat
      BY <1>2, PictureTypes, Sizes DEF IInv, TypeOK, PixelTypeOK, used
    <2>4. Done < FRAME
      BY <2>2, <2>3, FrameIsNat, Sizes DEF Done
    <2>5. ~Begun => Done = 0
      BY <1>2, <2>1, <2>2 DEF WaitInv, Flushed, vsync, Done
    <2>6. avmState \in {"READ_ISSUE", "READ_DATA"} => Done + datacounter < FRAME
      <3>1. avmState \in {"READ_ISSUE", "READ_DATA"} => used + datacounter <= FIFODEPTH
        BY <1>2 DEF IInv, RoomForBurst
      <3>2. unseen \in Nat /\ datacounter \in Nat
        BY <1>2, PictureTypes DEF IInv, TypeOK, PixelTypeOK
      <3> QED
        BY <2>2, <2>3, <3>1, <3>2, FrameIsNat, Sizes DEF Done, used
    <2> QED
      BY <1>1, <1>4, <2>4, <2>5, <2>6 DEF OnceInv, Done, FRAME
  <1> QED
    BY <1>5, <1>6, <1>7, <1>8, <1>9

\* A word taken is a word shown: what is left keeps its place.
LEMMA RequestKeepsPicture ==
  ASSUME PictureInv, Request, UNCHANGED <<csrVars, readerVars>>, Shown'
  PROVE  (StartInv /\ WordsInv /\ AimInv /\ OnceInv /\ WaitInv)'
  <1>1. /\ TakeWord /\ clean' = clean /\ phase = "active" /\ phase' = "active"
        /\ count' = count + 1
    BY DEF Request, Shown
  <1>2. UNCHANGED <<csrSync, topOut, fsSync, avmState, datacounter, transcounter,
                    linecounter, lineaddr, addr, memAddr, pixSync, resetcounter>>
    BY DEF Request, csrVars, readerVars
  <1>3. Shown /\ IInv /\ SyncInv /\ StartInv /\ WordsInv /\ AimInv /\ OnceInv /\ WaitInv
    BY <1>1 DEF PictureInv, Shown
  <1>4. /\ fifo \in Seq(Nat) /\ fifo # <<>> /\ fifo' = Tail(fifo)
        /\ Len(fifo) \in Nat /\ Len(fifo) > 0 /\ Len(fifo') = Len(fifo) - 1
        /\ \A i \in 1..(Len(fifo) - 1) : fifo'[i] = fifo[i + 1]
    BY <1>1, <1>3, PictureTypes, HeadTailProperties, EmptySeq, TailWord DEF TakeWord
  <1>5. count \in Nat /\ Done' = Done
    BY <1>1, <1>3, <1>4, PictureTypes DEF Done
  <1>6. ~vsync /\ ~vsync' /\ Flushed /\ Flushed' /\ Begun' = Begun
    BY <1>1, <1>2 DEF vsync, Flushed, Begun
  <1>7. resetcounter = 0
    BY <1>3, <1>6 DEF SyncInv
  <1>8. StartInv'
    BY <1>2, <1>6, <1>7 DEF StartInv
  <1>9. WordsInv'
    <2> SUFFICES ASSUME NEW i \in 1..Len(fifo') PROVE fifo'[i] = Place(count' + i - 1)
      BY <1>2 DEF WordsInv, Place
    <2>1. i \in 1..(Len(fifo) - 1) /\ i + 1 \in 1..Len(fifo)
      BY <1>4
    <2>2. fifo'[i] = fifo[i + 1] /\ fifo[i + 1] = Place(count + (i + 1) - 1)
      BY <1>3, <1>4, <1>6, <2>1 DEF WordsInv
    <2>3. count + (i + 1) - 1 = count' + i - 1
      BY <1>1, <1>5
    <2> QED
      BY <2>2, <2>3
  <1>10. AimInv'
    BY <1>2, <1>3, <1>5, SameLine DEF AimInv, InLine
  <1>11. OnceInv'
    BY <1>1, <1>2, <1>3, <1>5, <1>6 DEF OnceInv, FRAME
  <1>12. WaitInv'
    BY <1>1 DEF WaitInv
  <1> QED
    BY <1>8, <1>9, <1>10, <1>11, <1>12

LEMMA VideoKeepsPicture ==
  ASSUME FIFODEPTH < FRAME, PictureInv, Video
  PROVE  PictureInv'
  <1>1. IInv' /\ SyncInv'
    BY VideoKeeps, VideoKeepsSync DEF PictureInv
  <1>2. ASSUME Shown' PROVE (StartInv /\ WordsInv /\ AimInv /\ OnceInv /\ WaitInv)'
    BY <1>2, VsyncBegins, PhaseKeepsPicture, RequestKeepsPicture DEF Video
  <1> QED
    BY <1>1, <1>2 DEF PictureInv

LEMMA StutterKeepsPicture ==
  ASSUME PictureInv, UNCHANGED vars
  PROVE  PictureInv'
  <1>1. IInv'
    BY StepKeeps DEF PictureInv
  <1>2. UNCHANGED <<csrSync, topOut, scanReg, fsSync, avmState, datacounter, transcounter,
                    linecounter, lineaddr, addr, memAddr, pixSync, fiforeset,
                    resetcounter, fifo, unseen, phase, count, clean>>
    BY DEF vars, csrVars, readerVars, pixelVars, videoVars
  <1>3. SyncInv'
    BY <1>2 DEF PictureInv, SyncInv, SyncOrder, vsync
  <1>4. ASSUME Shown PROVE (StartInv /\ WordsInv /\ AimInv /\ OnceInv /\ WaitInv)'
    <2>1. StartInv /\ WordsInv /\ AimInv /\ OnceInv /\ WaitInv
      BY <1>4 DEF PictureInv
    <2>2. StartInv' /\ WordsInv'
      BY <1>2, <2>1 DEF StartInv, WordsInv, Flushed, Begun, vsync, Place
    <2>3. AimInv'
      BY <1>2, <2>1, SameLine DEF AimInv, InLine, Done
    <2>4. OnceInv' /\ WaitInv'
      BY <1>2, <2>1 DEF OnceInv, WaitInv, Flushed, Begun, vsync, Done, FRAME
    <2> QED
      BY <2>2, <2>3, <2>4
  <1> QED
    BY <1>1, <1>2, <1>3, <1>4 DEF PictureInv, Shown

LEMMA InitPicture == Init => PictureInv
  <1> SUFFICES ASSUME Init PROVE PictureInv
    OBVIOUS
  <1>1. /\ csrSync = Nothing /\ pixSync = Nothing /\ phase = "front" /\ clean = FALSE
        /\ fiforeset = FALSE /\ resetcounter = 0
    BY DEF Init, CsrInit, PixelInit, Nothing
  <1>2. SyncInv
    BY <1>1 DEF SyncInv, SyncOrder, Nothing, vsync
  <1> QED
    BY <1>1, <1>2, InitHolds DEF PictureInv, Shown

(* The picture is in its place, for every size of picture, line, burst and   *)
(* FIFO and every relation of the three clocks, as long as the FIFO is       *)
(* smaller than a frame.  A FIFO that holds a frame lets the reader come to  *)
(* rest before the picture begins, and software that turns the scan off and  *)
(* on while the sync lasts then starts it a second time.  peridot_vga is     *)
(* built with a FIFO of one to three lines, rounded up to a power of two.    *)
THEOREM PictureIsInPlace ==
  ASSUME FIFODEPTH < FRAME
  PROVE  Spec => []PictureInPlace
  <1>1. PictureInv /\ [Next]_vars => PictureInv'
    <2> SUFFICES ASSUME PictureInv, [Next]_vars PROVE PictureInv'
      OBVIOUS
    <2>1. ASSUME NEW stall \in BOOLEAN, BusClock(stall) PROVE PictureInv'
      BY <2>1, BusKeepsPicture
    <2> QED
      BY <2>1, CsrKeepsPicture, CatchKeepsPicture, VideoKeepsPicture, StutterKeepsPicture
      DEF Next
  <1>2. PictureInv => PictureInPlace
    BY DEF PictureInv, PictureInPlace, WordsInv, Shown, Flushed, vsync
  <1> QED
    BY InitPicture, <1>1, <1>2, PTL DEF Spec

=============================================================================
