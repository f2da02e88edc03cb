------------------------------ MODULE LinkProofs -------------------------------
(* No data island ever overlaps a line of video, for every video generator   *)
(* whose lines last at least 63 clocks: TypeOK and NoOverlap are invariants  *)
(* of IslandTiming!Spec; so is PixelAligned, for any generator.              *)
(*                                                                           *)
(* NoOverlap alone is not inductive: allowPacket looks only at the two ends  *)
(* of active_reg.  Three facts make it so.  RunSeen ties the generator's run *)
(* to the samples it left in the register.  NoInnerRun says that a line of   *)
(* video never lies strictly inside the register, so that two blank ends     *)
(* mean 64 blank samples.  WindowHeld says that from the start of an island  *)
(* on, the blank samples seen then are still the oldest of the register.     *)
(*                                                                           *)
(* The last section is about the serializer: its lanes carry whole words.    *)
EXTENDS IslandTiming, Serializer, TLAPS

RunSeen ==
    \A i \in 0..LEFT : LEFT - i < run => activeReg[i] = activeReg[LEFT]

NoInnerRun ==
    \A a, b, c \in 0..LEFT :
        a < b /\ b < c /\ ~activeReg[a] /\ ~activeReg[c] => ~activeReg[b]

\* Clocks since the island started, meaningful from START_COUNT on.
Age == IF counter >= START_COUNT THEN counter - START_COUNT
                                 ELSE counter + 64 - START_COUNT

\* From the preamble to the end of the gap behind the island.
InFlight == counter \in 22..63 \/ counter \in 0..5

WindowHeld ==
    InFlight => \A i \in 0..LEFT : i <= LEFT - 1 - Age => ~activeReg[i]

\* Stage i of the pixel delay and sample LEFT - i of active are one age.
SameAge ==
    \A i \in 0..DELAY_DISTANCE - 1 : activeReg[LEFT - i] => delayLine[i]

TimingInv == TypeOK /\ RunSeen /\ NoInnerRun /\ WindowHeld /\ SameAge

\* Between two lines, as far as the register sees them, lie 14 blank samples.
NoInnerGap ==
    \A a, b, c \in 0..LEFT :
        a < b /\ b < c /\ activeReg[a] /\ ~activeReg[b] /\ activeReg[c]
            => c - a > 14

\* The symbol on the link, told from the counter first.
Shown ==
    IF counter \in 22..29 THEN "dataPreamble"
    ELSE IF counter \in 30..31 \/ counter \in 0..1 THEN "dataGuard"
    ELSE IF counter \in 32..63 THEN "data"
    ELSE IF activeReg[4] THEN "video"
    ELSE IF activeReg[6] THEN "videoGuard"
    ELSE IF activeReg[14] THEN "videoPreamble"
    ELSE "control"

(* How long a group of the island has lasted can be read off the counter;    *)
(* how long one of the video side, off the place where the line begins; and  *)
(* a control period of less than four clocks is the one behind a line that   *)
(* has just left tap 4, or behind an island that has just ended.             *)
WidthSeen ==
    /\ counter \in 22..29 => dwell = counter - 21
    /\ counter \in 30..31 => dwell = counter - 29
    /\ counter \in 32..63 => dwell = counter - 31
    /\ counter \in 0..1   => dwell = counter + 1
    /\ Shown = "videoPreamble" =>
           dwell \in 1..8 /\ ~activeReg[14 - dwell] /\ activeReg[15 - dwell]
    /\ Shown = "videoGuard" =>
           dwell \in 1..2 /\ ~activeReg[6 - dwell] /\ activeReg[7 - dwell]
    /\ Shown = "control" =>
           \/ dwell >= 4
           \/ dwell \in 1..3 /\ activeReg[4 - dwell]
           \/ counter = dwell + 1

LinkInv == NoInnerGap /\ WidthSeen


-----------------------------------------------------------------------------
LEMMA LeftIs63 == LEFT = 63
BY DEF LEFT, DELAY_DISTANCE, PACKETAREA_WIDTH, PREAMBLE_WIDTH,
       GUARDBAND_WIDTH, DATA_WIDTH, ISLANDGAP_WIDTH

LEMMA DelayIs60 == DELAY_DISTANCE = 60
BY DEF DELAY_DISTANCE, PACKETAREA_WIDTH, PREAMBLE_WIDTH,
       GUARDBAND_WIDTH, DATA_WIDTH, ISLANDGAP_WIDTH

LEMMA RunCapBounds ==
    RunCap \in Nat /\ RunCap >= 63 /\ RunCap >= MinActive /\ RunCap >= MinBlank
BY RunAssumption DEF RunCap

LEMMA DwellCapIs33 == DwellCap = 33
BY DEF DwellCap, DATA_WIDTH

(* Saturate keeps a counter in its range and never overtakes it.             *)
LEMMA SaturateBounds ==
    ASSUME NEW n \in Nat, NEW cap \in Nat, n >= 1, n <= cap
    PROVE  /\ Saturate(n, cap) \in 1..cap
           /\ Saturate(n, cap) <= n + 1
BY DEF Saturate

(* Two blank ends mean a blank register.                                     *)
LEMMA WindowIsBlank ==
    ASSUME TypeOK, NoInnerRun, allowPacket
    PROVE  \A i \in 0..LEFT : ~activeReg[i]
<1>1. 0 \in 0..LEFT /\ LEFT \in 0..LEFT
  BY LeftIs63
<1>2. ASSUME NEW i \in 0..LEFT, i # 0, i # LEFT
      PROVE  ~activeReg[i]
  <2>1. 0 < i /\ i < LEFT
    BY <1>2, LeftIs63
  <2> QED
    BY <1>1, <2>1 DEF NoInnerRun, allowPacket
<1> QED
  BY <1>2 DEF allowPacket

(* The step of the register: RunSeen and NoInnerRun survive any sample the   *)
(* generator may emit.                                                       *)
LEMMA ShiftKeepsRuns ==
    ASSUME TypeOK, RunSeen, NoInnerRun,
           NEW active \in BOOLEAN,
           GeneratorMayEmit(active), ShiftActive(active)
    PROVE  /\ activeReg' \in [0..LEFT -> BOOLEAN]
           /\ run' \in 1..RunCap
           /\ RunSeen'
           /\ NoInnerRun'
<1> USE LeftIs63
<1>1. /\ activeReg'[LEFT] = active
      /\ \A i \in 0..62 : activeReg'[i] = activeReg[i + 1]
  BY DEF ShiftActive
<1>2. activeReg' \in [0..LEFT -> BOOLEAN]
  BY DEF ShiftActive, TypeOK
<1>3. run' \in 1..RunCap /\ run' <= run + 1
  <2>1. run \in Nat /\ RunCap \in Nat /\ run >= 1 /\ run <= RunCap
    BY RunCapBounds DEF TypeOK
  <2>2. /\ Saturate(run, RunCap) \in 1..RunCap
        /\ Saturate(run, RunCap) <= run + 1
    BY <2>1, SaturateBounds
  <2>3. run' = Saturate(run, RunCap) \/ run' = 1
    BY DEF ShiftActive
  <2> QED
    BY <2>1, <2>2, <2>3
<1>4. RunSeen'
  <2>1. CASE active = activeReg[LEFT]
    <3> SUFFICES ASSUME NEW i \in 0..63, 63 - i < run', i # 63
                 PROVE  activeReg'[i] = active
      BY <1>1 DEF RunSeen
    <3>1. i \in 0..62 /\ i + 1 \in 0..63 /\ 63 - (i + 1) < run
      <4>1. run \in 1..RunCap
        BY DEF TypeOK
      <4> QED
        BY <1>3, <4>1, RunCapBounds
    <3> QED
      BY <1>1, <2>1, <3>1 DEF RunSeen
  <2>2. CASE active # activeReg[LEFT]
    <3>1. run' = 1
      BY <2>2 DEF ShiftActive
    <3> QED
      BY <1>1, <3>1 DEF RunSeen
  <2> QED
    BY <2>1, <2>2
<1>5. NoInnerRun'
  <2> SUFFICES ASSUME NEW a \in 0..LEFT, NEW b \in 0..LEFT, NEW c \in 0..LEFT,
                      a < b, b < c, ~activeReg'[a], ~activeReg'[c]
               PROVE  ~activeReg'[b]
    BY DEF NoInnerRun
  <2>1. /\ a + 1 \in 0..LEFT /\ b + 1 \in 0..LEFT /\ a + 1 < b + 1
        /\ a \in 0..62 /\ b \in 0..62
    OBVIOUS
  <2>2. /\ activeReg'[a] = activeReg[a + 1]
        /\ activeReg'[b] = activeReg[b + 1]
    BY <1>1, <2>1
  <2>3. CASE c # LEFT
    <3>1. c + 1 \in 0..LEFT /\ b + 1 < c + 1 /\ c \in 0..62
      BY <2>3
    <3>2. activeReg'[c] = activeReg[c + 1]
      BY <1>1, <3>1
    <3> QED
      BY <2>1, <2>2, <3>1, <3>2 DEF NoInnerRun
  <2>4. CASE c = LEFT /\ ~activeReg[LEFT]
    <3>1. CASE b = 62
      BY <2>2, <2>4, <3>1
    <3>2. CASE b # 62
      <4>1. b + 1 < LEFT /\ LEFT \in 0..LEFT
        BY <2>1, <3>2
      <4> QED
        BY <2>1, <2>2, <2>4, <4>1 DEF NoInnerRun
    <3> QED
      BY <3>1, <3>2
  <2>5. CASE c = LEFT /\ activeReg[LEFT]
    \* The line ends: it lasted 63 clocks, so no blank sample is left before it
    \* within reach.
    <3>1. ~active
      BY <1>1, <2>5
    <3>2. active # activeReg[LEFT]
      BY <2>5, <3>1
    <3>3. run >= MinActive
      BY <2>5, <3>2 DEF GeneratorMayEmit
    <3>4. run \in Nat
      BY RunCapBounds DEF TypeOK
    <3>5. LEFT - (a + 1) < run
      BY <2>1, <3>3, <3>4, RunAssumption
    <3>6. activeReg[a + 1] = activeReg[LEFT]
      BY <2>1, <3>5 DEF RunSeen
    <3> QED
      BY <2>2, <2>5, <3>6
  <2> QED
    BY <2>3, <2>4, <2>5
<1> QED
  BY <1>2, <1>3, <1>4, <1>5

(* The step of the sequencer keeps the blank samples an island relies on.    *)
LEMMA WindowStaysHeld ==
    ASSUME TypeOK, NoInnerRun, WindowHeld,
           NEW active \in BOOLEAN, NEW lastByte \in BOOLEAN,
           ShiftActive(active), SequencerEdge(lastByte, allowPacket)
    PROVE  counter' \in Count /\ WindowHeld'
<1> USE LeftIs63 DEF START_COUNT, READY_COUNT, STOP_COUNT, Count, InFlight, Age
<1>1. \A i \in 0..62 : activeReg'[i] = activeReg[i + 1]
  BY DEF ShiftActive
<1>2. CASE AcceptPacket(lastByte)
  BY <1>2 DEF AcceptPacket, WindowHeld
<1>3. CASE StartIsland(allowPacket)
  BY <1>1, <1>3, WindowIsBlank DEF StartIsland, WindowHeld
<1>4. CASE RunIsland
  <2>1. counter' \in Count
    BY <1>4 DEF RunIsland, Increment, TypeOK
  <2>2. ASSUME InFlight' PROVE InFlight /\ Age' = Age + 1 /\ Age \in 0..46
    <3>1. counter \in 0..63
      BY DEF TypeOK
    <3> QED
      BY <1>4, <2>2, <3>1 DEF RunIsland, Increment
  <2>3. ASSUME InFlight', NEW i \in 0..LEFT, i <= LEFT - 1 - Age'
        PROVE  ~activeReg'[i]
    <3>1. i \in 0..62 /\ i + 1 \in 0..LEFT /\ i + 1 <= LEFT - 1 - Age
      BY <2>2, <2>3
    <3>2. ~activeReg[i + 1]
      BY <2>2, <2>3, <3>1 DEF WindowHeld
    <3> QED
      BY <1>1, <3>1, <3>2
  <2> QED
    BY <2>1, <2>3 DEF WindowHeld
<1>5. CASE HoldSequencer(lastByte, allowPacket)
  <2>1. counter \in {6, 21} /\ counter' = counter
    BY <1>5 DEF HoldSequencer, inReady
  <2> QED
    BY <2>1 DEF WindowHeld
<1> QED
  BY <1>2, <1>3, <1>4, <1>5 DEF SequencerEdge

(* The pixel delay and the register take one sample each.                    *)
LEMMA ShiftKeepsAge ==
    ASSUME TypeOK, SameAge, NEW active \in BOOLEAN,
           ShiftActive(active), ShiftPixels(active)
    PROVE  delayLine' \in [0..DELAY_DISTANCE - 1 -> BOOLEAN] /\ SameAge'
<1> USE LeftIs63, DelayIs60
<1>1. delayLine' \in [0..DELAY_DISTANCE - 1 -> BOOLEAN]
  BY DEF ShiftPixels, TypeOK
<1>2. ASSUME NEW i \in 0..59, activeReg'[63 - i]
      PROVE  delayLine'[i]
  <2>1. CASE i = 0
    BY <1>2, <2>1 DEF ShiftActive, ShiftPixels
  <2>2. CASE i # 0
    <3>1. /\ i - 1 \in 0..59 /\ 63 - i \in 0..63 /\ 63 - i # 63
          /\ 63 - i + 1 = 63 - (i - 1)
      BY <2>2
    <3>2. activeReg[63 - (i - 1)]
      BY <1>2, <3>1 DEF ShiftActive
    <3>3. delayLine[i - 1]
      BY <3>1, <3>2 DEF SameAge
    <3> QED
      BY <2>2, <3>3 DEF ShiftPixels
  <2> QED
    BY <2>1, <2>2
<1> QED
  BY <1>1, <1>2 DEF SameAge

LEMMA InitTimingInv == Init => TimingInv
<1> SUFFICES ASSUME Init PROVE TimingInv
  OBVIOUS
<1> USE LeftIs63, DelayIs60 DEF Init, SequencerInit
<1>1. TypeOK
  BY RunCapBounds, DwellCapIs33 DEF TypeOK, STOP_COUNT, Count
<1>2. \A i \in 0..LEFT : ~activeReg[i]
  OBVIOUS
<1>3. LEFT \in 0..LEFT
  OBVIOUS
<1>4. RunSeen
  BY <1>2, <1>3 DEF RunSeen
<1>5. NoInnerRun /\ WindowHeld
  BY <1>2 DEF NoInnerRun, WindowHeld
<1>6. SameAge
  <2>1. \A i \in 0..59 : 63 - i \in 0..63
    OBVIOUS
  <2> QED
    BY <1>2, <2>1 DEF SameAge
<1> QED
  BY <1>1, <1>4, <1>5, <1>6 DEF TimingInv

LEMMA ClockKeepsTimingInv ==
    ASSUME TimingInv, NEW active \in BOOLEAN, NEW lastByte \in BOOLEAN,
           Clock(active, lastByte)
    PROVE  TimingInv'
<1>1. RunSeen' /\ NoInnerRun' /\ activeReg' \in [0..LEFT -> BOOLEAN]
      /\ run' \in 1..RunCap
  BY ShiftKeepsRuns DEF TimingInv, Clock
<1>2. counter' \in Count /\ WindowHeld'
  BY WindowStaysHeld DEF TimingInv, Clock
<1>3. dwell' \in 1..DwellCap
  <2>1. dwell \in Nat /\ DwellCap \in Nat /\ dwell >= 1 /\ dwell <= DwellCap
    BY DwellCapIs33 DEF TimingInv, TypeOK
  <2>2. Saturate(dwell, DwellCap) \in 1..DwellCap
    BY <2>1, SaturateBounds
  <2>3. dwell' = Saturate(dwell, DwellCap) \/ dwell' = 1
    BY DEF Clock, ObserveLink
  <2> QED
    BY <2>1, <2>2, <2>3
<1>4. delayLine' \in [0..DELAY_DISTANCE - 1 -> BOOLEAN] /\ SameAge'
  BY ShiftKeepsAge DEF TimingInv, Clock
<1> QED
  BY <1>1, <1>2, <1>3, <1>4 DEF TimingInv, TypeOK

LEMMA NextKeepsTimingInv == TimingInv /\ [Next]_timingVars => TimingInv'
<1> SUFFICES ASSUME TimingInv, [Next]_timingVars PROVE TimingInv'
  OBVIOUS
<1>1. activeReg[LEFT] \in BOOLEAN
  BY LeftIs63 DEF TimingInv, TypeOK
<1>2. ASSUME NEW lastByte \in BOOLEAN, LineStarts(lastByte)
      PROVE  TimingInv'
  BY <1>2, ClockKeepsTimingInv DEF LineStarts
<1>3. ASSUME NEW lastByte \in BOOLEAN, LineEnds(lastByte)
      PROVE  TimingInv'
  BY <1>3, ClockKeepsTimingInv DEF LineEnds
<1>4. ASSUME NEW lastByte \in BOOLEAN, SameLevel(lastByte)
      PROVE  TimingInv'
  BY <1>1, <1>4, ClockKeepsTimingInv DEF SameLevel
<1>5. CASE Reset
  <2> USE <1>5, LeftIs63, DelayIs60 DEF Reset
  <2>1. TypeOK'
    BY RunCapBounds, DwellCapIs33 DEF TypeOK, STOP_COUNT, Count
  <2>2. \A i \in 0..LEFT : ~activeReg'[i]
    OBVIOUS
  <2>3. LEFT \in 0..LEFT
    OBVIOUS
  <2>4. RunSeen'
    BY <2>2, <2>3 DEF RunSeen
  <2>5. NoInnerRun' /\ WindowHeld'
    BY <2>2 DEF NoInnerRun, WindowHeld
  <2>6. SameAge'
    <3>1. \A i \in 0..59 : 63 - i \in 0..63
      OBVIOUS
    <3> QED
      BY <2>2, <3>1 DEF SameAge
  <2> QED
    BY <2>1, <2>4, <2>5, <2>6 DEF TimingInv
<1>6. CASE UNCHANGED timingVars
  BY <1>6 DEF timingVars, TimingInv, TypeOK, RunSeen, NoInnerRun, WindowHeld,
              SameAge, InFlight, Age
<1> QED
  BY <1>2, <1>3, <1>4, <1>5, <1>6 DEF Next

(* While an island is in flight the samples the video side looks at, 4..14,  *)
(* are all among the blank ones.                                             *)
LEMMA TimingInvImpliesNoOverlap == TimingInv => NoOverlap
<1> SUFFICES ASSUME TimingInv, preamble \/ guardband \/ dataenable
             PROVE  ~(videoActive \/ videoPreamble \/ videoGuard)
  <2>1. /\ VideoSide.active = videoActive
        /\ VideoSide.guard = videoGuard
        /\ VideoSide.preamble = videoPreamble
    BY DEF VideoSide
  <2>2. /\ IslandSide.data = dataenable
        /\ IslandSide.guard = guardband
        /\ IslandSide.preamble = preamble
    BY DEF IslandSide
  <2> QED
    BY <2>1, <2>2, Zenon DEF NoOverlap, Collide
<1>1. InFlight /\ Age \in 0..47
  BY DEF InFlight, Age, START_COUNT, preamble, guardband, dataenable
<1>2. \A i \in 0..15 : ~activeReg[i]
  BY <1>1, LeftIs63 DEF TimingInv, WindowHeld
<1> QED
  BY <1>2 DEF videoActive, videoPreamble, videoGuard, GUARDBAND_WIDTH,
              PREAMBLE_WIDTH

LEMMA TimingInvImpliesPixelAligned == TimingInv => PixelAligned
<1>1. 59 \in 0..DELAY_DISTANCE - 1 /\ LEFT - 59 = 4 /\ DELAY_DISTANCE - 1 = 59
  BY LeftIs63, DelayIs60
<1> QED
  BY <1>1 DEF TimingInv, SameAge, PixelAligned, videoActive

-----------------------------------------------------------------------------
(* The symbols of the link, in terms of the counter and three taps.          *)
LEMMA ShownIsSymbol == TypeOK /\ NoOverlap => Symbol = Shown
<1> SUFFICES ASSUME TypeOK, NoOverlap PROVE Symbol = Shown
  OBVIOUS
<1> USE DEF videoActive, videoGuard, videoPreamble, preamble, guardband,
            dataenable, GUARDBAND_WIDTH, PREAMBLE_WIDTH
<1>1. Symbol = IF videoActive THEN "video"
               ELSE IF videoGuard THEN "videoGuard"
               ELSE IF dataenable THEN "data"
               ELSE IF guardband THEN "dataGuard"
               ELSE IF videoPreamble THEN "videoPreamble"
               ELSE IF preamble THEN "dataPreamble"
               ELSE "control"
  BY DEF Symbol, SelectSymbol, VideoSide, IslandSide
<1>2. preamble \/ guardband \/ dataenable
          => ~(videoActive \/ videoPreamble \/ videoGuard)
  BY DEF NoOverlap, Collide, VideoSide, IslandSide
<1>3. counter \in 0..63
  BY DEF TypeOK, Count
<1> QED
  BY <1>1, <1>2, <1>3 DEF Shown

LEMMA TimingInvShowsSymbol == TimingInv => Symbol = Shown
BY ShownIsSymbol, TimingInvImpliesNoOverlap DEF TimingInv

LEMMA TimingInvShowsSymbolNext == (TimingInv => Symbol = Shown)'
BY TimingInvShowsSymbol, PTL

(* A new line begins at least MinBlank clocks behind the last one.           *)
LEMMA ShiftKeepsGaps ==
    ASSUME MinBlank >= 14, TypeOK, RunSeen, NoInnerGap,
           NEW active \in BOOLEAN,
           GeneratorMayEmit(active), ShiftActive(active)
    PROVE  NoInnerGap'
<1> USE LeftIs63
<1>1. /\ activeReg'[63] = active
      /\ \A i \in 0..62 : activeReg'[i] = activeReg[i + 1]
  BY DEF ShiftActive
<1>0. activeReg[63] \in BOOLEAN
  BY DEF TypeOK
<1> SUFFICES ASSUME NEW a \in 0..63, NEW b \in 0..63, NEW c \in 0..63,
                    a < b, b < c,
                    activeReg'[a], ~activeReg'[b], activeReg'[c]
             PROVE  c - a > 14
  BY DEF NoInnerGap
<1>2. /\ a \in 0..62 /\ b \in 0..62 /\ a + 1 \in 0..63 /\ b + 1 \in 0..63
      /\ activeReg[a + 1] /\ ~activeReg[b + 1]
  BY <1>1
<1>3. CASE c # 63
  <2>1. c \in 0..62 /\ c + 1 \in 0..63 /\ activeReg[c + 1]
    BY <1>1, <1>3
  <2>2. (c + 1) - (a + 1) > 14
    BY <1>2, <2>1 DEF NoInnerGap
  <2> QED
    BY <2>2
<1>4. CASE c = 63 /\ activeReg[63]
  <2>1. b # 62
    BY <1>2, <1>4
  <2>2. 63 - (a + 1) > 14
    BY <1>2, <1>4, <2>1 DEF NoInnerGap
  <2> QED
    BY <1>4, <2>2
<1>5. CASE c = 63 /\ ~activeReg[63]
  <2>1. run >= 14
    <3>1. active # activeReg[63]
      BY <1>1, <1>5
    <3>2. run >= MinBlank /\ run \in Nat /\ MinBlank \in Nat
      BY <1>5, <3>1, RunAssumption, RunCapBounds
         DEF GeneratorMayEmit, TypeOK
    <3> QED
      BY <3>2
  <2>2. ~(63 - (a + 1) < run)
    BY <1>2, <1>5 DEF RunSeen
  <2> QED
    BY <1>5, <2>1, <2>2, RunCapBounds DEF TypeOK
<1> QED
  BY <1>3, <1>4, <1>5

(* One clock of the link: the widths stay visible, and a group only gives    *)
(* way to one that may follow it, when it has its full width.                *)
LinkStep ==
    /\ WidthSeen'
    /\ Shown' # Shown => /\ <<Shown, Shown'>> \in LegalSteps
                         /\ FullWidth(Shown, dwell)

\* One clock of the link, as far as it matters to the groups.
LinkClock(active, lastByte) ==
    /\ TimingInv /\ TimingInv'
    /\ LinkInv
    /\ ShiftActive(active)
    /\ SequencerEdge(lastByte, allowPacket)
    /\ dwell' = IF Shown' = Shown THEN Saturate(dwell, DwellCap) ELSE 1

LEMMA LinkClockTypes ==
    ASSUME NEW active \in BOOLEAN, NEW lastByte \in BOOLEAN,
           LinkClock(active, lastByte)
    PROVE  /\ counter \in 0..63 /\ counter' \in 0..63
           /\ dwell \in 1..33
           /\ Shown' = Shown =>
                  dwell' = IF dwell < 33 THEN dwell + 1 ELSE 33
           /\ Shown' # Shown => dwell' = 1
           /\ activeReg \in [0..63 -> BOOLEAN]
           /\ \A i \in 0..62 : activeReg'[i] = activeReg[i + 1]
<1> USE LeftIs63, DwellCapIs33
<1>1. \A i \in 0..62 : activeReg'[i] = activeReg[i + 1]
  BY DEF LinkClock, ShiftActive
<1>2. TypeOK /\ counter' \in Count
  BY DEF LinkClock, TimingInv, TypeOK
<1> QED
  BY <1>1, <1>2 DEF TypeOK, Count, LinkClock, Saturate

(* What the counter does, without the reasons.                               *)
LEMMA SequencerMoves ==
    ASSUME counter \in 0..63, NEW lastByte \in BOOLEAN,
           SequencerEdge(lastByte, allowPacket)
    PROVE  \/ counter = 6 /\ counter' \in {6, 21}
           \/ counter = 21 /\ counter' = 21
           \/ counter = 21 /\ counter' = 22 /\ allowPacket
           \/ counter \notin {6, 21}
              /\ counter' = IF counter = 63 THEN 0 ELSE counter + 1
BY DEF SequencerEdge, AcceptPacket, StartIsland, RunIsland, HoldSequencer,
       Increment, inReady, READY_COUNT, STOP_COUNT, START_COUNT

(* During an island and its gap: the counter alone decides.                  *)
LEMMA IslandLinkStep ==
    ASSUME NEW active \in BOOLEAN, NEW lastByte \in BOOLEAN,
           LinkClock(active, lastByte), InFlight
    PROVE  LinkStep
<1>0. /\ counter \in 0..63 /\ counter' \in 0..63
      /\ dwell \in 1..33
      /\ Shown' = Shown => dwell' = IF dwell < 33 THEN dwell + 1 ELSE 33
      /\ Shown' # Shown => dwell' = 1
      /\ activeReg \in [0..63 -> BOOLEAN]
      /\ \A i \in 0..62 : activeReg'[i] = activeReg[i + 1]
  BY LinkClockTypes
<1>1. \A i \in 0..15 : ~activeReg[i]
  <2>1. Age \in 0..47
    BY <1>0 DEF InFlight, Age, START_COUNT
  <2>2. \A i \in 0..63 : i <= 63 - 1 - Age => ~activeReg[i]
    BY LeftIs63 DEF LinkClock, TimingInv, WindowHeld
  <2> QED
    BY <2>1, <2>2
<1>2. ~activeReg'[4] /\ ~activeReg'[6] /\ ~activeReg'[14]
  BY <1>0, <1>1
<1>3. counter' = IF counter = 63 THEN 0 ELSE counter + 1
  BY <1>0, SequencerMoves DEF LinkClock, InFlight
<1>4. WidthSeen
  BY DEF LinkClock, LinkInv
<1>5. CASE counter \in 22..63
  <2>1. WidthSeen'
    BY <1>0, <1>2, <1>3, <1>4, <1>5 DEF WidthSeen, Shown
  <2>2. Shown' # Shown => /\ <<Shown, Shown'>> \in LegalSteps
                          /\ FullWidth(Shown, dwell)
    BY <1>0, <1>2, <1>3, <1>4, <1>5
       DEF WidthSeen, Shown, LegalSteps, FullWidth, PREAMBLE_WIDTH,
           GUARDBAND_WIDTH, DATA_WIDTH
  <2> QED
    BY <2>1, <2>2 DEF LinkStep
<1>6. CASE counter \in 0..5
  <2>1. WidthSeen'
    <3>1. Shown' = IF counter' \in 0..1 THEN "dataGuard" ELSE "control"
      BY <1>0, <1>2, <1>3, <1>6 DEF Shown
    <3>2. Shown = IF counter \in 0..1 THEN "dataGuard" ELSE "control"
      BY <1>0, <1>1, <1>6 DEF Shown
    <3>3. counter \in 2..5 => dwell >= 4 \/ counter = dwell + 1
      BY <1>0, <1>1, <1>4, <1>6, <3>2 DEF WidthSeen
    <3>4. counter \in 0..1 => dwell = counter + 1
      BY <1>4 DEF WidthSeen
    <3> QED
      BY <1>0, <1>3, <1>6, <3>1, <3>2, <3>3, <3>4 DEF WidthSeen
  <2>2. Shown' # Shown => /\ <<Shown, Shown'>> \in LegalSteps
                          /\ FullWidth(Shown, dwell)
    <3>1. ~activeReg[4] /\ ~activeReg[6] /\ ~activeReg[14]
      BY <1>1
    <3>2. counter \in 0..1 => Shown = "dataGuard" /\ dwell = counter + 1
      BY <1>4 DEF Shown, WidthSeen
    <3>3. counter \in 2..5 => Shown = "control"
      BY <3>1 DEF Shown
    <3>4. counter' \in 0..1 => Shown' = "dataGuard"
      BY DEF Shown
    <3>5. counter' \in 2..6 => Shown' = "control"
      BY <1>2 DEF Shown
    <3> QED
      BY <1>3, <1>6, <3>2, <3>3, <3>4, <3>5
         DEF LegalSteps, FullWidth, GUARDBAND_WIDTH
  <2> QED
    BY <2>1, <2>2 DEF LinkStep
<1> QED
  BY <1>5, <1>6 DEF InFlight

(* The start of an island, in a register that is all blank.                  *)
LEMMA StartLinkStep ==
    ASSUME NEW active \in BOOLEAN, NEW lastByte \in BOOLEAN,
           LinkClock(active, lastByte),
           counter = 21, counter' = 22, allowPacket
    PROVE  LinkStep
<1>0. /\ counter \in 0..63 /\ counter' \in 0..63
      /\ dwell \in 1..33
      /\ Shown' = Shown => dwell' = IF dwell < 33 THEN dwell + 1 ELSE 33
      /\ Shown' # Shown => dwell' = 1
      /\ activeReg \in [0..63 -> BOOLEAN]
      /\ \A i \in 0..62 : activeReg'[i] = activeReg[i + 1]
  BY LinkClockTypes
<1>1. \A i \in 0..63 : ~activeReg[i]
  BY LeftIs63, WindowIsBlank DEF LinkClock, TimingInv
<1>2. Shown = "control" /\ Shown' = "dataPreamble" /\ dwell' = 1
  BY <1>0, <1>1 DEF Shown
<1>3. dwell >= 4
  BY <1>0, <1>1, <1>2 DEF LinkClock, LinkInv, WidthSeen
<1> QED
  <2>1. WidthSeen'
    BY <1>2 DEF WidthSeen
  <2>2. <<Shown, Shown'>> \in LegalSteps /\ FullWidth(Shown, dwell)
    BY <1>2, <1>3 DEF LegalSteps, FullWidth, ISLANDGAP_WIDTH
  <2> QED
    BY <2>1, <2>2 DEF LinkStep

(* Without an island the taps decide.  Runs of video are longer than the     *)
(* register, and blanking in it lasts 14 samples at least, which tells what  *)
(* lies between the taps from what lies at them.                             *)
LEMMA VideoLinkStep ==
    ASSUME NEW active \in BOOLEAN, NEW lastByte \in BOOLEAN,
           LinkClock(active, lastByte),
           counter \in 6..21, counter' \in 6..21
    PROVE  LinkStep
<1>0. /\ counter \in 0..63 /\ counter' \in 0..63
      /\ dwell \in 1..33
      /\ Shown' = Shown => dwell' = IF dwell < 33 THEN dwell + 1 ELSE 33
      /\ Shown' # Shown => dwell' = 1
      /\ activeReg \in [0..63 -> BOOLEAN]
      /\ \A i \in 0..62 : activeReg'[i] = activeReg[i + 1]
  BY LinkClockTypes
<1>1. /\ activeReg'[4] = activeReg[5]
      /\ activeReg'[6] = activeReg[7]
      /\ activeReg'[14] = activeReg[15]
  BY <1>0
<1>2. WidthSeen
  BY DEF LinkClock, LinkInv
<1>a. /\ 4 \in 0..63 /\ 5 \in 0..63 /\ 6 \in 0..63 /\ 7 \in 0..63
      /\ 14 \in 0..63 /\ 15 \in 0..63
      /\ 4 < 5 /\ 5 < 6 /\ 4 < 6 /\ 6 < 7 /\ 7 < 14 /\ 6 < 14 /\ 14 < 15
      /\ \A i \in 0..14 : 14 - i \in 0..63
      /\ \A i \in 0..4 : 4 - i \in 0..63
  OBVIOUS
<1>b. /\ ~activeReg[4] /\ ~activeReg[6] => ~activeReg[5]
      /\ ~activeReg[4] /\ ~activeReg[7] => ~activeReg[6]
      /\ ~activeReg[6] /\ ~activeReg[14] => ~activeReg[7]
      /\ ~activeReg[6] /\ ~activeReg[15] => ~activeReg[14]
      /\ \A c \in 8..13 : ~activeReg[6] /\ ~activeReg[c] => ~activeReg[7]
  <2>1. \A i, j, k \in 0..63 : i < j /\ j < k /\ ~activeReg[i] /\ ~activeReg[k]
                                   => ~activeReg[j]
    BY LeftIs63 DEF LinkClock, TimingInv, NoInnerRun
  <2>2. ASSUME NEW c \in 8..13, ~activeReg[6], ~activeReg[c]
        PROVE  ~activeReg[7]
    <3>1. c \in 0..63 /\ 6 < 7 /\ 7 < c
      OBVIOUS
    <3> QED
      BY <1>a, <2>1, <2>2, <3>1
  <2>3. ~activeReg[4] /\ ~activeReg[6] => ~activeReg[5]
    BY <1>a, <2>1
  <2>4. ~activeReg[4] /\ ~activeReg[7] => ~activeReg[6]
    BY <1>a, <2>1
  <2>5. ~activeReg[6] /\ ~activeReg[14] => ~activeReg[7]
    BY <1>a, <2>1
  <2>6. ~activeReg[6] /\ ~activeReg[15] => ~activeReg[14]
    BY <1>a, <2>1
  <2> QED
    BY <2>2, <2>3, <2>4, <2>5, <2>6
<1>c. /\ activeReg[4] /\ ~activeReg[5] => ~activeReg[7] /\ ~activeReg[15]
      /\ \A i \in 1..3 : activeReg[4 - i] /\ ~activeReg[4] => ~activeReg[15]
  <2>1. \A i, j, k \in 0..63 :
            i < j /\ j < k /\ activeReg[i] /\ ~activeReg[j] /\ activeReg[k]
                => k - i > 14
    BY LeftIs63 DEF LinkClock, LinkInv, NoInnerGap
  <2> QED
    BY <1>a, <2>1
<1>d. /\ Shown' = "videoPreamble"
              => /\ dwell' \in 1..8
                 /\ ~activeReg'[14 - dwell'] /\ activeReg'[15 - dwell']
      /\ Shown' = "videoGuard"
              => /\ dwell' \in 1..2
                 /\ ~activeReg'[6 - dwell'] /\ activeReg'[7 - dwell']
      /\ Shown' = "control"
              => dwell' >= 4 \/ (dwell' \in 1..3 /\ activeReg'[4 - dwell'])
      => WidthSeen'
  BY DEF WidthSeen
<1>3. /\ Shown = IF activeReg[4] THEN "video"
                 ELSE IF activeReg[6] THEN "videoGuard"
                 ELSE IF activeReg[14] THEN "videoPreamble"
                 ELSE "control"
      /\ Shown' = IF activeReg[5] THEN "video"
                  ELSE IF activeReg[7] THEN "videoGuard"
                  ELSE IF activeReg[15] THEN "videoPreamble"
                  ELSE "control"
  BY <1>0, <1>1 DEF Shown
<1>4. CASE Shown = "video"
  <2>1. activeReg[4]
    BY <1>0, <1>3, <1>4
  <2>2. ~activeReg[5] => ~activeReg[7] /\ ~activeReg[15]
    BY <2>1, <1>c
  <2>3. Shown' = "control" => dwell' = 1 /\ activeReg'[3]
    BY <1>0, <1>4, <2>1
  <2> QED
    <3>1. Shown' \in {"video", "control"}
      BY <1>3, <2>2
    <3>2. WidthSeen'
      BY <2>3, <3>1, <1>d
    <3>3. Shown' # Shown => <<Shown, Shown'>> \in LegalSteps
      BY <1>4, <3>1 DEF LegalSteps
    <3>4. FullWidth(Shown, dwell)
      BY <1>4 DEF FullWidth
    <3> QED
      BY <3>2, <3>3, <3>4 DEF LinkStep
<1>5. CASE Shown = "videoGuard"
  <2>1. ~activeReg[4] /\ activeReg[6]
    BY <1>0, <1>3, <1>5
  <2>2. dwell \in 1..2 /\ ~activeReg[6 - dwell] /\ activeReg[7 - dwell]
    BY <1>0, <1>2, <1>5 DEF WidthSeen
  <2>3. activeReg[7]
    BY <2>1, <1>b
  <2>4. dwell = 1 => ~activeReg[5]
    BY <1>0, <2>2
  <2>5. dwell = 2 => activeReg[5]
    BY <1>0, <2>2
  <2>6. CASE dwell = 1
    <3>1. Shown' = "videoGuard" /\ dwell' = 2
      BY <1>0, <1>3, <1>5, <2>3, <2>4, <2>6
    <3>2. ~activeReg'[4] /\ activeReg'[5]
      BY <1>0, <2>1, <2>4, <2>6
    <3> QED
      <4>1. WidthSeen'
        <5>1. dwell' = 2 /\ 6 - dwell' = 4 /\ 7 - dwell' = 5
          BY <3>1
        <5>2. dwell' \in 1..2 /\ ~activeReg'[6 - dwell'] /\ activeReg'[7 - dwell']
          BY <3>2, <5>1
        <5> QED
          BY <3>1, <5>2, <1>d
      <4> QED
        BY <1>5, <3>1, <4>1 DEF LinkStep
  <2>7. CASE dwell = 2
    <3>1. Shown' = "video"
      BY <1>0, <1>3, <2>5, <2>7
    <3>2. WidthSeen'
      BY <3>1, <1>d
    <3>3. <<Shown, Shown'>> \in LegalSteps
      BY <1>5, <3>1 DEF LegalSteps
    <3>4. FullWidth(Shown, dwell)
      BY <1>5, <2>7 DEF FullWidth, GUARDBAND_WIDTH
    <3> QED
      BY <3>2, <3>3, <3>4 DEF LinkStep
  <2> QED
    BY <1>0, <2>2, <2>6, <2>7
<1>6. CASE Shown = "videoPreamble"
  <2>1. ~activeReg[4] /\ ~activeReg[6] /\ activeReg[14]
    BY <1>0, <1>3, <1>6
  <2>2. dwell \in 1..8 /\ ~activeReg[14 - dwell] /\ activeReg[15 - dwell]
    BY <1>0, <1>2, <1>6 DEF WidthSeen
  <2>3. ~activeReg[5]
    BY <2>1, <1>b
  <2>4. activeReg[15]
    BY <2>1, <1>b
  <2>5. CASE dwell = 8
    <3>1. activeReg[7]
      BY <1>0, <2>2, <2>5
    <3>2. Shown' = "videoGuard" /\ dwell' = 1
      BY <1>0, <1>3, <1>6, <2>3, <3>1
    <3>3. ~activeReg'[5] /\ activeReg'[6]
      BY <1>0, <2>1, <3>1
    <3>4. WidthSeen'
      BY <3>2, <3>3, <1>d
    <3>5. <<Shown, Shown'>> \in LegalSteps
      BY <1>6, <3>2 DEF LegalSteps
    <3>6. FullWidth(Shown, dwell)
      BY <1>6, <2>5 DEF FullWidth, PREAMBLE_WIDTH
    <3> QED
      BY <3>4, <3>5, <3>6 DEF LinkStep
  <2>6. CASE dwell \in 1..7
    <3>1. ~activeReg[7]
      <4>1. 14 - dwell = 7 \/ 14 - dwell \in 8..13
        BY <2>6
      <4> QED
        BY <1>b, <2>1, <2>2, <4>1
    <3>2. Shown' = "videoPreamble" /\ dwell' = dwell + 1
      BY <1>0, <1>3, <1>6, <2>3, <2>4, <2>6, <3>1
    <3>3. /\ activeReg'[14 - dwell'] = activeReg[14 - dwell]
          /\ activeReg'[15 - dwell'] = activeReg[15 - dwell]
      BY <1>0, <2>6, <3>2
    <3> QED
      <4>1. WidthSeen'
        <5>1. /\ dwell' \in 1..8
              /\ ~activeReg'[14 - dwell'] /\ activeReg'[15 - dwell']
          BY <2>2, <2>6, <3>2, <3>3
        <5> QED
          BY <3>2, <5>1, <1>d
      <4> QED
        BY <1>6, <3>2, <4>1 DEF LinkStep
  <2> QED
    BY <1>0, <2>2, <2>5, <2>6
<1>7. CASE Shown = "control"
  <2>1. ~activeReg[4] /\ ~activeReg[6] /\ ~activeReg[14]
    BY <1>0, <1>3, <1>7
  <2>2. ~activeReg[5] /\ ~activeReg[7]
    BY <2>1, <1>b
  <2>3. dwell >= 4 \/ (dwell \in 1..3 /\ activeReg[4 - dwell])
    BY <1>0, <1>2, <1>7 DEF WidthSeen
  <2>4. CASE activeReg[15]
    <3>1. Shown' = "videoPreamble" /\ dwell' = 1
      BY <1>0, <1>3, <1>7, <2>2, <2>4
    <3>2. ~activeReg'[13] /\ activeReg'[14]
      BY <1>0, <2>1, <2>4
    <3>3. dwell \in 1..3 => ~activeReg[4 - dwell]
      BY <1>c, <2>1, <2>4
    <3>4. WidthSeen'
      BY <3>1, <3>2, <1>d
    <3>5. <<Shown, Shown'>> \in LegalSteps
      BY <1>7, <3>1 DEF LegalSteps
    <3>6. FullWidth(Shown, dwell)
      BY <1>0, <1>7, <2>3, <3>3 DEF FullWidth, ISLANDGAP_WIDTH
    <3> QED
      BY <3>4, <3>5, <3>6 DEF LinkStep
  <2>5. CASE ~activeReg[15]
    <3>1. Shown' = "control"
      BY <1>0, <1>3, <2>2, <2>5
    <3>2. dwell \in 1..2 => activeReg'[3 - dwell] = activeReg[4 - dwell]
      BY <1>0
    <3>3. dwell' >= 4 \/ (dwell' \in 1..3 /\ activeReg'[4 - dwell'])
      BY <1>0, <1>7, <2>3, <3>1, <3>2
    <3> QED
      BY <1>0, <1>7, <3>1, <3>3 DEF LinkStep, WidthSeen
  <2> QED
    BY <1>0, <2>4, <2>5
<1> QED
  BY <1>0, <1>3, <1>4, <1>5, <1>6, <1>7

LEMMA ClockIsLinkStep ==
    ASSUME MinBlank >= 14, TimingInv, LinkInv,
           NEW active \in BOOLEAN, NEW lastByte \in BOOLEAN,
           Clock(active, lastByte)
    PROVE  /\ LinkInv'
           /\ Symbol' # Symbol => /\ <<Symbol, Symbol'>> \in LegalSteps
                                  /\ FullWidth(Symbol, dwell)
<1>1. TimingInv'
  BY ClockKeepsTimingInv
<1>2. Symbol = Shown /\ Symbol' = Shown'
  BY <1>1, TimingInvShowsSymbol, TimingInvShowsSymbolNext
<1>3. LinkClock(active, lastByte)
  BY <1>1, <1>2 DEF LinkClock, Clock, ObserveLink
<1>4. counter \in 0..63 /\ counter' \in 0..63
  BY <1>3, LinkClockTypes
<1>5. LinkStep
  <2>1. CASE InFlight
    BY <1>3, <2>1, IslandLinkStep
  <2>2. CASE counter = 21 /\ counter' = 22 /\ allowPacket
    BY <1>3, <2>2, StartLinkStep
  <2>3. CASE counter \in 6..21 /\ counter' \in 6..21
    BY <1>3, <2>3, VideoLinkStep
  <2> QED
    BY <1>4, <2>1, <2>2, <2>3, SequencerMoves DEF Clock, InFlight
<1>6. NoInnerGap'
  BY ShiftKeepsGaps DEF TimingInv, LinkInv, Clock
<1> QED
  BY <1>2, <1>5, <1>6 DEF LinkInv, LinkStep

LEMMA InitLinkInv == Init => LinkInv
<1> SUFFICES ASSUME Init PROVE LinkInv
  OBVIOUS
<1>1. counter = 6 /\ dwell = 33 /\ \A i \in 0..63 : ~activeReg[i]
  BY LeftIs63, DwellCapIs33 DEF Init, SequencerInit, STOP_COUNT
<1> QED
  BY <1>1, LeftIs63 DEF LinkInv, NoInnerGap, WidthSeen, Shown

LEMMA SpecLinkInv == ASSUME MinBlank >= 14 PROVE Spec => [](TimingInv /\ LinkInv)
<1>1. Init => TimingInv /\ LinkInv
  BY InitTimingInv, InitLinkInv
<1>2. TimingInv /\ LinkInv /\ [Next]_timingVars => TimingInv' /\ LinkInv'
  <2> SUFFICES ASSUME TimingInv, LinkInv, [Next]_timingVars
               PROVE  LinkInv'
    BY NextKeepsTimingInv
  <2>1. activeReg[LEFT] \in BOOLEAN
    BY LeftIs63 DEF TimingInv, TypeOK
  <2>2. ASSUME NEW lastByte \in BOOLEAN, NEW active \in BOOLEAN,
               Clock(active, lastByte)
        PROVE  LinkInv'
    BY <2>2, ClockIsLinkStep
  <2>3. CASE Reset
    <3>1. counter' = 6 /\ dwell' = 33 /\ \A i \in 0..63 : ~activeReg'[i]
      BY <2>3, LeftIs63, DwellCapIs33 DEF Reset, STOP_COUNT
    <3>2. WidthSeen'
      BY <3>1 DEF WidthSeen, Shown
    <3>3. NoInnerGap'
      BY <3>1, LeftIs63 DEF NoInnerGap
    <3> QED
      BY <3>2, <3>3 DEF LinkInv
  <2>4. CASE UNCHANGED timingVars
    BY <2>4 DEF timingVars, LinkInv, NoInnerGap, WidthSeen, Shown
  <2> QED
    BY <2>1, <2>2, <2>3, <2>4 DEF Next, LineStarts, LineEnds, SameLevel
<1> QED
  BY <1>1, <1>2, PTL DEF Spec

-----------------------------------------------------------------------------
LEMMA SpecTimingInv == Spec => []TimingInv
BY InitTimingInv, NextKeepsTimingInv, PTL DEF Spec

(* active_reg, the sequencer and the run lengths stay in range.              *)
THEOREM TypeCorrect == Spec => []TypeOK
<1>1. TimingInv => TypeOK
  BY DEF TimingInv
<1> QED
  BY <1>1, SpecTimingInv, PTL

(* hdmi_tx never transmits a data island (gen_data) while it transmits video *)
(* preamble, guard band or pixels (control_sig), for all run lengths of      *)
(* blanking and all lines of at least 63 pixels.                             *)
THEOREM IslandsNeverOverlapVideo == Spec => []NoOverlap
BY SpecTimingInv, TimingInvImpliesNoOverlap, PTL

(* Every pixel period of the link carries pixels sampled with active = 1,    *)
(* whatever the generator and the resets do.                                 *)
THEOREM PixelsStayAligned == Spec => []PixelAligned
BY SpecTimingInv, TimingInvImpliesPixelAligned, PTL

(* Whatever the video generator does, as long as it blanks at least 14 clocks*)
(* between lines of at least 63, the link carries the groups in the order and*)
(* with the widths of the protocol: four control characters around an island,*)
(* a preamble and a guard band in front of each island and of each line.     *)
THEOREM GroupsAreInOrder == ASSUME MinBlank >= 14 PROVE Spec => LinkProtocol
<1>1. ASSUME TimingInv, LinkInv, InClock, Symbol' # Symbol
      PROVE  /\ <<Symbol, Symbol'>> \in LegalSteps
             /\ FullWidth(Symbol, dwell)
  BY <1>1, ClockIsLinkStep DEF InClock
<1>2. TimingInv /\ LinkInv
          => [InClock /\ Symbol' # Symbol =>
                 /\ <<Symbol, Symbol'>> \in LegalSteps
                 /\ FullWidth(Symbol, dwell)]_timingVars
  BY <1>1
<1> QED
  BY <1>2, SpecLinkInv, PTL DEF LinkProtocol

-----------------------------------------------------------------------------
(* The serializer.  Both counters run down from 4 and start again, so between*)
(* two loads there is one edge of clk, and phase >= start tells whether it    *)
(* has been: then data_in_reg is a word ahead of the one being shifted out.   *)
\* A word that has lost the bits that were sent, two for each shift since Load.
Shifted(m, s) ==
    [lane \in Lane |->
        [i \in 0..9 |-> IF i + 2 * (4 - start) <= 9
                        THEN <<Source(lane, s), m, i + 2 * (4 - start)>>
                        ELSE Unknown]]

NothingIn(reg)  == reg = [lane \in Lane |-> NoBits]
NothingOut == \A lane \in Lane : Sent(lane) = Unknown

\* Two bits of each lane.
Pair(s, m, i) ==
    [lane \in Lane |-> <<<<Source(lane, s), m, i>>, <<Source(lane, s), m, i + 1>>>>]

\* What has left is the end of the word before m, or the bits of m in front of
\* those that ser_reg holds.
OutHolds(m, s) ==
    \/ NothingOut
    \/ /\ start = 4
       /\ \E k \in 0..(WordNumbers - 1), t \in BOOLEAN :
             m = (k + 1) % WordNumbers /\ out = Pair(t, k, 8)
    \/ start < 4 /\ out = Pair(s, m, 2 * (3 - start))

InStep(n, m) == IF phase >= start THEN n = (m + 1) % WordNumbers ELSE n = m

Shifting(n) ==
    \/ phase >= start /\ NothingIn(ser) /\ NothingOut
    \/ \E m \in 0..(WordNumbers - 1), s \in BOOLEAN :
          InStep(n, m) /\ ser = Shifted(m, s) /\ OutHolds(m, s)

Waiting ==
    word = 0 /\ NothingIn(dataIn) /\ NothingIn(ser) /\ NothingOut

Running ==
    \E n \in 0..(WordNumbers - 1), s \in BOOLEAN :
       /\ word = (n + 1) % WordNumbers
       /\ dataIn = [lane \in Lane |-> Bits(lane, n, s)]
       /\ Shifting(n)

SerialInv ==
    /\ phase \in 0..4 /\ start \in 0..4 /\ swap \in BOOLEAN
    /\ Waiting \/ Running

LEMMA NextNumber ==
    ASSUME NEW n \in 0..(WordNumbers - 1) PROVE (n + 1) % WordNumbers \in 0..(WordNumbers - 1)
  BY WordsAssumption

LEMMA ShiftedOnce ==
    ASSUME start \in 0..4, Shift, NEW m, NEW s, ser = Shifted(m, s)
    PROVE  ser' = Shifted(m, s)'
<1>1. start \in 1..4 /\ start' = start - 1
  BY DEF Shift
<1>2. ASSUME NEW lane \in Lane, NEW i \in 0..9
      PROVE  (IF i < 8 THEN ser[lane][i + 2] ELSE Unknown)
               = IF i + 2 * (4 - start') <= 9
                 THEN <<Source(lane, s), m, i + 2 * (4 - start')>> ELSE Unknown
  <2>1. CASE i < 8
    <3>1. i + 2 \in 0..9 /\ (i + 2) + 2 * (4 - start) = i + 2 * (4 - start')
      BY <1>1, <2>1
    <3>2. ser[lane][i + 2] = IF (i + 2) + 2 * (4 - start) <= 9
                             THEN <<Source(lane, s), m, (i + 2) + 2 * (4 - start)>>
                             ELSE Unknown
      BY <3>1 DEF Shifted
    <3> QED
      BY <2>1, <3>1, <3>2
  <2>2. CASE ~(i < 8)
    BY <1>1, <2>2
  <2> QED
    BY <2>1, <2>2
<1>3. ser' = [lane \in Lane |->
                 [i \in 0..9 |-> IF i < 8 THEN ser[lane][i + 2] ELSE Unknown]]
  BY DEF Shift
<1> QED
  BY <1>2, <1>3 DEF Shifted

LEMMA ShiftedNothing ==
    ASSUME Shift, NothingIn(ser) PROVE NothingIn(ser')
<1>1. ASSUME NEW lane \in Lane, NEW i \in 0..9
      PROVE  (IF i < 8 THEN ser[lane][i + 2] ELSE Unknown) = Unknown
  BY DEF NothingIn, NoBits
<1> QED
  BY <1>1 DEF Shift, NothingIn, NoBits

LEMMA JustLoaded ==
    ASSUME Load, NEW n, NEW s, dataIn = [lane \in Lane |-> Bits(lane, n, s)]
    PROVE  ser' = Shifted(n, s)'
<1>1. start' = 4 /\ ser' = [lane \in Lane |-> Bits(lane, n, s)]
  BY DEF Load
<1>2. ASSUME NEW lane \in Lane, NEW i \in 0..9
      PROVE  <<Source(lane, s), n, i>>
               = IF i + 2 * (4 - start') <= 9
                 THEN <<Source(lane, s), n, i + 2 * (4 - start')>> ELSE Unknown
  <2>1. i + 2 * (4 - start') = i /\ i <= 9
    BY <1>1
  <2> QED
    BY <2>1
<1> QED
  BY <1>1, <1>2 DEF Shifted, Bits

\* The two bits that leave at an edge.
Leaves == out' = [lane \in Lane |-> <<ser[lane][0], ser[lane][1]>>]

LEMMA PairLeaves ==
    ASSUME start \in 0..4, Leaves, NEW m, NEW s, ser = Shifted(m, s)
    PROVE  out' = Pair(s, m, 2 * (4 - start))
<1>1. ASSUME NEW lane \in Lane
      PROVE  /\ ser[lane][0] = <<Source(lane, s), m, 2 * (4 - start)>>
             /\ ser[lane][1] = <<Source(lane, s), m, 2 * (4 - start) + 1>>
  <2>1. /\ 0 \in 0..9 /\ 0 + 2 * (4 - start) = 2 * (4 - start) /\ 2 * (4 - start) <= 9
        /\ 1 \in 0..9 /\ 1 + 2 * (4 - start) = 2 * (4 - start) + 1
        /\ 2 * (4 - start) + 1 <= 9
    OBVIOUS
  <2> QED
    BY <2>1 DEF Shifted
<1> QED
  BY <1>1 DEF Leaves, Pair

LEMMA NothingLeaves == ASSUME Leaves, NothingIn(ser) PROVE NothingOut'
<1>1. ASSUME NEW lane \in Lane PROVE ser[lane][0] = Unknown
  BY DEF NothingIn, NoBits
<1> QED
  BY <1>1 DEF Leaves, NothingOut, Sent

\* What has left is due, whether ser_reg is shifted or loaded with the next word.
LEMMA ShiftKeepsOut ==
    ASSUME start \in 0..4, Shift, Leaves, NEW m, NEW s, ser = Shifted(m, s)
    PROVE  OutHolds(m, s)'
<1>1. start' = start - 1 /\ start' < 4 /\ 2 * (4 - start) = 2 * (3 - start')
  BY DEF Shift
<1>2. out' = Pair(s, m, 2 * (3 - start'))
  BY <1>1, PairLeaves
<1> QED
  BY <1>1, <1>2 DEF OutHolds, Pair

LEMMA LoadKeepsOut ==
    ASSUME Load, Leaves, NEW m \in 0..(WordNumbers - 1), NEW s \in BOOLEAN,
           ser = Shifted(m, s), NEW n, n = (m + 1) % WordNumbers, NEW t
    PROVE  OutHolds(n, t)'
<1>1. start = 0 /\ start' = 4 /\ 2 * (4 - start) = 8
  BY DEF Load
<1>2. out' = Pair(s, m, 8)
  BY <1>1, PairLeaves
<1> QED
  BY <1>1, <1>2 DEF OutHolds, Pair

LEMMA InitSerialInv == SerialInit => SerialInv
  BY DEF SerialInit, SerialInv, Waiting, NothingIn, NothingOut, Sent


\* An edge without clk: the word that waits in data_in_reg stays.
LEMMA BetweenWords ==
    ASSUME phase \in 1..4, start \in 0..4, Load \/ Shift, Leaves, phase' = phase - 1,
           NEW n \in 0..(WordNumbers - 1), NEW s \in BOOLEAN,
           dataIn = [lane \in Lane |-> Bits(lane, n, s)], Shifting(n)
    PROVE  Shifting(n)'
<1>1. CASE Load
  <2>1. start = 0 /\ ~(phase' >= start')
    BY <1>1 DEF Load
  <2>2. ser' = Shifted(n, s)'
    BY <1>1, JustLoaded
  <2>3. InStep(n, n)'
    BY <2>1 DEF InStep
  <2>4. OutHolds(n, s)'
    <3>1. CASE NothingIn(ser)
      BY <3>1, NothingLeaves DEF OutHolds
    <3>2. CASE \E m \in 0..(WordNumbers - 1), t \in BOOLEAN :
                  InStep(n, m) /\ ser = Shifted(m, t) /\ OutHolds(m, t)
      <4>1. PICK m \in 0..(WordNumbers - 1), t \in BOOLEAN :
                  InStep(n, m) /\ ser = Shifted(m, t)
        BY <3>2
      <4>2. n = (m + 1) % WordNumbers
        BY <2>1, <4>1 DEF InStep
      <4> QED
        BY <1>1, <4>1, <4>2, LoadKeepsOut
    <3> QED
      BY <3>1, <3>2 DEF Shifting
  <2> QED
    BY <2>2, <2>3, <2>4 DEF Shifting
<1>2. CASE Shift
  <2>1. start' = start - 1 /\ (phase' >= start' <=> phase >= start)
    BY <1>2 DEF Shift
  <2>2. CASE phase >= start /\ NothingIn(ser) /\ NothingOut
    BY <1>2, <2>1, <2>2, ShiftedNothing, NothingLeaves DEF Shifting
  <2>3. CASE \E m \in 0..(WordNumbers - 1), t \in BOOLEAN :
                InStep(n, m) /\ ser = Shifted(m, t) /\ OutHolds(m, t)
    <3>1. PICK m \in 0..(WordNumbers - 1), t \in BOOLEAN :
                InStep(n, m) /\ ser = Shifted(m, t)
      BY <2>3
    <3>2. ser' = Shifted(m, t)' /\ OutHolds(m, t)'
      BY <1>2, <3>1, ShiftedOnce, ShiftKeepsOut
    <3>3. InStep(n, m)'
      BY <2>1, <3>1 DEF InStep
    <3> QED
      BY <3>2, <3>3 DEF Shifting
  <2> QED
    BY <2>2, <2>3 DEF Shifting
<1> QED
  BY <1>1, <1>2

\* An edge of both clocks: the next word comes, one ahead of the word in ser_reg.
LEMMA NextWord ==
    ASSUME phase = 0, phase' = 4, start \in 0..4, Load \/ Shift, Leaves,
           NEW n \in 0..(WordNumbers - 1), NEW s \in BOOLEAN,
           dataIn = [lane \in Lane |-> Bits(lane, n, s)], Shifting(n)
    PROVE  Shifting((n + 1) % WordNumbers)'
<1> DEFINE next == (n + 1) % WordNumbers
<1>1. CASE Load
  <2>1. start = 0 /\ start' = 4
    BY <1>1 DEF Load
  <2>2. ser' = Shifted(n, s)'
    BY <1>1, JustLoaded
  <2>3. InStep(next, n)'
    BY <2>1 DEF InStep
  <2>4. OutHolds(n, s)'
    <3>1. CASE NothingIn(ser)
      BY <3>1, NothingLeaves DEF OutHolds
    <3>2. CASE \E m \in 0..(WordNumbers - 1), t \in BOOLEAN :
                  InStep(n, m) /\ ser = Shifted(m, t) /\ OutHolds(m, t)
      <4>1. PICK m \in 0..(WordNumbers - 1), t \in BOOLEAN :
                  InStep(n, m) /\ ser = Shifted(m, t)
        BY <3>2
      <4>2. n = (m + 1) % WordNumbers
        BY <2>1, <4>1 DEF InStep
      <4> QED
        BY <1>1, <4>1, <4>2, LoadKeepsOut
    <3> QED
      BY <3>1, <3>2 DEF Shifting
  <2> QED
    BY <2>2, <2>3, <2>4 DEF Shifting
<1>2. CASE Shift
  <2>1. start > 0 /\ phase' >= start' /\ ~(phase >= start)
    BY <1>2 DEF Shift
  <2>2. PICK m \in 0..(WordNumbers - 1), t \in BOOLEAN :
                InStep(n, m) /\ ser = Shifted(m, t)
    BY <2>1 DEF Shifting
  <2>3. n = m
    BY <2>1, <2>2 DEF InStep
  <2>4. ser' = Shifted(m, t)' /\ OutHolds(m, t)'
    BY <1>2, <2>2, ShiftedOnce, ShiftKeepsOut
  <2>5. InStep(next, m)'
    BY <2>1, <2>3 DEF InStep
  <2> QED
    BY <2>4, <2>5 DEF Shifting
<1> QED
  BY <1>1, <1>2

LEMMA EdgeKeepsSerialInv ==
    ASSUME SerialInv, NEW cc_swap \in BOOLEAN, Edge(cc_swap) PROVE SerialInv'
<1>1. /\ phase \in 0..4 /\ start \in 0..4 /\ swap \in BOOLEAN
      /\ Load \/ Shift
      /\ Leaves
      /\ Waiting \/ Running
  BY DEF SerialInv, Edge, Leaves
<1>2. start' \in 0..4 /\ phase' \in 0..4 /\ swap' \in BOOLEAN
  BY <1>1 DEF Edge, PixelEdge, Load, Shift
<1>3. CASE phase = 0
  <2>1. /\ phase' = 4 /\ phase' >= start'
        /\ dataIn' = [lane \in Lane |-> Bits(lane, word, swap)]
        /\ word' = (word + 1) % WordNumbers
    BY <1>2, <1>3 DEF Edge, PixelEdge
  <2>2. CASE Waiting
    <3>1. NothingIn(ser') /\ NothingOut'
      BY <1>1, <2>2, ShiftedNothing, NothingLeaves DEF Waiting, Load, NothingIn
    <3>2. word = 0 /\ 0 \in 0..(WordNumbers - 1)
      BY <2>2, WordsAssumption DEF Waiting
    <3>3. Shifting(0)'
      BY <2>1, <3>1 DEF Shifting
    <3>4. Running'
      BY <1>1, <2>1, <3>2, <3>3 DEF Running
    <3> QED
      BY <1>2, <3>4 DEF SerialInv
  <2>3. CASE Running
    <3>1. PICK n \in 0..(WordNumbers - 1), s \in BOOLEAN :
             /\ word = (n + 1) % WordNumbers
             /\ dataIn = [lane \in Lane |-> Bits(lane, n, s)]
             /\ Shifting(n)
      BY <2>3 DEF Running
    <3>2. Shifting((n + 1) % WordNumbers)'
      BY <1>1, <1>3, <2>1, <3>1, NextWord
    <3> DEFINE next == (n + 1) % WordNumbers
    <3>3. /\ next \in 0..(WordNumbers - 1)
          /\ word' = (next + 1) % WordNumbers
          /\ dataIn' = [lane \in Lane |-> Bits(lane, next, swap)]
          /\ Shifting(next)'
      BY <2>1, <3>1, <3>2, NextNumber
    <3> HIDE DEF next
    <3>4. Running'
      BY <1>1, <3>3 DEF Running
    <3> QED
      BY <1>2, <3>4 DEF SerialInv
  <2> QED
    BY <1>1, <2>2, <2>3
<1>4. CASE phase > 0
  <2>1. phase' = phase - 1 /\ UNCHANGED <<dataIn, word, swap>>
    BY <1>4 DEF Edge
  <2>2. CASE Waiting
    <3>1. NothingIn(ser') /\ NothingOut'
      BY <1>1, <2>2, ShiftedNothing, NothingLeaves DEF Waiting, Load, NothingIn
    <3>2. Waiting'
      BY <2>1, <2>2, <3>1 DEF Waiting, NothingIn
    <3> QED
      BY <1>2, <3>2 DEF SerialInv
  <2>3. CASE Running
    <3>1. PICK n \in 0..(WordNumbers - 1), s \in BOOLEAN :
             /\ word = (n + 1) % WordNumbers
             /\ dataIn = [lane \in Lane |-> Bits(lane, n, s)]
             /\ Shifting(n)
      BY <2>3 DEF Running
    <3>2. Shifting(n)'
      BY <1>1, <1>4, <2>1, <3>1, BetweenWords
    <3>3. Running'
      BY <2>1, <3>1, <3>2 DEF Running
    <3> QED
      BY <1>2, <3>3 DEF SerialInv
  <2> QED
    BY <1>1, <2>2, <2>3
<1> QED
  BY <1>1, <1>3, <1>4

LEMMA SpecSerialInv == SerialSpec => []SerialInv
<1>1. SerialInv /\ [SerialNext]_serVars => SerialInv'
  <2>1. CASE SerialNext
    BY <2>1, EdgeKeepsSerialInv DEF SerialNext
  <2>2. CASE UNCHANGED serVars
    BY <2>2 DEF serVars, SerialInv, Waiting, Running, Shifting, InStep, OutHolds,
                NothingOut, NothingIn, Shifted, Sent
  <2> QED
    BY <2>1, <2>2
<1> QED
  BY <1>1, InitSerialInv, PTL DEF SerialSpec

\* A lane that carries something carries the bits in front of those in ser_reg.
LEMMA SentIsDue ==
    ASSUME SerialInv, NEW lane \in Lane, Sent(lane) # Unknown
    PROVE  \E m \in 0..(WordNumbers - 1), s \in BOOLEAN :
              /\ ser = Shifted(m, s)
              /\ \/ /\ start = 4
                    /\ \E k \in 0..(WordNumbers - 1), t \in BOOLEAN :
                          m = (k + 1) % WordNumbers /\ out = Pair(t, k, 8)
                 \/ start < 4 /\ out = Pair(s, m, 2 * (3 - start))
<1>1. ~NothingOut
  BY DEF NothingOut
<1>2. PICK n \in 0..(WordNumbers - 1) : Shifting(n)
  BY <1>1 DEF SerialInv, Waiting, Running
<1> QED
  BY <1>1, <1>2 DEF Shifting, OutHolds

LEMMA EdgeSendsInOrder ==
    ASSUME SerialInv, NEW cc_swap \in BOOLEAN, Edge(cc_swap),
           NEW lane \in Lane, Sent(lane) # Unknown
    PROVE  /\ LanesTogether'
           /\ Follows(Sent(lane), Sent(lane)')
           /\ out'[lane][2] = [Sent(lane)' EXCEPT ![3] = @ + 1]
<1>1. PICK m \in 0..(WordNumbers - 1), s \in BOOLEAN :
              /\ ser = Shifted(m, s)
              /\ \/ /\ start = 4
                    /\ \E k \in 0..(WordNumbers - 1), t \in BOOLEAN :
                          m = (k + 1) % WordNumbers /\ out = Pair(t, k, 8)
                 \/ start < 4 /\ out = Pair(s, m, 2 * (3 - start))
  BY SentIsDue
<1> DEFINE i == 2 * (4 - start)
<1>2. start \in 0..4 /\ Leaves
  BY DEF SerialInv, Edge, Leaves
<1>3. out' = Pair(s, m, i)
  BY <1>1, <1>2, PairLeaves
<1>4. i \in {0, 2, 4, 6, 8}
  BY <1>2
<1>5. \A l \in Lane : /\ out'[l][1] = <<Source(l, s), m, i>>
                      /\ out'[l][2] = <<Source(l, s), m, i + 1>>
  BY <1>3 DEF Pair
<1>6. LanesTogether'
  <2>1. ASSUME NEW l \in Lane
        PROVE  Source(l, s) = CASE l = 0 -> IF s THEN 2 ELSE 0
                                [] l = 1 -> IF s THEN CLOCK ELSE 1
                                [] l = 2 -> IF s THEN 0 ELSE 2
                                [] l = 3 -> IF s THEN 1 ELSE CLOCK
    BY DEF Source, Lane, CLOCK
  <2>2. \A l \in Lane :
           Sent(l)' = <<CASE l = 0 -> IF s THEN 2 ELSE 0
                          [] l = 1 -> IF s THEN CLOCK ELSE 1
                          [] l = 2 -> IF s THEN 0 ELSE 2
                          [] l = 3 -> IF s THEN 1 ELSE CLOCK, m, i>>
    BY <1>5, <2>1 DEF Sent
  <2> HIDE DEF i
  <2> QED
    BY <1>4, <2>2 DEF LanesTogether
<1>7. Follows(Sent(lane), Sent(lane)')
  <2>1. Sent(lane)' = <<Source(lane, s), m, i>>
    BY <1>5 DEF Sent
  <2>2. CASE start = 4
    <3>1. PICK k \in 0..(WordNumbers - 1), t \in BOOLEAN :
                          m = (k + 1) % WordNumbers /\ out = Pair(t, k, 8)
      BY <1>1, <2>2
    <3>2. Sent(lane) = <<Source(lane, t), k, 8>>
      BY <3>1 DEF Pair, Sent
    <3>3. i = 0
      BY <2>2
    <3> QED
      BY <2>1, <3>1, <3>2, <3>3 DEF Follows
  <2>3. CASE start < 4
    <3>1. out = Pair(s, m, 2 * (3 - start))
      BY <1>1, <2>3
    <3>2. Sent(lane) = <<Source(lane, s), m, 2 * (3 - start)>>
      BY <3>1 DEF Pair, Sent
    <3>3. 2 * (3 - start) < 8 /\ 2 * (3 - start) + 2 = i
      BY <1>2
    <3> QED
      BY <2>1, <3>2, <3>3 DEF Follows
  <2> QED
    BY <1>2, <2>2, <2>3
<1>8. out'[lane][2] = [Sent(lane)' EXCEPT ![3] = @ + 1]
  BY <1>4, <1>5 DEF Sent
<1> QED
  BY <1>6, <1>7, <1>8

(* From the first word that reaches it on, a lane carries all ten bits of    *)
(* every word, each once, in order, and the four lanes stay together,        *)
(* wherever clk rises among the edges of clk_x5 and whenever cc_swap changes.*)
THEOREM WordsStayInOrder == SerialSpec => WordsInOrder
<1>1. SerialInv /\ [SerialNext]_serVars =>
         [\A lane \in Lane :
            Sent(lane) # Unknown =>
              /\ LanesTogether'
              /\ Follows(Sent(lane), Sent(lane)')
              /\ out'[lane][2] = [Sent(lane)' EXCEPT ![3] = @ + 1]]_serVars
  BY EdgeSendsInOrder DEF SerialNext
<1> QED
  BY <1>1, SpecSerialInv, PTL DEF SerialSpec, WordsInOrder

=============================================================================
