----------------------------- MODULE SyncGenProofs ----------------------------
(* What video_syncgen promises, for all generics that leave room for an      *)
(* island and all start positions, in four parts: the registers along an     *)
(* active line (SyncGen), the frames and lines a reader is asked for         *)
(* (VideoTiming), the colour bar (ColorBar, in VideoSyncgen), and the islands*)
(* that hdmi_tx sends by the control port (ExtIslandTiming).                 *)
EXTENDS VideoSyncgen, ExtIslandTiming, TLAPS

-----------------------------------------------------------------------------
(* The registers of video_syncgen that are set and cleared along a line are  *)
(* functions of the pixel counter in every line that is not blanked          *)
(* vertically, for all generics that leave room for an island and all start  *)
(* positions.                                                                *)
(*                                                                           *)
(* ActiveLineAligned alone says nothing of the blanked lines and so does not *)
(* survive the end of vertical blanking; LineInv adds what those lines keep: *)
(* the registers of the video side rest, and hblank is only ever low where   *)
(* it should be.                                                             *)
BlankLineRests ==
    /\ vblank => ~request /\ ~vpreamble /\ ~vguard
    /\ ~hblank => Within(hcount, H_START, H_END)

LineInv == SyncTypeOK /\ ActiveLineAligned /\ BlankLineRests

-----------------------------------------------------------------------------
LEMMA WidthValues ==
    /\ PREAMBLE_WIDTH = 8
    /\ GUARDBAND_WIDTH = 2
    /\ ISLANDGAP_WIDTH = 4
    /\ PACKETAREA_WIDTH = 46
BY DEF PREAMBLE_WIDTH, GUARDBAND_WIDTH, ISLANDGAP_WIDTH, PACKETAREA_WIDTH,
       DATA_WIDTH

(* The positions in their order along the line.                              *)
LEMMA LinePositions ==
    ASSUME RoomForIsland
    PROVE  /\ H_TOTAL \in Nat /\ V_TOTAL \in Nat /\ EARLY_REQ \in Nat
           /\ H_SYNC \in Nat /\ V_SYNC \in Nat
           /\ H_START \in Nat /\ H_END \in Nat
           /\ V_START \in Nat /\ V_END \in Nat
           /\ PacketUntil = H_START - 60 /\ PacketUntil > 0
           /\ PreambleFrom = H_START - 10
           /\ GuardFrom = H_START - 2
           /\ PacketFrom = H_END + 4 /\ PacketFrom <= H_TOTAL
           /\ H_START < H_END
           /\ EARLY_REQ < H_START
           /\ 0 < H_TOTAL /\ 0 < V_TOTAL
BY GenericsAssumption, WidthValues
   DEF RoomForIsland, H_START, H_END, V_START, V_END, PacketUntil,
       PreambleFrom, GuardFrom, PacketFrom

LEMMA StartInLine ==
    ASSUME NEW start \in StartPositions
    PROVE  start[1] \in 0..(H_TOTAL - 1) /\ start[2] \in 0..(V_TOTAL - 1)
BY GenericsAssumption

LEMMA InitLineInv == SyncInit => LineInv
BY StartInLine
   DEF SyncInit, LineInv, SyncTypeOK, ActiveLineAligned, BlankLineRests

LEMMA ResetLineInv == SyncReset => LineInv'
BY StartInLine
   DEF SyncReset, LineInv, SyncTypeOK, ActiveLineAligned, BlankLineRests

LEMMA AdvanceInRange ==
    ASSUME LineInv, Advance
    PROVE  /\ hcount' \in 0..(H_TOTAL - 1)
           /\ vcount' \in 0..(V_TOTAL - 1)
           /\ hcount' = IF LineEnd THEN 0 ELSE hcount + 1
BY GenericsAssumption
   DEF LineInv, SyncTypeOK, Advance, LineEnd, LastLine, At

LEMMA EdgeTypes ==
    ASSUME LineInv, NEW scan \in BOOLEAN, VideoEdge(scan)
    PROVE  SyncTypeOK'
<1>1. hcount' \in 0..(H_TOTAL - 1) /\ vcount' \in 0..(V_TOTAL - 1)
  BY AdvanceInRange DEF VideoEdge
<1>2. hsync' \in BOOLEAN /\ csync' \in BOOLEAN /\ hblank' \in BOOLEAN
  BY DEF VideoEdge, Horizontal, SetClear, LineInv, SyncTypeOK, At, LineEnd
<1>3. vsync' \in BOOLEAN /\ vblank' \in BOOLEAN
  BY DEF VideoEdge, Vertical, SetClear, LineInv, SyncTypeOK
<1>4. /\ request' \in BOOLEAN /\ vpreamble' \in BOOLEAN
      /\ vguard' \in BOOLEAN /\ packetArea' \in BOOLEAN
  BY DEF VideoEdge, ActiveLine, BlankLine, SetClear, LineInv, SyncTypeOK, At
<1>5. vsOld' \in BOOLEAN /\ scanIn' \in BOOLEAN /\ scanEna' \in BOOLEAN
  BY DEF VideoEdge, LatchScan, LineInv, SyncTypeOK
<1> QED
  BY <1>1, <1>2, <1>3, <1>4, <1>5 DEF SyncTypeOK

(* A clock inside a line: vblank keeps its value.                            *)
LEMMA InLineKeepsAlignment ==
    ASSUME RoomForIsland, LineInv, NEW scan \in BOOLEAN, VideoEdge(scan),
           ~LineEnd
    PROVE  ActiveLineAligned' /\ BlankLineRests'
<1>1. hcount' = hcount + 1 /\ hcount \in Nat /\ vblank' = vblank
  BY AdvanceInRange DEF VideoEdge, Vertical, LineInv, SyncTypeOK
<1>2. /\ ~hblank' => Within(hcount', H_START, H_END)
      /\ ~vblank => hblank' <=> ~Within(hcount', H_START, H_END)
  <2>1. hblank' <=> ~(hcount = H_START - 1 \/ (~hblank /\ ~(hcount = H_END - 1)))
    BY DEF VideoEdge, Horizontal, SetClear, At
  <2>2. ~hblank => Within(hcount, H_START, H_END)
    BY DEF LineInv, BlankLineRests
  <2>3. ~vblank => (hblank <=> ~Within(hcount, H_START, H_END))
    BY DEF LineInv, ActiveLineAligned
  <2> QED
    BY <1>1, <2>1, <2>2, <2>3, LinePositions DEF Within
<1>3. CASE vblank
  BY <1>1, <1>2, <1>3
     DEF VideoEdge, ActiveLine, BlankLine, LineInv, ActiveLineAligned,
         BlankLineRests, Within
<1>4. CASE ~vblank
  <2>1. ActiveLine
    BY <1>4 DEF VideoEdge, BlankLine
  <2>2. request' <=> Within(hcount', H_START - EARLY_REQ, H_END - EARLY_REQ)
    BY <1>1, <1>4, <2>1, LinePositions
       DEF ActiveLine, SetClear, At, LineInv, SyncTypeOK, ActiveLineAligned,
           Within
  <2>3. /\ vpreamble' <=> Within(hcount', PreambleFrom, GuardFrom)
        /\ vguard' <=> Within(hcount', GuardFrom, H_START)
    BY <1>1, <1>4, <2>1, LinePositions
       DEF ActiveLine, SetClear, At, LineInv, SyncTypeOK, ActiveLineAligned,
           Within
  <2>4. packetArea' <=> ~Within(hcount', PacketUntil, PacketFrom)
    BY <1>1, <1>4, <2>1, LinePositions
       DEF ActiveLine, SetClear, At, LineInv, SyncTypeOK, ActiveLineAligned,
           Within
  <2> QED
    BY <1>1, <1>2, <1>4, <2>2, <2>3, <2>4, Zenon
       DEF ActiveLineAligned, BlankLineRests, Within
<1> QED
  BY <1>3, <1>4

(* The last clock of a line: everything the video side drives has come to    *)
(* rest, whatever vblank does.                                               *)
LEMMA LineEndRests ==
    ASSUME RoomForIsland, LineInv, NEW scan \in BOOLEAN, VideoEdge(scan),
           LineEnd
    PROVE  /\ hcount' = 0
           /\ ~request' /\ ~vpreamble' /\ ~vguard' /\ packetArea'
<1>1. hcount' = 0 /\ hcount = H_TOTAL - 1
  BY AdvanceInRange DEF VideoEdge, LineEnd, At
<1>2. CASE vblank
  BY <1>1, <1>2 DEF VideoEdge, ActiveLine, BlankLine, LineInv, BlankLineRests
<1>3. CASE ~vblank
  BY <1>1, <1>3, LinePositions
     DEF VideoEdge, ActiveLine, BlankLine, SetClear, At, LineInv,
         SyncTypeOK, ActiveLineAligned, Within
<1> QED
  BY <1>2, <1>3

LEMMA LineEndKeepsAlignment ==
    ASSUME RoomForIsland, LineInv, NEW scan \in BOOLEAN, VideoEdge(scan),
           LineEnd
    PROVE  ActiveLineAligned' /\ BlankLineRests'
<1>1. hcount' = 0 /\ hcount = H_TOTAL - 1
  BY AdvanceInRange DEF VideoEdge, LineEnd, At
<1>2. hblank' = TRUE
  BY <1>1, LinePositions
     DEF VideoEdge, Horizontal, SetClear, At, LineInv, SyncTypeOK,
         BlankLineRests, Within
<1>3. ~request' /\ ~vpreamble' /\ ~vguard' /\ packetArea'
  BY LineEndRests
<1> QED
  BY <1>1, <1>2, <1>3, LinePositions
     DEF ActiveLineAligned, BlankLineRests, Within

LEMMA EdgeKeepsLineInv ==
    ASSUME RoomForIsland, LineInv, NEW scan \in BOOLEAN, VideoEdge(scan)
    PROVE  LineInv'
BY EdgeTypes, InLineKeepsAlignment, LineEndKeepsAlignment DEF LineInv

-----------------------------------------------------------------------------
(* What a frame reader is promised by VideoTiming!Spec: registers in their   *)
(* place in every active line, whole frames, and lines announced before their*)
(* pixels are asked for.                                                     *)
(*                                                                           *)
(* WholeFrames speaks of the end of a frame and LinesAnnounced of the middle *)
(* of a line; FrameInv says what the observers hold at every place of the    *)
(* raster.  The key is VerticalSeen: scan_ena is only latched in the first   *)
(* pixel of the screen, where vblank is set whatever the start position was, *)
(* so that a frame that is read is read with vblank locked to vcount.        *)
InPicture(line) == Within(line, V_START, V_END)

\* The generic that makes sense of framestart: not in the middle of a picture.
FrameTopOutside == ~InPicture(FRAME_TOP)

(* The vertical registers: never ahead of the line counter, and locked to it *)
(* when a frame is read, since scan_ena is latched in the first pixel of the *)
(* screen only.                                                              *)
VerticalSeen ==
    /\ hsync => hcount < H_SYNC
    /\ vsync => vcount < V_SYNC
    /\ vsyncRise => hcount = 0 /\ vcount = 0
    /\ scanEna /\ hcount = 0 /\ vcount = 0 => vsyncRise
    /\ ~vblank => InPicture(vcount)
    /\ scanEna /\ vblank => ~InPicture(vcount)

\* Pixels of a line that were requested before this place of it.
Requested ==
    IF hcount <= H_START - EARLY_REQ THEN 0
    ELSE IF hcount < H_END - EARLY_REQ THEN hcount - (H_START - EARLY_REQ)
    ELSE H_ACTIVE

(* How many pixels of the frame have been requested is known at each place.  *)
PixelsSeen ==
    pixels = IF ~scanEna THEN 0
             ELSE IF hcount = 0 /\ vcount = 0 THEN H_ACTIVE * V_ACTIVE
             ELSE IF vcount < V_START THEN 0
             ELSE IF vcount < V_END
                  THEN (vcount - V_START) * H_ACTIVE + Requested
             ELSE H_ACTIVE * V_ACTIVE

\* No line has been announced since framestart.
Fresh ==
    IF FRAME_TOP < V_START THEN FRAME_TOP <= vcount /\ vcount < V_START
                           ELSE FRAME_TOP <= vcount \/ vcount < V_START

(* A line of a frame that is read has been announced from its first clock on.*)
LinesSeen ==
    \A sig \in StartSigs :
        IF InPicture(vcount)
        THEN lines[sig] = IF scanEna THEN vcount - V_START + 1 ELSE 0
        ELSE lines[sig] = 0 \/ (lines[sig] = V_ACTIVE /\ ~Fresh)

FrameInv ==
    /\ LineInv
    /\ hsOld \in BOOLEAN
    /\ lines \in [StartSigs -> Int]
    /\ VerticalSeen
    /\ PixelsSeen
    /\ LinesSeen

-----------------------------------------------------------------------------
LEMMA FramePositions ==
    /\ H_TOTAL \in Nat /\ H_SYNC \in Nat /\ H_START \in Nat /\ H_END \in Nat
    /\ H_ACTIVE \in Nat /\ EARLY_REQ \in Nat
    /\ 0 < H_SYNC /\ H_SYNC <= H_START /\ EARLY_REQ < H_START
    /\ 0 < H_ACTIVE /\ H_END = H_START + H_ACTIVE /\ H_END + 4 <= H_TOTAL
    /\ V_TOTAL \in Nat /\ V_SYNC \in Nat /\ V_START \in Nat /\ V_END \in Nat
    /\ V_ACTIVE \in Nat /\ FRAME_TOP \in Nat /\ FRAME_TOP < V_TOTAL
    /\ 0 < V_SYNC /\ V_SYNC <= V_START
    /\ 0 < V_ACTIVE /\ V_END = V_START + V_ACTIVE /\ V_END <= V_TOTAL
BY GenericsAssumption, RoomAssumption, FrameTopAssumption, WidthValues
   DEF RoomForIsland, H_START, H_END, V_START, V_END

(* One edge, as far as it matters to the frames.                             *)
LEMMA FrameEdge ==
    ASSUME FrameInv, NEW scan \in BOOLEAN, Clock(scan)
    PROVE  /\ hcount \in Nat /\ hcount < H_TOTAL
           /\ vcount \in Nat /\ vcount < V_TOTAL
           /\ LineEnd <=> hcount = H_TOTAL - 1
           /\ hcount' = IF LineEnd THEN 0 ELSE hcount + 1
           /\ vcount' = IF ~LineEnd THEN vcount
                        ELSE IF vcount = V_TOTAL - 1 THEN 0
                        ELSE vcount + 1
           /\ hsync' <=> LineEnd \/ (hsync /\ hcount # H_SYNC - 1)
           /\ ~LineEnd => (vsync' <=> vsync) /\ (vblank' <=> vblank)
           /\ LineEnd =>
                /\ vsync' <=> \/ vcount = V_TOTAL - 1
                              \/ vsync /\ vcount # V_SYNC - 1
                /\ ~vblank' <=> \/ vcount = V_START - 1
                                \/ ~vblank /\ vcount # V_END - 1
           /\ (vsOld' <=> vsync) /\ (hsOld' <=> hsync)
           /\ scanEna' <=> IF vsyncRise THEN scanIn ELSE scanEna
<1> USE DEF FrameInv, LineInv, SyncTypeOK, LineEnd, LastLine, At, SetClear
<1>1. /\ hcount \in 0..(H_TOTAL - 1) /\ vcount \in 0..(V_TOTAL - 1)
      /\ VideoEdge(scan) /\ hsOld' = hsync
  BY DEF Clock
<1>2. hcount \in Nat /\ hcount < H_TOTAL /\ vcount \in Nat /\ vcount < V_TOTAL
  BY <1>1, FramePositions
<1>3. /\ hcount' = IF LineEnd THEN 0 ELSE hcount + 1
      /\ vcount' = IF ~LineEnd THEN vcount
                   ELSE IF vcount = V_TOTAL - 1 THEN 0
                   ELSE vcount + 1
  BY <1>1 DEF VideoEdge, Advance
<1>4. hsync' <=> LineEnd \/ (hsync /\ hcount # H_SYNC - 1)
  BY <1>1 DEF VideoEdge, Horizontal
<1>5. ~LineEnd => (vsync' <=> vsync) /\ (vblank' <=> vblank)
  BY <1>1 DEF VideoEdge, Vertical
<1>6. LineEnd => vsync' <=> \/ vcount = V_TOTAL - 1
                            \/ vsync /\ vcount # V_SYNC - 1
  BY <1>1 DEF VideoEdge, Vertical
<1>7. LineEnd => ~vblank' <=> \/ vcount = V_START - 1
                              \/ ~vblank /\ vcount # V_END - 1
  BY <1>1 DEF VideoEdge, Vertical
<1>8. /\ (vsOld' <=> vsync) /\ (hsOld' <=> hsync)
      /\ scanEna' <=> IF vsyncRise THEN scanIn ELSE scanEna
  BY <1>1 DEF VideoEdge, LatchScan
<1> QED
  BY <1>2, <1>3, <1>4, <1>5, <1>6, <1>7, <1>8

LEMMA EdgeKeepsVerticalSeen ==
    ASSUME FrameInv, NEW scan \in BOOLEAN, Clock(scan)
    PROVE  VerticalSeen'
<1> USE FrameEdge, FramePositions
<1>1. VerticalSeen
  BY DEF FrameInv
<1>2. (hsync => hcount < H_SYNC)'
  BY <1>1 DEF VerticalSeen
<1>3. (vsync => vcount < V_SYNC)'
  BY <1>1 DEF VerticalSeen
<1>4. (vsyncRise => hcount = 0 /\ vcount = 0)'
  BY <1>1 DEF VerticalSeen, vsyncRise
<1>5. (scanEna /\ hcount = 0 /\ vcount = 0 => vsyncRise)'
  BY <1>1 DEF VerticalSeen, vsyncRise
<1>6. (~vblank => InPicture(vcount))'
  BY <1>1 DEF VerticalSeen, InPicture, Within, V_START, V_END
<1>7. (scanEna /\ vblank => ~InPicture(vcount))'
  BY <1>1 DEF VerticalSeen, InPicture, Within, V_START, V_END
<1> QED
  BY <1>2, <1>3, <1>4, <1>5, <1>6, <1>7 DEF VerticalSeen

LEMMA NextRow ==
    ASSUME NEW m \in Nat, NEW n \in Nat
    PROVE  /\ m * n \in Nat /\ (m + 1) * n = m * n + n
           /\ 0 * n = 0 /\ m * n = n * m
OBVIOUS

(* The quotient of a place in a picture by the length of its rows.           *)
LEMMA RowOf ==
    ASSUME NEW m \in Nat, NEW n \in Nat, NEW k \in Nat, k < n
    PROVE  (m * n + k) \div n = m
<1>1. m * n \in Nat
  OBVIOUS
<1> DEFINE q == (m * n + k) \div n
<1>2. q \in Nat /\ n * q <= m * n + k /\ m * n + k < n * q + n
  BY <1>1
<1> HIDE DEF q
<1>3. CASE q < m
  <2>1. n * (m - q) >= n
    BY <1>2, <1>3
  <2>2. n * (m - q) = m * n - n * q
    BY <1>2
  <2>3. n * q \in Nat
    BY <1>2
  <2> QED
    BY <1>1, <1>2, <2>1, <2>2, <2>3
<1>4. CASE q > m
  <2>1. n * (q - m) >= n
    BY <1>2, <1>4
  <2>2. n * (q - m) = n * q - m * n
    BY <1>2
  <2>3. n * q \in Nat
    BY <1>2
  <2> QED
    BY <1>1, <1>2, <2>1, <2>2, <2>3
<1>5. q = m
  BY <1>2, <1>3, <1>4
<1> QED
  BY <1>5 DEF q

LEMMA EdgeKeepsPixelsSeen ==
    ASSUME FrameInv, NEW scan \in BOOLEAN, Clock(scan)
    PROVE  PixelsSeen'
<1> USE FramePositions
<1>1. VerticalSeen /\ PixelsSeen
  BY DEF FrameInv
<1>2. pixels' = IF vsyncRise THEN 0
                ELSE IF pixrequest THEN pixels + 1
                ELSE pixels
  BY DEF Clock, ObserveReader
<1>3. PixelsSeen' <=>
          pixels' = IF ~scanEna' THEN 0
                    ELSE IF hcount' = 0 /\ vcount' = 0
                         THEN H_ACTIVE * V_ACTIVE
                    ELSE IF vcount' < V_START THEN 0
                    ELSE IF vcount' < V_END
                         THEN (vcount' - V_START) * H_ACTIVE + Requested'
                    ELSE H_ACTIVE * V_ACTIVE
  BY DEF PixelsSeen, V_START, V_END
<1>4. CASE vsyncRise
  <2>1. hcount' = 1 /\ vcount' = 0
    BY <1>1, <1>4, FrameEdge DEF VerticalSeen
  <2> QED
    BY <1>2, <1>3, <1>4, <2>1
<1>5. CASE ~vsyncRise /\ ~scanEna
  <2>1. ~scanEna' /\ pixels = 0
    BY <1>1, <1>5, FrameEdge DEF PixelsSeen
  <2> QED
    BY <1>2, <1>3, <1>5, <2>1 DEF pixrequest
<1>6. CASE ~vsyncRise /\ scanEna /\ ~InPicture(vcount)
  <2>1. vblank /\ ~request
    BY <1>1, <1>6
       DEF VerticalSeen, FrameInv, LineInv, SyncTypeOK, BlankLineRests
  <2>2. /\ ~(hcount = 0 /\ vcount = 0) /\ scanEna'
        /\ pixels' = pixels
    BY <1>1, <1>2, <1>6, <2>1, FrameEdge DEF VerticalSeen, pixrequest
  <2>3. pixels = IF vcount < V_START THEN 0 ELSE H_ACTIVE * V_ACTIVE
    BY <1>1, <1>6, <2>2, FrameEdge DEF PixelsSeen, InPicture, Within
  <2>4. CASE ~LineEnd
    <3>1. hcount' # 0 /\ vcount' = vcount
      BY <2>4, FrameEdge
    <3> QED
      BY <1>3, <1>6, <2>2, <2>3, <3>1, FrameEdge DEF InPicture, Within
  <2>5. CASE LineEnd /\ vcount < V_START
    <3>1. hcount' = 0 /\ vcount' = vcount + 1 /\ vcount' <= V_START
      BY <2>5, FrameEdge
    <3>2. Requested' = 0
      BY <3>1 DEF Requested, H_START
    <3>3. (V_START - V_START) * H_ACTIVE = 0
      BY NextRow
    <3> QED
      BY <1>3, <2>2, <2>3, <2>5, <3>1, <3>2, <3>3, FrameEdge
  <2>6. CASE LineEnd /\ vcount >= V_END
    <3>1. hcount' = 0 /\ (vcount' = 0 \/ vcount' >= V_END)
      BY <2>6, FrameEdge
    <3> QED
      BY <1>3, <2>2, <2>3, <2>6, <3>1, FrameEdge
  <2> QED
    BY <1>6, <2>4, <2>5, <2>6, FrameEdge DEF InPicture, Within
<1>7. CASE ~vsyncRise /\ scanEna /\ InPicture(vcount)
  <2> DEFINE row == vcount - V_START
  <2>1. row \in Nat /\ row < V_ACTIVE /\ row * H_ACTIVE \in Nat
    BY <1>7, FrameEdge, NextRow DEF InPicture, Within
  <2>2. ~vblank /\ scanEna'
    BY <1>1, <1>7, FrameEdge DEF VerticalSeen
  <2>3. request <=> Within(hcount, H_START - EARLY_REQ, H_END - EARLY_REQ)
    BY <2>2 DEF FrameInv, LineInv, ActiveLineAligned
  <2>4. pixels = row * H_ACTIVE + Requested
    BY <1>1, <1>7, FrameEdge DEF PixelsSeen, InPicture, Within
  <2>5. pixels' = IF request THEN pixels + 1 ELSE pixels
    BY <1>2, <1>7 DEF pixrequest
  <2>6. CASE ~LineEnd
    <3>1. hcount' = hcount + 1 /\ vcount' = vcount
      BY <2>6, FrameEdge
    <3>2. Requested' = IF request THEN Requested + 1 ELSE Requested
      BY <2>3, <3>1, FrameEdge DEF Requested, Within, H_START, H_END
    <3>3. Requested \in Nat
      BY FrameEdge DEF Requested
    <3>4. pixels' = row * H_ACTIVE + Requested'
      BY <2>1, <2>4, <2>5, <3>2, <3>3
    <3> QED
      BY <1>3, <1>7, <2>2, <3>1, <3>4, FrameEdge DEF InPicture, Within
  <2>7. CASE LineEnd
    <3>1. Requested = H_ACTIVE /\ ~request
      BY <2>3, <2>7, FrameEdge DEF Requested, Within
    <3>2. pixels' = (row + 1) * H_ACTIVE
      BY <2>1, <2>4, <2>5, <3>1, NextRow
    <3>3. hcount' = 0
      BY <2>7, FrameEdge
    <3>4. CASE row + 1 < V_ACTIVE
      <4>1. vcount' = vcount + 1 /\ vcount' < V_END /\ vcount' > V_START
        BY <2>1, <2>7, <3>4, FrameEdge
      <4>2. Requested' = 0
        BY <3>3 DEF Requested, H_START
      <4>3. vcount' - V_START = row + 1
        BY <2>1, <4>1, FrameEdge
      <4>4. (row + 1) * H_ACTIVE \in Nat
        BY <2>1, NextRow
      <4> QED
        BY <1>3, <2>2, <3>2, <4>1, <4>2, <4>3, <4>4
    <3>5. CASE row + 1 = V_ACTIVE
      <4>1. vcount' = 0 \/ vcount' = V_END
        BY <2>1, <2>7, <3>5, FrameEdge
      <4>2. pixels' = H_ACTIVE * V_ACTIVE
        BY <3>2, <3>5, NextRow
      <4> QED
        BY <1>3, <2>2, <3>3, <4>1, <4>2
    <3> QED
      BY <2>1, <3>4, <3>5
  <2> QED
    BY <2>6, <2>7
<1> QED
  BY <1>4, <1>5, <1>6, <1>7

(* framestart and linestart only rise where a line begins, in either form.   *)
LEMMA PulsesBegin ==
    ASSUME FrameInv, NEW scan \in BOOLEAN, Clock(scan), NEW sig \in StartSigs
    PROVE  /\ frameRises(sig) <=> LineEnd /\ vcount' = FRAME_TOP
           /\ lineRises(sig) <=> LineEnd /\ scanEna' /\ ~vblank'
<1> USE FramePositions, FrameEdge
<1>1. VerticalSeen
  BY DEF FrameInv
<1>2. sig = "SINGLE" \/ sig = "WIDTH"
  BY DEF StartSigs
<1>3. CASE LineEnd
  <2>1. ~hsync /\ hsync' /\ ~hsOld' /\ hcount # 0 /\ hcount' = 0
    BY <1>1, <1>3 DEF VerticalSeen
  <2>2. ~framestart(sig) /\ ~linestart(sig)
    BY <2>1 DEF framestart, linestart, hsyncRise, At
  <2>3. framestart(sig)' <=> vcount' = FRAME_TOP
    BY <2>1 DEF framestart, At
  <2>4. linestart(sig)' <=> scanEna' /\ ~vblank'
    BY <2>1 DEF linestart, hsyncRise
  <2> QED
    BY <1>3, <2>2, <2>3, <2>4 DEF frameRises, lineRises
<1>4. CASE ~LineEnd
  <2>1. hcount' # 0 /\ vcount' = vcount /\ (hsync' => hsync) /\ (hsOld' <=> hsync)
    BY <1>4
  <2>2. framestart(sig)' => framestart(sig)
    BY <1>2, <2>1 DEF framestart, At
  <2>3. scanEna' /\ ~vblank' => scanEna
    BY <1>1, <1>4 DEF VerticalSeen, InPicture, Within
  <2>4. linestart(sig)' => linestart(sig)
    BY <1>2, <1>4, <2>1, <2>3 DEF linestart, hsyncRise
  <2> QED
    BY <1>4, <2>2, <2>4 DEF frameRises, lineRises
<1> QED
  BY <1>3, <1>4

LEMMA EdgeKeepsLinesSeen ==
    ASSUME FrameInv, FrameTopOutside, NEW scan \in BOOLEAN, Clock(scan)
    PROVE  lines' \in [StartSigs -> Int] /\ LinesSeen'
<1> USE FramePositions, FrameEdge
<1>1. VerticalSeen /\ LinesSeen
  BY DEF FrameInv
<1>2. \A sig \in StartSigs :
          lines'[sig] = IF LineEnd /\ vcount' = FRAME_TOP THEN 0
                        ELSE IF LineEnd /\ scanEna' /\ ~vblank'
                             THEN lines[sig] + 1
                        ELSE lines[sig]
  BY PulsesBegin DEF Clock, ObserveReader
<1>3. lines' \in [StartSigs -> Int]
  BY DEF Clock, ObserveReader, FrameInv
<1>4. ASSUME NEW sig \in StartSigs
      PROVE  IF InPicture(vcount')
             THEN lines'[sig] = IF scanEna' THEN vcount' - V_START + 1 ELSE 0
             ELSE lines'[sig] = 0 \/ (lines'[sig] = V_ACTIVE /\ ~Fresh')
  <2>1. IF InPicture(vcount)
        THEN lines[sig] = IF scanEna THEN vcount - V_START + 1 ELSE 0
        ELSE lines[sig] = 0 \/ (lines[sig] = V_ACTIVE /\ ~Fresh)
    BY <1>1 DEF LinesSeen
  <2>2. FRAME_TOP < V_START \/ FRAME_TOP >= V_END
    BY DEF FrameTopOutside, InPicture, Within
  <2>3. CASE ~LineEnd
    <3>1. vcount' = vcount /\ lines'[sig] = lines[sig]
      BY <1>2, <2>3
    <3>2. InPicture(vcount) => (scanEna' <=> scanEna)
      BY <1>1 DEF VerticalSeen, InPicture, Within
    <3>3. Fresh' <=> Fresh
      BY <3>1 DEF Fresh, V_START
    <3> QED
      BY <2>1, <3>1, <3>2, <3>3
  <2>4. CASE LineEnd /\ ~InPicture(vcount) /\ ~InPicture(vcount')
    <3>1. lines'[sig] = IF vcount' = FRAME_TOP THEN 0 ELSE lines[sig]
      <4>1. vblank'
        BY <1>1, <2>4 DEF VerticalSeen, InPicture, Within
      <4> QED
        BY <1>2, <2>4, <4>1
    <3>2. Fresh' /\ vcount' # FRAME_TOP => Fresh
      BY <2>2, <2>4 DEF Fresh, InPicture, Within, V_START
    <3> QED
      BY <2>1, <2>4, <3>1, <3>2
  <2>5. CASE LineEnd /\ ~InPicture(vcount) /\ InPicture(vcount')
    <3>1. vcount = V_START - 1 /\ vcount' = V_START /\ ~vblank'
      BY <2>5 DEF InPicture, Within
    <3>2. Fresh /\ vcount' # FRAME_TOP
      BY <2>2, <2>5, <3>1 DEF Fresh, InPicture, Within
    <3>3. lines[sig] = 0
      BY <2>1, <2>5, <3>2
    <3> QED
      BY <1>2, <2>5, <3>1, <3>2, <3>3
  <2>6. CASE LineEnd /\ InPicture(vcount) /\ InPicture(vcount')
    <3>1. /\ vcount' = vcount + 1 /\ vcount' # FRAME_TOP
          /\ vblank' <=> vblank
      BY <2>2, <2>6 DEF InPicture, Within
    <3>2. ~vsyncRise
      BY <1>1, <2>6 DEF VerticalSeen
    <3>3. (scanEna' <=> scanEna) /\ (scanEna => ~vblank)
      BY <1>1, <2>6, <3>2 DEF VerticalSeen
    <3> QED
      BY <1>2, <2>1, <2>6, <3>1, <3>3
  <2>7. CASE LineEnd /\ InPicture(vcount) /\ ~InPicture(vcount')
    <3>1. vcount = V_END - 1 /\ vblank'
      BY <1>1, <2>7 DEF VerticalSeen, InPicture, Within
    <3>2. lines[sig] = 0 \/ lines[sig] = V_ACTIVE
      BY <2>1, <2>7, <3>1
    <3>3. Fresh' => vcount' = FRAME_TOP
      BY <2>2, <2>7, <3>1 DEF Fresh, InPicture, Within, V_START
    <3> QED
      BY <1>2, <2>7, <3>1, <3>2, <3>3
  <2> QED
    BY <2>3, <2>4, <2>5, <2>6, <2>7
<1> QED
  BY <1>3, <1>4 DEF LinesSeen, InPicture, V_START, V_END

LEMMA StartIsFrameInv ==
    ASSUME LineInv, ~hsync, ~vsync, ~vsOld, ~scanEna, vblank,
           hsOld = FALSE, pixels = 0, lines = [sig \in StartSigs |-> 0]
    PROVE  FrameInv
<1>1. VerticalSeen
  BY DEF VerticalSeen, vsyncRise
<1>2. PixelsSeen
  BY DEF PixelsSeen
<1>3. LinesSeen
  BY DEF LinesSeen
<1>4. hsOld \in BOOLEAN
  BY Zenon
<1>5. lines \in [StartSigs -> Int]
  OBVIOUS
<1> QED
  BY <1>1, <1>2, <1>3, <1>4, <1>5 DEF FrameInv

LEMMA StartIsFrameInvNext ==
    (LineInv /\ ~hsync /\ ~vsync /\ ~vsOld /\ ~scanEna /\ vblank
        /\ hsOld = FALSE /\ pixels = 0 /\ lines = [sig \in StartSigs |-> 0]
        => FrameInv)'
BY StartIsFrameInv, PTL

LEMMA ClockKeepsFrameInv ==
    ASSUME FrameTopOutside, FrameInv, NEW scan \in BOOLEAN, Clock(scan)
    PROVE  FrameInv'
<1>1. LineInv'
  BY RoomAssumption, EdgeKeepsLineInv DEF Clock, FrameInv
<1>2. hsOld' \in BOOLEAN
  BY DEF Clock, FrameInv, LineInv, SyncTypeOK
<1> QED
  BY <1>1, <1>2, EdgeKeepsVerticalSeen, EdgeKeepsPixelsSeen,
     EdgeKeepsLinesSeen DEF FrameInv

LEMMA SpecFrameInv == ASSUME FrameTopOutside PROVE Spec => []FrameInv
<1>1. Init => FrameInv
  BY InitLineInv, StartIsFrameInv DEF Init, SyncInit
<1>2. FrameInv /\ [Next]_timingVars => FrameInv'
  <2> SUFFICES ASSUME FrameInv, [Next]_timingVars
               PROVE  FrameInv'
    OBVIOUS
  <2>1. ASSUME NEW scan \in BOOLEAN, Clock(scan)
        PROVE  FrameInv'
    BY <2>1, ClockKeepsFrameInv
  <2>2. CASE Reset
    BY <2>2, ResetLineInv, StartIsFrameInvNext DEF Reset, SyncReset
  <2>3. CASE UNCHANGED timingVars
    BY <2>3
       DEF timingVars, syncVars, FrameInv, LineInv, SyncTypeOK,
           ActiveLineAligned, BlankLineRests, Within, VerticalSeen, vsyncRise,
           InPicture, PixelsSeen, Requested, LinesSeen, Fresh
  <2> QED
    BY <2>1, <2>2, <2>3 DEF Next, InClock
<1> QED
  BY <1>1, <1>2, PTL DEF Spec


LEMMA SpecLineInv == Spec => []LineInv
<1>1. Init => LineInv
  BY InitLineInv DEF Init
<1>2. LineInv /\ [Next]_timingVars => LineInv'
  <2> SUFFICES ASSUME LineInv, [Next]_timingVars
               PROVE  LineInv'
    OBVIOUS
  <2>1. ASSUME NEW scan \in BOOLEAN, Clock(scan)
        PROVE  LineInv'
    BY <2>1, RoomAssumption, EdgeKeepsLineInv DEF Clock
  <2>2. CASE Reset
    BY <2>2, ResetLineInv DEF Reset
  <2>3. CASE UNCHANGED timingVars
    BY <2>3
       DEF timingVars, syncVars, LineInv, SyncTypeOK, ActiveLineAligned,
           BlankLineRests, Within
  <2> QED
    BY <2>1, <2>2, <2>3 DEF Next, InClock
<1> QED
  BY <1>1, <1>2, PTL DEF Spec

(* In every active line, from every start position and for all generics with *)
(* room for an island, active, pixrequest, the video preamble, the guard     *)
(* band and the packet area of video_syncgen are where the pixel counter     *)
(* puts them.                                                                *)
THEOREM ActiveLinesAreAligned == Spec => []ActiveLineAligned
<1>1. LineInv => ActiveLineAligned
  BY DEF LineInv
<1> QED
  BY <1>1, SpecLineInv, PTL

(* A frame reader that counts pixels and lines is never off: when a pixel is *)
(* requested, linestart has announced its line and no other, in both forms of*)
(* the pulses, whenever scan_ena changes.  framestart must not lie in the    *)
(* middle of the picture, which no assertion of the source demands.          *)
THEOREM EachLineIsAnnounced ==
    ASSUME FrameTopOutside PROVE Spec => []LinesAnnounced
<1>1. FrameInv => LinesAnnounced
  <2> SUFFICES ASSUME FrameInv, pixrequest, NEW sig \in StartSigs
               PROVE  lines[sig] = pixels \div H_ACTIVE + 1
    BY DEF LinesAnnounced
  <2> USE FramePositions
  <2>1. scanEna /\ request /\ ~vblank
    BY DEF pixrequest, FrameInv, LineInv, SyncTypeOK, BlankLineRests
  <2>2. InPicture(vcount) /\ vcount \in Nat /\ hcount \in Nat
    BY <2>1 DEF FrameInv, VerticalSeen, LineInv, SyncTypeOK
  <2>3. Within(hcount, H_START - EARLY_REQ, H_END - EARLY_REQ)
    BY <2>1 DEF FrameInv, LineInv, ActiveLineAligned
  <2>4. Requested \in Nat /\ Requested < H_ACTIVE
    BY <2>2, <2>3 DEF Requested, Within
  <2>5. pixels = (vcount - V_START) * H_ACTIVE + Requested
    BY <2>1, <2>2 DEF FrameInv, PixelsSeen, InPicture, Within
  <2>6. vcount - V_START \in Nat
    BY <2>2 DEF InPicture, Within
  <2>7. pixels \div H_ACTIVE = vcount - V_START
    BY <2>4, <2>5, <2>6, RowOf
  <2> QED
    BY <2>1, <2>2, <2>7 DEF FrameInv, LinesSeen
<1> QED
  BY <1>1, SpecFrameInv, PTL

(* The reader is asked for a whole frame or for none of it, in pixels and in *)
(* lines, whenever the asynchronous scan_ena changes and wherever the        *)
(* counters have started.                                                    *)
THEOREM FramesAreWhole == ASSUME FrameTopOutside PROVE Spec => WholeFrames
<1>1. ASSUME FrameInv, NEW scan \in BOOLEAN, Clock(scan)
      PROVE  /\ vsyncRise => pixels \in {0, H_ACTIVE * V_ACTIVE}
             /\ \A sig \in StartSigs :
                   frameRises(sig) => lines[sig] \in {0, V_ACTIVE}
  <2> USE FramePositions
  <2>1. vsyncRise => pixels \in {0, H_ACTIVE * V_ACTIVE}
    BY <1>1 DEF FrameInv, VerticalSeen, PixelsSeen
  <2>2. ASSUME NEW sig \in StartSigs, frameRises(sig)
        PROVE  lines[sig] \in {0, V_ACTIVE}
    <3>1. LineEnd /\ vcount' = FRAME_TOP
      BY <1>1, <2>2, PulsesBegin
    <3>2. ~InPicture(vcount) \/ vcount = V_END - 1
      BY <1>1, <3>1, FrameEdge DEF FrameTopOutside, InPicture, Within
    <3> QED
      BY <1>1, <2>2, <3>2 DEF FrameInv, LinesSeen
  <2> QED
    BY <2>1, <2>2
<1>2. FrameInv
          => [InClock =>
                 /\ vsyncRise => pixels \in {0, H_ACTIVE * V_ACTIVE}
                 /\ \A sig \in StartSigs :
                       frameRises(sig)
                           => lines[sig] \in {0, V_ACTIVE}]_timingVars
  BY <1>1 DEF InClock
<1> QED
  BY <1>2, SpecFrameInv, PTL DEF WholeFrames

LEMMA RowFits ==
    ASSUME NEW m \in Nat, NEW n \in Nat, NEW v \in Nat, NEW k \in Nat, m < v, k <= n
    PROVE  m * n + k \in 0..(n * v)
<1>1. n * v = n * m + n * (v - m) /\ n * m = m * n
  OBVIOUS
<1>2. n * (v - m) >= n
  <2>1. v - m - 1 \in Nat /\ n * (v - m - 1) >= 0
    OBVIOUS
  <2>2. n * (v - m) = n * (v - m - 1) + n
    BY <2>1
  <2> QED
    BY <2>1, <2>2
<1>3. m * n \in Nat /\ n * v \in Nat /\ n * (v - m) \in Int
  OBVIOUS
<1> QED
  BY <1>1, <1>2, <1>3

(* The observers never count more than a frame: the reader is not asked for  *)
(* more pixels than the picture has between two vertical syncs, nor told of  *)
(* more lines.                                                               *)
THEOREM FramesNotExceeded == ASSUME FrameTopOutside PROVE Spec => []TypeOK
<1>1. ASSUME FrameInv PROVE TypeOK
  <2> USE <1>1, FramePositions
  <2>1. /\ hcount \in 0..(H_TOTAL - 1) /\ vcount \in 0..(V_TOTAL - 1)
    BY DEF FrameInv, LineInv, SyncTypeOK
  <2>2. Requested \in Nat /\ Requested <= H_ACTIVE
    BY <2>1 DEF Requested
  <2>3. H_ACTIVE * V_ACTIVE \in Nat
    OBVIOUS
  <2>4. pixels \in 0..(H_ACTIVE * V_ACTIVE)
    <3>1. CASE InPicture(vcount) /\ scanEna
      <4>1. vcount - V_START \in Nat /\ vcount - V_START < V_ACTIVE
        BY <2>1, <3>1 DEF InPicture, Within
      <4>2. (vcount - V_START) * H_ACTIVE + Requested \in 0..(H_ACTIVE * V_ACTIVE)
        BY <2>2, <4>1, RowFits
      <4>3. pixels \in {(vcount - V_START) * H_ACTIVE + Requested, H_ACTIVE * V_ACTIVE}
        BY <2>1, <3>1 DEF FrameInv, PixelsSeen, InPicture, Within
      <4> QED
        BY <2>3, <4>2, <4>3
    <3>2. CASE ~(InPicture(vcount) /\ scanEna)
      <4>1. pixels \in {0, H_ACTIVE * V_ACTIVE}
        BY <2>1, <3>2 DEF FrameInv, PixelsSeen, InPicture, Within
      <4> QED
        BY <2>3, <4>1
    <3> QED
      BY <3>1, <3>2
  <2>5. ASSUME NEW sig \in StartSigs PROVE lines[sig] \in 0..V_ACTIVE
    <3>1. CASE InPicture(vcount)
      <4>1. lines[sig] \in {vcount - V_START + 1, 0}
        BY <3>1 DEF FrameInv, LinesSeen
      <4> QED
        BY <2>1, <3>1, <4>1 DEF InPicture, Within
    <3>2. CASE ~InPicture(vcount)
      <4>1. lines[sig] \in {0, V_ACTIVE}
        BY <3>2 DEF FrameInv, LinesSeen
      <4> QED
        BY <4>1
    <3> QED
      BY <3>1, <3>2
  <2>6. lines \in [StartSigs -> 0..V_ACTIVE]
    BY <2>5 DEF FrameInv
  <2> QED
    BY <2>4, <2>6 DEF FrameInv, LineInv, TypeOK
<1> QED
  BY <1>1, SpecFrameInv, PTL

(* The step behind Locks: registers that agree with the counters.  What has  *)
(* not been locked yet is out of reach of this step; that it locks is left to *)
(* the clock running on.                                                     *)
LEMMA LockedRegisters ==
    ASSUME LineInv, FrameAligned, NEW scan \in BOOLEAN, VideoEdge(scan)
    PROVE  /\ hsync'  <=> (hcount' < H_SYNC)
           /\ hblank' <=> ~Within(hcount', H_START, H_END)
           /\ vsync'  <=> (vcount' < V_SYNC)
           /\ vblank' <=> ~Within(vcount', V_START, V_END)
<1> USE RoomAssumption
<1>1. /\ hcount \in 0..(H_TOTAL - 1) /\ vcount \in 0..(V_TOTAL - 1)
      /\ H_TOTAL \in Nat /\ V_TOTAL \in Nat
  BY LinePositions DEF LineInv, SyncTypeOK
<1>2. /\ hcount' = IF LineEnd THEN 0 ELSE hcount + 1
      /\ vcount' = IF ~LineEnd THEN vcount ELSE IF LastLine THEN 0 ELSE vcount + 1
  BY DEF VideoEdge, Advance
<1>3. H_SYNC \in Nat \ {0} /\ V_SYNC \in Nat \ {0} /\ H_SYNC < H_TOTAL /\ V_SYNC < V_TOTAL
  BY GenericsAssumption, LinePositions
<1>4. hsync' <=> (hcount' < H_SYNC)
  <2>1. hsync' <=> LineEnd \/ (hsync /\ ~At(H_SYNC - 1))
    BY DEF VideoEdge, Horizontal, SetClear
  <2>2. hsync <=> (hcount < H_SYNC)
    BY DEF FrameAligned
  <2>3. LineEnd \/ (hcount < H_SYNC /\ ~At(H_SYNC - 1)) <=> (hcount' < H_SYNC)
    BY <1>1, <1>2, <1>3 DEF LineEnd, At
  <2> QED
    BY <2>1, <2>2, <2>3
<1>5. hblank' <=> ~Within(hcount', H_START, H_END)
  <2>1. ~hblank' <=> At(H_START - 1) \/ (~hblank /\ ~At(H_END - 1))
    BY DEF VideoEdge, Horizontal, SetClear
  <2>2. ~hblank <=> Within(hcount, H_START, H_END)
    BY DEF FrameAligned
  <2>3. At(H_START - 1) \/ (Within(hcount, H_START, H_END) /\ ~At(H_END - 1))
            <=> Within(hcount', H_START, H_END)
    BY <1>1, <1>2, FramePositions DEF LineEnd, At, Within
  <2> QED
    BY <2>1, <2>2, <2>3
<1>6. vsync' <=> (vcount' < V_SYNC)
  <2>1. vsync' <=> IF LineEnd THEN LastLine \/ (vsync /\ ~(vcount = V_SYNC - 1)) ELSE vsync
    BY DEF VideoEdge, Vertical, SetClear
  <2>2. vsync <=> (vcount < V_SYNC)
    BY DEF FrameAligned
  <2>3. LineEnd => (LastLine \/ (vcount < V_SYNC /\ ~(vcount = V_SYNC - 1)) <=> (vcount' < V_SYNC))
    BY <1>1, <1>2, <1>3 DEF LastLine
  <2>4. ~LineEnd => vcount' = vcount
    BY <1>2
  <2> QED
    BY <2>1, <2>2, <2>3, <2>4
<1>7. vblank' <=> ~Within(vcount', V_START, V_END)
  <2>1. ~vblank' <=> IF LineEnd THEN vcount = V_START - 1 \/ (~vblank /\ ~(vcount = V_END - 1))
                                ELSE ~vblank
    BY DEF VideoEdge, Vertical, SetClear
  <2>2. ~vblank <=> Within(vcount, V_START, V_END)
    BY DEF FrameAligned
  <2>3. LineEnd => (vcount = V_START - 1 \/ (Within(vcount, V_START, V_END) /\ ~(vcount = V_END - 1))
                      <=> Within(vcount', V_START, V_END))
    BY <1>1, <1>2, FramePositions DEF LastLine, Within
  <2>4. ~LineEnd => vcount' = vcount
    BY <1>2
  <2> QED
    BY <2>1, <2>2, <2>3, <2>4
<1> QED
  BY <1>4, <1>5, <1>6, <1>7

LEMMA LockedRests ==
    ASSUME LineInv, FrameAligned, NEW scan \in BOOLEAN, VideoEdge(scan)
    PROVE  vblank' => ~request' /\ ~vpreamble' /\ ~vguard' /\ packetArea'
<1>1. CASE LineEnd
  BY <1>1, LineEndRests, RoomAssumption
<1>2. CASE ~LineEnd
  BY <1>2 DEF VideoEdge, Vertical, ActiveLine, BlankLine, FrameAligned
<1> QED
  BY <1>1, <1>2

(* Once all the registers agree with the counters they do so for as long as  *)
(* the clock runs: only a reset can put them out of step.                    *)
THEOREM StaysLocked == Spec => [][InClock /\ FrameAligned => FrameAligned']_timingVars
<1>1. LineInv /\ [Next]_timingVars => [InClock /\ FrameAligned => FrameAligned']_timingVars
  <2> SUFFICES ASSUME LineInv, NEW scan \in BOOLEAN, Clock(scan), FrameAligned
               PROVE  FrameAligned'
    BY DEF InClock
  <2>1. VideoEdge(scan)
    BY DEF Clock
  <2>2. ActiveLineAligned'
    BY <2>1, EdgeKeepsLineInv, RoomAssumption DEF LineInv
  <2> QED
    BY <2>1, <2>2, LockedRegisters, LockedRests DEF FrameAligned
<1> QED
  BY <1>1, SpecLineInv, PTL DEF Spec

(* When the resets have ceased, one moment in which the registers agree with *)
(* the counters is enough: the generator has locked.  That there is such a   *)
(* moment is left to TLC.                                                    *)
THEOREM LockRemains == FairSpec => ([]<>FrameAligned => Locks)
<1>1. ASSUME [InClock /\ FrameAligned => FrameAligned']_timingVars,
             [InClock]_timingVars, FrameAligned
      PROVE  FrameAligned'
  <2>1. CASE UNCHANGED timingVars
    BY <1>1, <2>1 DEF timingVars, syncVars, FrameAligned, ActiveLineAligned, Within
  <2> QED
    BY <1>1, <2>1
<1>2. Spec => [][InClock /\ FrameAligned => FrameAligned']_timingVars
  BY StaysLocked
<1> QED
  BY <1>1, <1>2, PTL DEF FairSpec, Locks

-----------------------------------------------------------------------------
(* The colour bar.  Its state machine compares the counters with the ends of *)
(* its bands and zones; it stays in step with them as long as no band and no *)
(* zone is empty, and its first position is not before the line's start.     *)
(* The source asserts none of this; the modes of HDMI are far larger.        *)
BarsFit == H_ACTIVE >= 28 /\ V_ACTIVE >= 12 /\ H_START > EARLY_REQ + 1

\* v, a line, is in zone z; the lines of the blanking are in the first zone.
InZone(z, v) ==
    IF z = 1 THEN v <= ZoneEnd(1) \/ v > ZoneEnd(6)
    ELSE ZoneEnd(z - 1) < v /\ v <= ZoneEnd(z)

\* The last clock of segment s in the lines of zone z, and its clocks.
BandOf(z, s) == cb_band(SegmentBands(z)[s])
InBand(z, s, h) ==
    IF s = 1 THEN h <= cb_band(0) \/ h > cb_band(8)
    ELSE BandOf(z, s - 1) < h /\ h <= BandOf(z, s)

\* The accumulator of the ramp and the level shown one clock later.
LampAt(h)     == lampBegin * 256 + (h - CB_LEFTBAND) * lampStep
LevelAt(z, h) == LampAt(h) \div 256 + (IF Ycc /\ z \in {4, 5} THEN 2 ELSE 0)

\* The colour register in segment s of a line of zone z.
PlaceColour(z, s, h) ==
    IF ~(z \in 3..6 /\ s = 2) THEN SegmentColour(z, s)
    ELSE IF Ycc /\ z = 6
    THEN Flat(IF CB_BLACKBAND < h /\ h <= CB_WHITEBAND THEN "W" ELSE "K")
    ELSE [name |-> "ramp", level |-> LevelAt(z, h - 1)]

\* The state is the one that the counters h and v ask for: RIGHTBAND ends the
\* line of a zone before the line counter does.
BarAt(z, s, h, v) ==
    /\ z \in 1..6 /\ InZone(z, IF h > cb_band(8) THEN v + 1 ELSE v)
    /\ s \in 1..RightBand(z) /\ InBand(z, s, h)
LampInStep(h, l) == Within(h, CB_LEFTBAND, cb_band(7)) => l = LampAt(h)

(* The colour bar agrees with the counters: zone and segment, the lamp, the  *)
(* colour.                                                                   *)
BarsInStep ==
    /\ BarAt(zone, segment, hcount, vcount)
    /\ LampInStep(hcount, lamp)
    /\ colour = PlaceColour(zone, segment, hcount)

-----------------------------------------------------------------------------
BandsInOrder ==
    /\ \A n \in 0..10 : cb_band(n) \in Int
    /\ 1 <= cb_band(0) /\ cb_band(8) < H_TOTAL - 1
    /\ cb_band(0) < cb_band(1) /\ cb_band(1) < cb_band(2) /\ cb_band(2) < cb_band(3)
    /\ cb_band(3) < cb_band(4) /\ cb_band(4) < cb_band(5) /\ cb_band(5) < cb_band(6)
    /\ cb_band(6) < cb_band(7) /\ cb_band(7) < cb_band(8)
    /\ cb_band(0) < cb_band(9) /\ cb_band(9) < cb_band(10) /\ cb_band(10) < cb_band(7)

LEMMA RasterConstants ==
    /\ H_TOTAL \in Nat /\ H_START \in Nat /\ H_ACTIVE \in Nat /\ EARLY_REQ \in Nat
    /\ V_TOTAL \in Nat /\ V_START \in Nat /\ V_ACTIVE \in Nat
    /\ V_START > 0 /\ V_START + V_ACTIVE <= V_TOTAL
    /\ H_START + H_ACTIVE + 4 <= H_TOTAL /\ H_END = H_START + H_ACTIVE
    /\ V_END = V_START + V_ACTIVE
BY GenericsAssumption, RoomAssumption DEF H_START, V_START, H_END, V_END, RoomForIsland, ISLANDGAP_WIDTH

(* No band is empty, in either mode.                                         *)
LEMMA WideBands ==
    ASSUME BarsFit
    PROVE  /\ \A n \in 0..10 : WideBand(n) \in Int
           /\ 0 <= WideBand(0) /\ WideBand(8) = H_ACTIVE
           /\ WideBand(0) < WideBand(1) /\ WideBand(1) < WideBand(2)
           /\ WideBand(2) < WideBand(3) /\ WideBand(3) < WideBand(4)
           /\ WideBand(4) < WideBand(5) /\ WideBand(5) < WideBand(6)
           /\ WideBand(6) < WideBand(7) /\ WideBand(7) < WideBand(8)
           /\ WideBand(0) < WideBand(9) /\ WideBand(9) < WideBand(10)
           /\ WideBand(10) < WideBand(7)
<1> DEFINE w == H_ACTIVE
           m == w \div 8
<1>1. w \in Nat /\ w >= 28
  BY RasterConstants DEF BarsFit
<1>2. /\ WideBand(0) = m /\ WideBand(8) = w
      /\ WideBand(9) = m + (9 * w) \div 56 /\ WideBand(10) = m + (21 * w) \div 56
  BY <1>1 DEF WideBand
<1>3. /\ WideBand(1) = m + (3 * w) \div 28 /\ WideBand(2) = m + (6 * w) \div 28
      /\ WideBand(3) = m + (9 * w) \div 28 /\ WideBand(4) = m + (12 * w) \div 28
      /\ WideBand(5) = m + (15 * w) \div 28 /\ WideBand(6) = m + (18 * w) \div 28
      /\ WideBand(7) = m + (21 * w) \div 28
  BY <1>1 DEF WideBand
<1>4. m \in Nat /\ 8 * m <= w
  BY <1>1
<1> HIDE DEF w, m
<1>5. /\ 0 < (3 * w) \div 28 /\ (3 * w) \div 28 < (6 * w) \div 28
      /\ (6 * w) \div 28 < (9 * w) \div 28 /\ (9 * w) \div 28 < (12 * w) \div 28
      /\ (12 * w) \div 28 < (15 * w) \div 28 /\ (15 * w) \div 28 < (18 * w) \div 28
      /\ (18 * w) \div 28 < (21 * w) \div 28
  BY <1>1
<1>6. m + (21 * w) \div 28 < w
  BY <1>1, <1>4
<1>7. /\ 0 < (9 * w) \div 56 /\ (9 * w) \div 56 < (21 * w) \div 56
      /\ (21 * w) \div 56 < (21 * w) \div 28
  BY <1>1
<1>8. \A n \in 0..10 : WideBand(n) \in Int
  <2>1. \A n \in 0..10 : n = 0 \/ n = 1 \/ n = 2 \/ n = 3 \/ n = 4 \/ n = 5 \/ n = 6
                         \/ n = 7 \/ n = 8 \/ n = 9 \/ n = 10
    OBVIOUS
  <2> QED
    BY <1>1, <1>2, <1>3, <1>4, <2>1
<1> QED
  BY <1>1, <1>2, <1>3, <1>4, <1>5, <1>6, <1>7, <1>8 DEF w

LEMMA SdBands ==
    ASSUME BarsFit
    PROVE  /\ \A n \in 0..10 : SdBand(n) \in Int
           /\ 0 <= SdBand(0) /\ SdBand(8) = H_ACTIVE + 1
           /\ SdBand(0) < SdBand(1) /\ SdBand(1) < SdBand(2)
           /\ SdBand(2) < SdBand(3) /\ SdBand(3) < SdBand(4)
           /\ SdBand(4) < SdBand(5) /\ SdBand(5) < SdBand(6)
           /\ SdBand(6) < SdBand(7) /\ SdBand(7) < SdBand(8)
           /\ SdBand(0) < SdBand(9) /\ SdBand(9) < SdBand(10)
           /\ SdBand(10) < SdBand(7)
<1> DEFINE w == H_ACTIVE
<1>1. w \in Nat /\ w >= 28
  BY RasterConstants DEF BarsFit
<1>2. /\ SdBand(0) = 0 /\ SdBand(7) = w /\ SdBand(8) = w + 1
      /\ SdBand(9) = (3 * w) \div 14 /\ SdBand(10) = (7 * w) \div 14
  BY <1>1 DEF SdBand
<1>3. /\ SdBand(1) = w \div 7 /\ SdBand(2) = (2 * w) \div 7 /\ SdBand(3) = (3 * w) \div 7
      /\ SdBand(4) = (4 * w) \div 7 /\ SdBand(5) = (5 * w) \div 7 /\ SdBand(6) = (6 * w) \div 7
  BY <1>1 DEF SdBand
<1> HIDE DEF w
<1>5. /\ 0 < w \div 7 /\ w \div 7 < (2 * w) \div 7
      /\ (2 * w) \div 7 < (3 * w) \div 7 /\ (3 * w) \div 7 < (4 * w) \div 7
      /\ (4 * w) \div 7 < (5 * w) \div 7 /\ (5 * w) \div 7 < (6 * w) \div 7
      /\ (6 * w) \div 7 < w
  BY <1>1
<1>7. 0 < (3 * w) \div 14 /\ (3 * w) \div 14 < (7 * w) \div 14 /\ (7 * w) \div 14 < w
  BY <1>1
<1>8. \A n \in 0..10 : SdBand(n) \in Int
  <2>1. \A n \in 0..10 : n = 0 \/ n = 1 \/ n = 2 \/ n = 3 \/ n = 4 \/ n = 5 \/ n = 6
                         \/ n = 7 \/ n = 8 \/ n = 9 \/ n = 10
    OBVIOUS
  <2> QED
    BY <1>1, <1>2, <1>3, <2>1
<1> QED
  BY <1>1, <1>2, <1>3, <1>5, <1>7, <1>8 DEF w

LEMMA BandsOrdered == ASSUME BarsFit PROVE BandsInOrder
<1> DEFINE base == H_START - EARLY_REQ - 1
<1>1. base \in Nat /\ base >= 1 /\ base + H_ACTIVE + 1 < H_TOTAL - 1
  BY RasterConstants DEF BarsFit
<1>2. CASE BAR_MODE = "WIDE"
  <2>1. \A n \in 0..10 : cb_band(n) = base + WideBand(n)
    BY <1>2 DEF cb_band
  <2> HIDE DEF base
  <2> QED
    BY <1>1, <2>1, WideBands, RasterConstants DEF BandsInOrder
<1>3. CASE BAR_MODE # "WIDE"
  <2>1. \A n \in 0..10 : cb_band(n) = base + SdBand(n)
    BY <1>3 DEF cb_band
  <2> HIDE DEF base
  <2> QED
    BY <1>1, <2>1, SdBands, RasterConstants DEF BandsInOrder
<1> QED
  BY <1>2, <1>3

\* No zone is empty.
LEMMA ZonesInOrder ==
    ASSUME BarsFit
    PROVE  /\ \A z \in 1..6 : ZoneEnd(z) \in Int
           /\ 0 <= ZoneEnd(1) /\ ZoneEnd(6) = V_END - 1 /\ ZoneEnd(6) < V_TOTAL
           /\ \A z \in 1..5 : ZoneEnd(z) < ZoneEnd(z + 1)
<1> DEFINE w == V_ACTIVE
           m == V_START
<1>1. w \in Nat /\ w >= 12 /\ m \in Nat /\ m > 0 /\ m + w <= V_TOTAL /\ V_END = m + w /\ V_TOTAL \in Nat
  BY RasterConstants DEF BarsFit
<1>2. /\ ZoneEnd(1) = m + (7 * w) \div 12 - 1 /\ ZoneEnd(2) = m + (8 * w) \div 12 - 1
      /\ ZoneEnd(3) = m + (9 * w) \div 12 - 1 /\ ZoneEnd(4) = m + (10 * w) \div 12 - 1
      /\ ZoneEnd(5) = m + (11 * w) \div 12 - 1 /\ ZoneEnd(6) = m + (12 * w) \div 12 - 1
  BY <1>1 DEF ZoneEnd
<1> HIDE DEF w, m
<1>3. /\ 0 < (7 * w) \div 12 /\ (7 * w) \div 12 < (8 * w) \div 12
      /\ (8 * w) \div 12 < (9 * w) \div 12 /\ (9 * w) \div 12 < (10 * w) \div 12
      /\ (10 * w) \div 12 < (11 * w) \div 12 /\ (11 * w) \div 12 < (12 * w) \div 12
      /\ (12 * w) \div 12 = w
  BY <1>1
<1>4. \A z \in 1..6 : z = 1 \/ z = 2 \/ z = 3 \/ z = 4 \/ z = 5 \/ z = 6
  OBVIOUS
<1>5. \A z \in 1..5 : z = 1 \/ z = 2 \/ z = 3 \/ z = 4 \/ z = 5
  OBVIOUS
<1>6. /\ ZoneEnd(1) < ZoneEnd(2) /\ ZoneEnd(2) < ZoneEnd(3) /\ ZoneEnd(3) < ZoneEnd(4)
      /\ ZoneEnd(4) < ZoneEnd(5) /\ ZoneEnd(5) < ZoneEnd(6)
  BY <1>1, <1>2, <1>3
<1>7. \A z \in 1..5 : ZoneEnd(z) < ZoneEnd(z + 1)
  BY <1>5, <1>6
<1>8. \A z \in 1..6 : ZoneEnd(z) \in Int
  BY <1>1, <1>2, <1>3, <1>4
<1> QED
  BY <1>1, <1>2, <1>3, <1>7, <1>8

\* The line that a zone ends with is followed by the next zone.
LEMMA ZoneOfNextLine ==
    ASSUME BarsFit, NEW z \in 1..6, NEW v \in Nat, InZone(z, v)
    PROVE  /\ v # ZoneEnd(z) => InZone(z, v + 1)
           /\ v = ZoneEnd(z) => InZone(IF z = 6 THEN 1 ELSE z + 1, v + 1)
           /\ v = V_TOTAL => InZone(z, 0)
<1>1. CASE z = 1
  <2>1. ZoneEnd(1) \in Int /\ ZoneEnd(6) \in Int /\ ZoneEnd(2) \in Int /\ ZoneEnd(1) < ZoneEnd(2) /\ 0 <= ZoneEnd(1)
    BY ZonesInOrder
  <2> QED
    BY <1>1, <2>1 DEF InZone
<1>2. CASE z # 1
  <2>1. z - 1 \in 1..5 /\ z = (z - 1) + 1 /\ (z # 6 => z + 1 \in 2..6 /\ z \in 1..5 /\ (z + 1) - 1 = z)
    BY <1>2
  <2>2. ZoneEnd(z - 1) < v /\ v <= ZoneEnd(z)
    BY <1>2 DEF InZone
  <2>3. ZoneEnd(z - 1) \in Int /\ ZoneEnd(z) \in Int
    BY <2>1, ZonesInOrder
  <2>4. v # V_TOTAL
    <3>1. ZoneEnd(z) <= ZoneEnd(6) /\ ZoneEnd(6) < V_TOTAL /\ ZoneEnd(6) \in Int
      <4>1. \A y \in 1..6 : y = 1 \/ y = 2 \/ y = 3 \/ y = 4 \/ y = 5 \/ y = 6
        OBVIOUS
      <4>2. /\ ZoneEnd(2) < ZoneEnd(3) /\ ZoneEnd(3) < ZoneEnd(4) /\ ZoneEnd(4) < ZoneEnd(5)
            /\ ZoneEnd(5) < ZoneEnd(6) /\ ZoneEnd(6) < V_TOTAL /\ ZoneEnd(2) \in Int
            /\ ZoneEnd(3) \in Int /\ ZoneEnd(4) \in Int /\ ZoneEnd(5) \in Int /\ ZoneEnd(6) \in Int
        BY ZonesInOrder
      <4> QED
        BY <1>2, <4>1, <4>2
    <3> QED
      BY <2>2, <2>3, <3>1, RasterConstants
  <2>5. v # ZoneEnd(z) => InZone(z, v + 1)
    BY <1>2, <2>2, <2>3 DEF InZone
  <2>6. ASSUME v = ZoneEnd(z), z = 6 PROVE InZone(1, v + 1)
    BY <2>3, <2>6 DEF InZone
  <2>7. ASSUME v = ZoneEnd(z), z # 6 PROVE InZone(z + 1, v + 1)
    <3>1. ZoneEnd(z) < ZoneEnd(z + 1) /\ ZoneEnd(z + 1) \in Int
      BY <2>1, <2>7, ZonesInOrder
    <3> QED
      BY <2>1, <2>3, <2>7, <3>1 DEF InZone
  <2> QED
    BY <2>4, <2>5, <2>6, <2>7
<1> QED
  BY <1>1, <1>2

\* The bands of a zone follow one another, from LEFTBAND to RIGHTBAND.
LEMMA BandsOfZone ==
    ASSUME BarsFit, NEW z \in 1..6
    PROVE  /\ RightBand(z) \in 3..9 /\ (z \in 3..6 => RightBand(z) = 3)
           /\ BandOf(z, 1) = cb_band(0) /\ BandOf(z, RightBand(z)) = cb_band(8)
           /\ \A s \in 1..RightBand(z) :
                 BandOf(z, s) \in Int /\ cb_band(0) <= BandOf(z, s) /\ BandOf(z, s) <= cb_band(8)
           /\ \A s \in 1..RightBand(z) :
                 s # RightBand(z) => BandOf(z, s) < BandOf(z, s + 1) /\ BandOf(z, s) < cb_band(8)
           /\ z \in 3..6 => BandOf(z, 2) = cb_band(7)
<1>1. BandsInOrder
  BY BandsOrdered
<1>2. CASE z = 1
  <2>1. RightBand(1) = 9 /\ \A s \in 1..9 : SegmentBands(1)[s] = s - 1
    <3>1. SegmentBands(1) = <<0, 1, 2, 3, 4, 5, 6, 7, 8>>
      BY DEF SegmentBands
    <3> QED
      BY <3>1 DEF RightBand
  <2>2. \A s \in 1..9 : BandOf(1, s) = cb_band(s - 1)
    BY <2>1 DEF BandOf
  <2>3. /\ \A n \in 0..8 : cb_band(n) \in Int /\ cb_band(0) <= cb_band(n) /\ cb_band(n) <= cb_band(8)
        /\ \A n \in 0..7 : cb_band(n) < cb_band(n + 1) /\ cb_band(n) < cb_band(8)
    <3>1. /\ \A n \in 0..8 : n = 0 \/ n = 1 \/ n = 2 \/ n = 3 \/ n = 4 \/ n = 5 \/ n = 6 \/ n = 7 \/ n = 8
          /\ \A n \in 0..7 : n = 0 \/ n = 1 \/ n = 2 \/ n = 3 \/ n = 4 \/ n = 5 \/ n = 6 \/ n = 7
      OBVIOUS
    <3>2. /\ cb_band(0) \in Int /\ cb_band(1) \in Int /\ cb_band(2) \in Int /\ cb_band(3) \in Int
          /\ cb_band(4) \in Int /\ cb_band(5) \in Int /\ cb_band(6) \in Int /\ cb_band(7) \in Int
          /\ cb_band(8) \in Int
      BY <1>1 DEF BandsInOrder
    <3> QED
      BY <1>1, <3>1, <3>2 DEF BandsInOrder
  <2>4. \A s \in 1..9 : /\ s - 1 \in 0..8 /\ (s # 9 => s - 1 \in 0..7 /\ s + 1 \in 1..9 /\ (s + 1) - 1 = (s - 1) + 1)
    OBVIOUS
  <2>5. \A s \in 1..9 : BandOf(1, s) \in Int /\ cb_band(0) <= BandOf(1, s) /\ BandOf(1, s) <= cb_band(8)
    BY <2>2, <2>3, <2>4
  <2>6. \A s \in 1..9 : s # 9 => BandOf(1, s) < BandOf(1, s + 1) /\ BandOf(1, s) < cb_band(8)
    BY <2>2, <2>3, <2>4
  <2>7. BandOf(1, 1) = cb_band(0) /\ BandOf(1, 9) = cb_band(8)
    BY <2>2
  <2> QED
    BY <1>2, <2>1, <2>5, <2>6, <2>7
<1>3. CASE z = 2
  <2>1. RightBand(2) = 4 /\ BandOf(2, 1) = cb_band(0) /\ BandOf(2, 2) = cb_band(1)
        /\ BandOf(2, 3) = cb_band(7) /\ BandOf(2, 4) = cb_band(8)
    <3>1. SegmentBands(2) = <<0, 1, 7, 8>>
      BY DEF SegmentBands
    <3> QED
      BY <3>1 DEF RightBand, BandOf
  <2>2. cb_band(0) \in Int /\ cb_band(1) \in Int /\ cb_band(7) \in Int /\ cb_band(8) \in Int
    BY <1>1 DEF BandsInOrder
  <2>3. cb_band(0) < cb_band(1) /\ cb_band(1) < cb_band(7) /\ cb_band(7) < cb_band(8)
    BY <1>1 DEF BandsInOrder
  <2>4. \A s \in 1..4 : s = 1 \/ s = 2 \/ s = 3 \/ s = 4
    OBVIOUS
  <2> QED
    BY <1>3, <2>1, <2>2, <2>3, <2>4
<1>4. CASE z \in 3..6
  <2>1. RightBand(z) = 3 /\ BandOf(z, 1) = cb_band(0) /\ BandOf(z, 2) = cb_band(7)
        /\ BandOf(z, 3) = cb_band(8)
    <3>1. SegmentBands(z) = <<0, 7, 8>>
      BY <1>4 DEF SegmentBands
    <3> QED
      BY <3>1 DEF RightBand, BandOf
  <2>2. cb_band(0) \in Int /\ cb_band(7) \in Int /\ cb_band(8) \in Int
    BY <1>1 DEF BandsInOrder
  <2>3. cb_band(0) < cb_band(7) /\ cb_band(7) < cb_band(8)
    BY <1>1 DEF BandsInOrder
  <2>4. \A s \in 1..3 : s = 1 \/ s = 2 \/ s = 3
    OBVIOUS
  <2> QED
    BY <2>1, <2>2, <2>3, <2>4
<1> QED
  BY <1>2, <1>3, <1>4

-----------------------------------------------------------------------------
\* The ramp.
LEMMA DivisionBounds ==
    ASSUME NEW a \in Nat, NEW d \in Nat, d > 0
    PROVE  /\ a \div d \in Nat /\ (a \div d) * d <= a /\ a < (a \div d) * d + d
BY SMT

LEMMA ProductGrows ==
    ASSUME NEW a \in Nat, NEW b \in Nat, NEW c \in Nat, a <= b
    PROVE  a * c <= b * c /\ a * c \in Nat /\ b * c \in Nat
BY SMT

LEMMA RampWidth ==
    ASSUME BarsFit
    PROVE  /\ lampWidth \in Nat /\ lampWidth >= 21 /\ cb_band(7) = cb_band(0) + lampWidth
           /\ CB_LEFTBAND = cb_band(0) /\ cb_band(0) \in Nat
<1> DEFINE base == H_START - EARLY_REQ - 1
           w == H_ACTIVE
<1>1. base \in Nat /\ w \in Nat /\ w >= 28
  BY RasterConstants DEF BarsFit
<1>2. cb_band(0) \in Nat
  BY BandsOrdered DEF BandsInOrder
<1>3. CASE BAR_MODE = "WIDE"
  <2>1. /\ cb_band(0) = base + w \div 8 /\ cb_band(7) = base + (w \div 8 + (21 * w) \div 28)
        /\ lampWidth = (w * 3) \div 4
    BY <1>1, <1>3 DEF cb_band, WideBand, lampWidth
  <2> HIDE DEF base, w
  <2>2. (21 * w) \div 28 = (w * 3) \div 4 /\ (w * 3) \div 4 >= 21 /\ (w * 3) \div 4 \in Nat
    BY <1>1
  <2> QED
    BY <1>1, <1>2, <2>1, <2>2 DEF CB_LEFTBAND
<1>4. CASE BAR_MODE # "WIDE"
  <2>1. /\ cb_band(0) = base /\ cb_band(7) = base + w /\ lampWidth = w
    BY <1>1, <1>4 DEF cb_band, SdBand, lampWidth
  <2> QED
    BY <1>1, <1>2, <2>1 DEF CB_LEFTBAND
<1> QED
  BY <1>3, <1>4

LEMMA LampEnds ==
    /\ lampBegin \in 0..16 /\ lampEnd \in {235, 255} /\ lampBegin < lampEnd
    /\ (Ycc => lampEnd = 235)
BY DEF lampBegin, lampEnd

LEMMA StepOfLamp ==
    ASSUME BarsFit
    PROVE  LET D == (lampEnd - lampBegin) * 256
           IN  /\ D \in Nat /\ lampStep \in Nat /\ lampStep * (lampWidth - 1) <= D
               /\ D < lampStep * (lampWidth - 1) + (lampWidth - 1)
<1> DEFINE D == (lampEnd - lampBegin) * 256
           d == lampWidth - 1
<1>1. D \in Nat
  BY LampEnds
<1>2. d \in Nat /\ d > 0
  BY RampWidth
<1>3. lampStep = D \div d
  BY DEF lampStep
<1> HIDE DEF D, d
<1>4. D \div d \in Nat /\ (D \div d) * d <= D /\ D < (D \div d) * d + d
  BY <1>1, <1>2, DivisionBounds
<1> QED
  BY <1>1, <1>3, <1>4 DEF D, d

\* The lamp stays within the range of the levels; nothing wraps.
LEMMA LampInRange ==
    ASSUME BarsFit, NEW h \in Int, Within(h, CB_LEFTBAND, cb_band(7))
    PROVE  /\ LampAt(h) \in Nat /\ lampBegin * 256 <= LampAt(h) /\ LampAt(h) <= lampEnd * 256
           /\ LampAt(h + 1) = LampAt(h) + lampStep
<1> DEFINE k == h - CB_LEFTBAND
           d == lampWidth - 1
<1>1. k \in Nat /\ d \in Nat /\ k <= d /\ (h + 1) - CB_LEFTBAND = k + 1
  BY RampWidth DEF Within
<1>2. /\ (lampEnd - lampBegin) * 256 \in Nat /\ lampStep \in Nat
      /\ lampStep * d <= (lampEnd - lampBegin) * 256
  BY StepOfLamp
<1>3. LampAt(h) = lampBegin * 256 + k * lampStep /\ LampAt(h + 1) = lampBegin * 256 + (k + 1) * lampStep
  BY <1>1 DEF LampAt
<1> HIDE DEF k, d
<1>4. k * lampStep <= d * lampStep /\ k * lampStep \in Nat /\ d * lampStep \in Nat
  BY <1>1, <1>2, ProductGrows
<1>5. d * lampStep = lampStep * d /\ (k + 1) * lampStep = k * lampStep + lampStep
  BY <1>1, <1>2
<1> DEFINE p == k * lampStep
           q == d * lampStep
<1>6. p <= q /\ p \in Nat /\ q <= (lampEnd - lampBegin) * 256 /\ LampAt(h) = lampBegin * 256 + p
      /\ LampAt(h + 1) = lampBegin * 256 + (p + lampStep) /\ q \in Nat
  BY <1>2, <1>3, <1>4, <1>5
<1> HIDE DEF p, q
<1> QED
  BY <1>2, <1>6, LampEnds

-----------------------------------------------------------------------------
\* One edge of video_clk, by the position it leaves.
Stepped(h, v, h2, v2) ==
    /\ h2 = IF h = H_TOTAL - 1 THEN 0 ELSE h + 1
    /\ v2 = IF h # H_TOTAL - 1 THEN v ELSE IF v = V_TOTAL - 1 THEN 0 ELSE v + 1

\* The three cases of RunBar: a bar, RIGHTBAND, no end of a segment.
LEMMA EndOfSegment ==
    ASSUME BarsFit, NEW z, NEW s, NEW h \in 0..(H_TOTAL - 1), NEW v \in 0..(V_TOTAL - 1),
           BarAt(z, s, h, v), NEW h2, NEW v2, Stepped(h, v, h2, v2), h = BandOf(z, s),
           s < RightBand(z)
    PROVE  BarAt(z, s + 1, h2, v2) /\ h2 = h + 1
<1>1. z \in 1..6 /\ s \in 1..RightBand(z)
  BY DEF BarAt
<1>2. RightBand(z) \in 3..9 /\ s \in Nat /\ s + 1 \in 1..RightBand(z) /\ s + 1 # 1 /\ (s + 1) - 1 = s
  BY <1>1, BandsOfZone
<1>3. /\ BandOf(z, s) < BandOf(z, s + 1) /\ BandOf(z, s) < cb_band(8) /\ BandOf(z, s + 1) \in Int
  BY <1>1, <1>2, BandsOfZone
<1>4. cb_band(8) \in Int /\ cb_band(8) < H_TOTAL - 1
  BY BandsOrdered DEF BandsInOrder
<1>5. h2 = h + 1 /\ v2 = v /\ ~(h > cb_band(8)) /\ ~(h2 > cb_band(8))
  BY <1>3, <1>4, RasterConstants DEF Stepped
<1>6. InBand(z, s + 1, h2)
  BY <1>2, <1>3, <1>5 DEF InBand
<1>7. InZone(z, v)
  BY <1>5 DEF BarAt
<1>8. InZone(z, IF h2 > cb_band(8) THEN v2 + 1 ELSE v2)
  BY <1>5, <1>7
<1> QED
  BY <1>1, <1>2, <1>5, <1>6, <1>8 DEF BarAt

LEMMA EndOfBars ==
    ASSUME BarsFit, NEW z, NEW h \in 0..(H_TOTAL - 1), NEW v \in 0..(V_TOTAL - 1),
           BarAt(z, RightBand(z), h, v), NEW h2, NEW v2, Stepped(h, v, h2, v2),
           h = BandOf(z, RightBand(z)),
           NEW z2, z2 = IF v # ZoneEnd(z) THEN z ELSE IF z = 6 THEN 1 ELSE z + 1
    PROVE  BarAt(z2, 1, h2, v2) /\ h2 > cb_band(8) /\ z2 \in 1..6
<1>1. z \in 1..6 /\ z2 \in 1..6
  BY DEF BarAt
<1>2. h = cb_band(8) /\ RightBand(z2) \in 3..9
  BY <1>1, BandsOfZone
<1>3. cb_band(8) \in Int /\ cb_band(8) < H_TOTAL - 1
  BY BandsOrdered DEF BandsInOrder
<1>4. h2 = h + 1 /\ v2 = v /\ ~(h > cb_band(8)) /\ h2 > cb_band(8) /\ v \in Nat
  BY <1>2, <1>3, RasterConstants DEF Stepped
<1>5. InZone(z, v)
  BY <1>4 DEF BarAt
<1>6. InZone(z2, v + 1)
  BY <1>1, <1>4, <1>5, ZoneOfNextLine
<1>7. InBand(z2, 1, h2)
  BY <1>4 DEF InBand
<1> QED
  BY <1>1, <1>2, <1>4, <1>6, <1>7 DEF BarAt

LEMMA WithinSegment ==
    ASSUME BarsFit, NEW z, NEW s, NEW h \in 0..(H_TOTAL - 1), NEW v \in 0..(V_TOTAL - 1),
           BarAt(z, s, h, v), NEW h2, NEW v2, Stepped(h, v, h2, v2), h # BandOf(z, s)
    PROVE  BarAt(z, s, h2, v2)
<1>1. z \in 1..6 /\ s \in 1..RightBand(z)
  BY DEF BarAt
<1>2. /\ RightBand(z) \in 3..9 /\ BandOf(z, 1) = cb_band(0)
      /\ BandOf(z, s) \in Int /\ cb_band(0) <= BandOf(z, s) /\ BandOf(z, s) <= cb_band(8)
  BY <1>1, BandsOfZone
<1>3. /\ cb_band(8) \in Int /\ cb_band(8) < H_TOTAL - 1 /\ cb_band(0) \in Int
      /\ 1 <= cb_band(0)
  BY BandsOrdered DEF BandsInOrder
<1>4. H_TOTAL \in Nat /\ V_TOTAL \in Nat /\ h \in Nat /\ v \in Nat
  BY RasterConstants
<1>5. InBand(z, s, h2)
  <2>1. CASE s = 1
    BY <1>2, <1>3, <1>4, <2>1 DEF InBand, BarAt, Stepped
  <2>2. CASE s # 1
    <3>1. BandOf(z, s - 1) < h /\ h < BandOf(z, s) /\ BandOf(z, s - 1) \in Int
      <4>1. s - 1 \in 1..RightBand(z)
        BY <1>1, <1>2, <2>2
      <4>2. BandOf(z, s - 1) < h /\ h <= BandOf(z, s)
        BY <2>2 DEF InBand, BarAt
      <4> QED
        BY <1>1, <1>2, <1>4, <4>1, <4>2, BandsOfZone
    <3>2. h2 = h + 1
      BY <1>2, <1>3, <1>4, <3>1 DEF Stepped
    <3> QED
      BY <1>2, <1>4, <2>2, <3>1, <3>2 DEF InBand
  <2> QED
    BY <2>1, <2>2
<1>6. h # cb_band(8)
  <2>1. CASE s = 1
    <3>1. h <= cb_band(0) \/ h > cb_band(8)
      BY <2>1 DEF InBand, BarAt
    <3>2. cb_band(0) < cb_band(8)
      BY BandsOrdered DEF BandsInOrder
    <3> QED
      BY <1>3, <1>4, <3>1, <3>2
  <2>2. CASE s # 1
    <3>1. h <= BandOf(z, s)
      BY <2>2 DEF InBand, BarAt
    <3> QED
      BY <1>2, <1>3, <1>4, <3>1
  <2> QED
    BY <2>1, <2>2
<1>7. InZone(z, IF h2 > cb_band(8) THEN v2 + 1 ELSE v2)
  <2>1. CASE h = H_TOTAL - 1
    <3>5. h2 = 0
      BY <2>1 DEF Stepped
    <3>1. h2 = 0 /\ ~(h2 > cb_band(8)) /\ h > cb_band(8)
      <4>1. cb_band(0) <= cb_band(8)
        BY <1>2, <1>3
      <4> QED
        BY <1>3, <1>4, <2>1, <3>5, <4>1
    <3>2. InZone(z, v + 1)
      BY <3>1 DEF BarAt
    <3>3. v2 = v + 1 \/ (v2 = 0 /\ v + 1 = V_TOTAL)
      BY <1>4, <2>1 DEF Stepped
    <3>4. v + 1 = V_TOTAL => InZone(z, 0)
      BY <1>1, <1>4, <3>2, ZoneOfNextLine
    <3> QED
      BY <3>1, <3>2, <3>3, <3>4
  <2>2. CASE h # H_TOTAL - 1
    <3>1. h2 = h + 1 /\ v2 = v
      BY <2>2 DEF Stepped
    <3>2. h2 > cb_band(8) <=> h > cb_band(8)
      BY <1>3, <1>4, <1>6, <3>1
    <3> QED
      BY <3>1, <3>2 DEF BarAt
  <2> QED
    BY <2>1, <2>2
<1> QED
  BY <1>1, <1>5, <1>7 DEF BarAt

-----------------------------------------------------------------------------
\* A ramp shows the lamp of the clock before; the corrected centre does not wrap.
LEMMA RampShows ==
    ASSUME BarsFit, NEW z \in 3..6, hcount \in Int, Within(hcount, CB_LEFTBAND, cb_band(7)),
           LampInStep(hcount, lamp)
    PROVE  RampColour(z) = [name |-> "ramp", level |-> LevelAt(z, hcount)]
<1>1. lamp = LampAt(hcount)
  BY DEF LampInStep
<1>2. lamp \in Nat /\ lamp <= lampEnd * 256
  BY <1>1, LampInRange
<1>3. CASE Ycc /\ z \in {4, 5}
  <2>1. (lamp \div 256) \in 0..235
    BY <1>2, <1>3, LampEnds
  <2>2. (lamp \div 256 + 2) % 256 = lamp \div 256 + 2
    BY <2>1
  <2> QED
    BY <1>1, <1>3, <2>2 DEF RampColour, LevelAt
<1>4. CASE ~(Ycc /\ z \in {4, 5})
  <2>1. lamp \div 256 + 0 = lamp \div 256
    BY <1>2
  <2> QED
    BY <1>1, <1>4, <2>1 DEF RampColour, LevelAt
<1> QED
  BY <1>3, <1>4

\* The colour register in the same cases.
LEMMA NextColour ==
    ASSUME BarsFit, hcount \in Int, LampInStep(hcount, lamp),
           zone \in 1..6, segment \in 1..RightBand(zone), segment < RightBand(zone),
           hcount = BandOf(zone, segment), NEW c,
           c = IF zone \in 3..6 /\ segment = 1
               THEN IF Ycc /\ zone = 6 THEN Flat("K") ELSE RampColour(zone)
               ELSE SegmentColour(zone, segment + 1)
    PROVE  c = PlaceColour(zone, segment + 1, hcount + 1)
<1>0. segment \in Nat /\ (hcount + 1) - 1 = hcount
  BY BandsOfZone
<1>1. CASE ~(zone \in 3..6 /\ segment = 1)
  <2>1. ~(zone \in 3..6 /\ segment + 1 = 2)
    BY <1>0, <1>1
  <2>2. PlaceColour(zone, segment + 1, hcount + 1) = SegmentColour(zone, segment + 1)
    BY <2>1, Zenon DEF PlaceColour
  <2> QED
    BY <1>1, <2>2, Zenon
<1>2. CASE zone \in 3..6 /\ segment = 1
  <2>1. segment + 1 = 2 /\ hcount = cb_band(0)
    BY <1>2, BandsOfZone
  <2>2. Within(hcount, CB_LEFTBAND, cb_band(7))
    BY <2>1, RampWidth DEF Within
  <2>3. CASE Ycc /\ zone = 6
    <3>1. ~(CB_BLACKBAND < hcount + 1)
      BY <2>1, BandsOrdered DEF BandsInOrder, CB_BLACKBAND
    <3> QED
      BY <1>2, <2>1, <2>3, <3>1, Zenon DEF PlaceColour
  <2>4. CASE ~(Ycc /\ zone = 6)
    <3>1. RampColour(zone) = [name |-> "ramp", level |-> LevelAt(zone, hcount)]
      BY <1>2, <2>2, RampShows
    <3>2. PlaceColour(zone, segment + 1, hcount + 1) = [name |-> "ramp", level |-> LevelAt(zone, (hcount + 1) - 1)]
      BY <1>2, <2>1, <2>4, Zenon DEF PlaceColour
    <3> QED
      BY <1>0, <1>2, <2>4, <3>1, <3>2, Zenon
  <2> QED
    BY <2>3, <2>4
<1> QED
  BY <1>1, <1>2

LEMMA KeptColour ==
    ASSUME BarsFit, hcount \in Int, LampInStep(hcount, lamp),
           zone \in 1..6, segment \in 1..RightBand(zone), InBand(zone, segment, hcount),
           hcount # BandOf(zone, segment), colour = PlaceColour(zone, segment, hcount),
           NEW h2, h2 = hcount + 1 \/ segment = 1, NEW c,
           c = IF ~InRamp THEN colour
               ELSE IF Ycc /\ zone = 6 THEN ZoneSixBar
               ELSE RampColour(zone)
    PROVE  c = PlaceColour(zone, segment, h2)
<1>1. CASE ~InRamp
  <2>1. c = colour
    BY <1>1
  <2> QED
    BY <1>1, <2>1, Zenon DEF PlaceColour, InRamp
<1>2. CASE InRamp
  <2>1. zone \in 3..6 /\ segment = 2 /\ h2 = hcount + 1 /\ h2 - 1 = hcount
    BY <1>2 DEF InRamp
  <2>2. BandOf(zone, 1) = cb_band(0) /\ BandOf(zone, 2) = cb_band(7) /\ cb_band(7) \in Int
    BY <2>1, BandsOfZone, BandsOrdered DEF BandsInOrder
  <2>3. cb_band(0) < hcount /\ hcount < cb_band(7)
    BY <2>1, <2>2 DEF InBand
  <2>4. CASE Ycc /\ zone = 6
    <3>1. CB_BLACKBAND \in Int /\ CB_WHITEBAND \in Int /\ CB_BLACKBAND < CB_WHITEBAND
      BY BandsOrdered DEF BandsInOrder, CB_BLACKBAND, CB_WHITEBAND
    <3>2. c = ZoneSixBar
      BY <1>2, <2>4, Zenon
    <3>3. \A h : PlaceColour(zone, segment, h) = Flat(IF CB_BLACKBAND < h /\ h <= CB_WHITEBAND THEN "W" ELSE "K")
      BY <2>1, <2>4, Zenon DEF PlaceColour
    <3>4. CASE hcount = CB_BLACKBAND
      <4>1. CB_BLACKBAND < h2 /\ h2 <= CB_WHITEBAND
        BY <2>1, <3>1, <3>4
      <4> QED
        BY <3>2, <3>3, <3>4, <4>1, Zenon DEF ZoneSixBar, At
    <3>5. CASE hcount = CB_WHITEBAND
      <4>1. ~(h2 <= CB_WHITEBAND) /\ hcount # CB_BLACKBAND
        BY <2>1, <3>1, <3>5
      <4> QED
        BY <3>2, <3>3, <3>5, <4>1, Zenon DEF ZoneSixBar, At
    <3>6. CASE hcount # CB_BLACKBAND /\ hcount # CB_WHITEBAND
      <4>1. /\ CB_BLACKBAND < h2 <=> CB_BLACKBAND < hcount
            /\ h2 <= CB_WHITEBAND <=> hcount <= CB_WHITEBAND
        BY <2>1, <3>1, <3>6
      <4>2. c = colour
        BY <3>2, <3>6, Zenon DEF ZoneSixBar, At
      <4> QED
        BY <3>3, <4>1, <4>2, Zenon
    <3> QED
      BY <3>4, <3>5, <3>6
  <2>5. CASE ~(Ycc /\ zone = 6)
    <3>1. Within(hcount, CB_LEFTBAND, cb_band(7))
      BY <2>3, RampWidth DEF Within
    <3>2. RampColour(zone) = [name |-> "ramp", level |-> LevelAt(zone, hcount)]
      BY <2>1, <3>1, RampShows
    <3>3. PlaceColour(zone, segment, h2) = [name |-> "ramp", level |-> LevelAt(zone, h2 - 1)]
      BY <2>1, <2>5, Zenon DEF PlaceColour
    <3> QED
      BY <1>2, <2>1, <2>5, <3>2, <3>3, Zenon
  <2> QED
    BY <2>4, <2>5
<1> QED
  BY <1>1, <1>2

\* The lamp begins with LEFTBAND's last clock and adds its step from there.
LEMMA LampStays ==
    ASSUME BarsFit, NEW h \in 0..(H_TOTAL - 1), NEW v, NEW h2, NEW v2, Stepped(h, v, h2, v2),
           NEW l, LampInStep(h, l), NEW l2,
           l2 = IF h = CB_LEFTBAND - 1 THEN lampBegin * 256 ELSE (l + lampStep) % 65536
    PROVE  LampInStep(h2, l2)
<1> SUFFICES ASSUME Within(h2, CB_LEFTBAND, cb_band(7)) PROVE l2 = LampAt(h2)
  BY DEF LampInStep
<1>1. /\ CB_LEFTBAND \in Nat /\ CB_LEFTBAND >= 1 /\ cb_band(7) \in Int
  BY RampWidth, BandsOrdered DEF BandsInOrder
<1>2. h2 = h + 1
  BY <1>1 DEF Stepped, Within
<1>3. CASE h = CB_LEFTBAND - 1
  <2>1. h2 - CB_LEFTBAND = 0 /\ 0 * lampStep = 0
    BY <1>1, <1>2, <1>3, StepOfLamp
  <2> QED
    BY <1>3, <2>1, LampEnds DEF LampAt
<1>4. CASE h # CB_LEFTBAND - 1
  <2>1. Within(h, CB_LEFTBAND, cb_band(7)) /\ Within(h + 1, CB_LEFTBAND, cb_band(7)) /\ h \in Int /\ h + 1 \in Int
    BY <1>1, <1>2, <1>4, RasterConstants DEF Within
  <2>2. l = LampAt(h) /\ LampAt(h + 1) = LampAt(h) + lampStep
    BY <2>1, LampInRange DEF LampInStep
  <2>3. LampAt(h + 1) \in Nat /\ LampAt(h + 1) <= lampEnd * 256
    BY <2>1, LampInRange
  <2>4. LampAt(h + 1) <= 65535
    BY <2>3, LampEnds
  <2>5. LampAt(h + 1) % 65536 = LampAt(h + 1)
    BY <2>3, <2>4, SMT
  <2> QED
    BY <1>2, <1>4, <2>2, <2>5
<1> QED
  BY <1>3, <1>4

\* The generics do not change, so the positions do not.
LEMMA SameInstance ==
    ASSUME BAR_MODE' = BAR_MODE, COLORSPACE' = COLORSPACE
    PROVE  BarsInStep' <=>
              /\ BarAt(zone', segment', hcount', vcount')
              /\ LampInStep(hcount', lamp')
              /\ colour' = PlaceColour(zone', segment', hcount')
<1>1. \A n : cb_band(n)' = cb_band(n)
  BY DEF cb_band
<1>2. lampBegin' = lampBegin /\ lampStep' = lampStep /\ Ycc' = Ycc
  BY DEF lampBegin, lampEnd, lampStep, lampWidth, Ycc
<1>3. BarAt(zone, segment, hcount, vcount)' <=> BarAt(zone', segment', hcount', vcount')
  BY <1>1, Zenon DEF BarAt, InBand, BandOf
<1>4. LampInStep(hcount, lamp)' <=> LampInStep(hcount', lamp')
  BY <1>1, <1>2, Zenon DEF LampInStep, LampAt, CB_LEFTBAND
<1>5. PlaceColour(zone, segment, hcount)' = PlaceColour(zone', segment', hcount')
  <2>1. CB_LEFTBAND' = CB_LEFTBAND /\ CB_BLACKBAND' = CB_BLACKBAND /\ CB_WHITEBAND' = CB_WHITEBAND
    BY <1>1, Zenon DEF CB_LEFTBAND, CB_BLACKBAND, CB_WHITEBAND
  <2>2. \A h : LampAt(h)' = LampAt(h)
    BY <1>2, <2>1, Zenon DEF LampAt
  <2>3. \A z, h : LevelAt(z, h)' = LevelAt(z, h)
    BY <1>2, <2>2, Zenon DEF LevelAt
  <2> QED
    BY <1>2, <2>1, <2>3, Zenon DEF PlaceColour
<1> QED
  BY <1>3, <1>4, <1>5, Zenon DEF BarsInStep

LEMMA BarStepKeeps ==
    ASSUME BarsFit, SyncTypeOK, BarsInStep, Advance, BarEdge
    PROVE  BarsInStep'
<1>1. /\ BAR_MODE' = BAR_MODE /\ COLORSPACE' = COLORSPACE
      /\ RunLamp /\ (NextSegment \/ NextLine \/ InSegment)
  BY DEF BarEdge, RunBar
<1>2. /\ hcount \in 0..(H_TOTAL - 1) /\ vcount \in 0..(V_TOTAL - 1) /\ hcount \in Int
      /\ zone \in 1..6 /\ segment \in 1..RightBand(zone)
      /\ BarAt(zone, segment, hcount, vcount) /\ InBand(zone, segment, hcount)
      /\ LampInStep(hcount, lamp) /\ colour = PlaceColour(zone, segment, hcount)
  BY DEF SyncTypeOK, BarsInStep, BarAt
<1>3. Stepped(hcount, vcount, hcount', vcount')
  BY DEF Advance, LineEnd, LastLine, At, Stepped
<1>4. LampInStep(hcount', lamp')
  BY <1>1, <1>2, <1>3, LampStays DEF RunLamp, At
<1>5. CASE NextSegment
  <2>1. /\ hcount = BandOf(zone, segment) /\ segment < RightBand(zone)
        /\ segment' = segment + 1 /\ zone' = zone
    BY <1>5 DEF NextSegment, SegmentEnds, At, BandOf
  <2>2. BarAt(zone, segment + 1, hcount', vcount') /\ hcount' = hcount + 1
    BY <1>2, <1>3, <2>1, EndOfSegment
  <2>3. colour' = PlaceColour(zone, segment + 1, hcount + 1)
    BY <1>2, <1>5, <2>1, NextColour DEF NextSegment
  <2> QED
    BY <1>1, <1>4, <2>1, <2>2, <2>3, SameInstance, Zenon
<1>6. CASE NextLine
  <2>1. /\ hcount = BandOf(zone, segment) /\ segment = RightBand(zone) /\ segment' = 1
        /\ zone' = IF vcount # ZoneEnd(zone) THEN zone ELSE IF zone = 6 THEN 1 ELSE zone + 1
        /\ colour' = SegmentColour(zone', 1)
    BY <1>6 DEF NextLine, SegmentEnds, At, BandOf
  <2>2. BarAt(zone', 1, hcount', vcount')
    BY <1>2, <1>3, <2>1, EndOfBars
  <2>3. colour' = PlaceColour(zone', 1, hcount')
    BY <2>1 DEF PlaceColour
  <2> QED
    BY <1>1, <1>4, <2>1, <2>2, <2>3, SameInstance, Zenon
<1>7. CASE InSegment
  <2>1. /\ hcount # BandOf(zone, segment) /\ zone' = zone /\ segment' = segment
        /\ colour' = IF ~InRamp THEN colour
                     ELSE IF Ycc /\ zone = 6 THEN ZoneSixBar
                     ELSE RampColour(zone)
    BY <1>7 DEF InSegment, SegmentEnds, At, BandOf
  <2>2. BarAt(zone, segment, hcount', vcount')
    BY <1>2, <1>3, <2>1, WithinSegment
  <2>3. hcount' = hcount + 1 \/ segment = 1
    <3>1. SUFFICES ASSUME hcount = H_TOTAL - 1, segment # 1 PROVE FALSE
      BY <1>3 DEF Stepped
    <3>2. hcount <= cb_band(8)
      BY <1>2, <3>1, BandsOfZone, BandsOrdered DEF InBand, BandsInOrder
    <3>3. cb_band(8) < H_TOTAL - 1 /\ cb_band(8) \in Int
      BY BandsOrdered DEF BandsInOrder
    <3> QED
      BY <1>2, <3>1, <3>2, <3>3, RasterConstants
  <2>4. colour' = PlaceColour(zone, segment, hcount')
    BY <1>2, <2>1, <2>3, KeptColour
  <2> QED
    BY <1>1, <1>4, <2>1, <2>2, <2>4, SameInstance, Zenon
<1> QED
  BY <1>1, <1>5, <1>6, <1>7

-----------------------------------------------------------------------------
(* What is shown.                                                            *)
LEMMA FactorCancels ==
    ASSUME NEW a \in Int, NEW b \in Int, NEW d \in Nat, d > 0, a * d <= b * d
    PROVE  a <= b
<1> SUFFICES ASSUME b + 1 <= a PROVE FALSE
  OBVIOUS
<1>1. a - (b + 1) \in Nat
  OBVIOUS
<1>2. (a - (b + 1)) * d >= 0
  BY <1>1, SMT
<1>3. (a - (b + 1)) * d = a * d - (b * d + d)
  BY SMT
<1>4. a * d \in Int /\ b * d \in Int
  OBVIOUS
<1> QED
  BY <1>2, <1>3, <1>4

\* Adding a truncated step k times stays close below the exact quotient.
LEMMA RampIsNear ==
    ASSUME NEW b \in Nat, NEW k \in Nat, NEW d \in Nat, NEW D \in Nat, NEW st \in Nat,
           d > 0, k <= d, st * d <= D * 256, D * 256 < st * d + d
    PROVE  LET m == (k * st) \div 256
               e == (k * D) \div d
           IN  /\ (b * 256 + k * st) \div 256 = b + m
               /\ m \in Nat /\ e \in Nat
               /\ m <= e /\ e <= m + 1 + (d + 1) \div 256
<1> DEFINE p == k * st
           q == k * D
           m == p \div 256
           e == q \div d
<1>1. p \in Nat /\ q \in Nat
  BY SMT
<1>2. q \div d \in Nat /\ (q \div d) * d <= q /\ q < (q \div d) * d + d
  <2> HIDE DEF q
  <2> QED
    BY <1>1, DivisionBounds
<1>3. /\ p * d <= q * 256 /\ q * 256 <= (p + k) * d
      /\ p * d \in Nat /\ (p + k) * d \in Nat
  <2>1. st * d \in Nat /\ D * 256 \in Nat /\ st * d + d \in Nat
    BY SMT
  <2>2. (st * d) * k <= (D * 256) * k /\ (D * 256) * k <= (st * d + d) * k
    BY <2>1, ProductGrows
  <2>3. (st * d) * k = p * d /\ (D * 256) * k = q * 256
    BY SMT
  <2>4. (st * d + d) * k = (p + k) * d
    BY SMT
  <2>5. p * d \in Nat /\ (p + k) * d \in Nat
    BY <1>1, SMT
  <2> QED
    BY <2>2, <2>3, <2>4, <2>5
<1>4. m \in Nat /\ e \in Nat /\ 256 * m <= p /\ p < 256 * m + 256 /\ (b * 256 + p) \div 256 = b + m
  <2> HIDE DEF p, q
  <2> QED
    BY <1>1, <1>2
<1> HIDE DEF p, q
<1>5. e * d <= q /\ q < e * d + d /\ e * d \in Nat
  <2>1. \A i \in Nat : i * d \in Nat
    BY SMT
  <2> QED
    BY <1>2, <1>4, <2>1 DEF e
<1> HIDE DEF m, e
<1>6. m <= e
  <2>1. (256 * m) * d <= p * d
    BY <1>1, <1>4, ProductGrows
  <2>2. (256 * m) * d = 256 * (m * d) /\ m * d \in Nat
    BY <1>4, SMT
  <2>3. m * d <= q
    BY <1>1, <1>3, <2>1, <2>2
  <2>4. (e + 1) * d = e * d + d
    BY <1>4, SMT
  <2>5. SUFFICES ASSUME e + 1 <= m PROVE FALSE
    BY <1>4
  <2>6. (e + 1) * d <= m * d
    BY <1>4, <2>5, ProductGrows
  <2> QED
    BY <1>1, <1>5, <2>2, <2>3, <2>4, <2>6
<1>7. e <= m + 1 + (d + 1) \div 256
  <2>1. (256 * e) * d = 256 * (e * d)
    BY <1>4, SMT
  <2>2. (256 * e) * d <= (p + k) * d
    BY <1>1, <1>3, <1>5, <2>1
  <2>3. 256 * e <= p + k
    BY <1>1, <1>4, <2>2, FactorCancels
  <2> QED
    BY <1>1, <1>4, <2>3
<1> QED
  BY <1>4, <1>6, <1>7 DEF p, q, m, e

\* The first pixel of a bar is behind the last clock of the band before.
LEMMA BarStarts ==
    ASSUME BarsFit
    PROVE  /\ \A n \in 1..8 : BarStart(n) = cb_band(n - 1) + 1 - (H_START - EARLY_REQ)
           /\ LeftMargin = cb_band(0) + 1 - (H_START - EARLY_REQ)
           /\ WhiteFrom = CB_BLACKBAND + 1 - (H_START - EARLY_REQ)
           /\ WhiteUntil = CB_WHITEBAND + 1 - (H_START - EARLY_REQ)
<1> DEFINE S == H_START - EARLY_REQ
           w == H_ACTIVE
<1>1. S \in Nat /\ w \in Nat
  BY RasterConstants DEF BarsFit
<1>2. \A n \in 1..8 : n = 1 \/ n = 2 \/ n = 3 \/ n = 4 \/ n = 5 \/ n = 6 \/ n = 7 \/ n = 8
  OBVIOUS
<1>3. CASE BAR_MODE = "WIDE"
  <2>1. \A n \in 0..10 : cb_band(n) = S - 1 + WideBand(n)
    BY <1>3 DEF cb_band
  <2>2. LeftMargin = w \div 8 /\ WideBand(0) = w \div 8
    BY <1>1, <1>3 DEF LeftMargin, WideBand
  <2>3. /\ BarStart(1) = WideBand(0) /\ BarStart(2) = WideBand(1) /\ BarStart(3) = WideBand(2)
        /\ BarStart(4) = WideBand(3) /\ BarStart(5) = WideBand(4) /\ BarStart(6) = WideBand(5)
        /\ BarStart(7) = WideBand(6) /\ BarStart(8) = WideBand(7)
    BY <1>1, <1>3, <2>2 DEF BarStart, WideBand
  <2>4. \A n \in 1..8 : BarStart(n) = WideBand(n - 1)
    BY <1>2, <2>3
  <2>5. WhiteFrom = WideBand(9) /\ WhiteUntil = WideBand(10)
    BY <1>1, <1>3, <2>2 DEF WhiteFrom, WhiteUntil, WideBand
  <2>6. \A n \in 0..10 : WideBand(n) \in Int
    BY WideBands
  <2> HIDE DEF S
  <2> QED
    BY <1>1, <2>1, <2>2, <2>4, <2>5, <2>6 DEF CB_BLACKBAND, CB_WHITEBAND, S
<1>4. CASE BAR_MODE # "WIDE"
  <2>1. \A n \in 0..10 : cb_band(n) = S - 1 + SdBand(n)
    BY <1>4 DEF cb_band
  <2>2. LeftMargin = 0 /\ SdBand(0) = 0
    BY <1>1, <1>4 DEF LeftMargin, SdBand
  <2>3. /\ BarStart(1) = SdBand(0) /\ BarStart(2) = SdBand(1) /\ BarStart(3) = SdBand(2)
        /\ BarStart(4) = SdBand(3) /\ BarStart(5) = SdBand(4) /\ BarStart(6) = SdBand(5)
        /\ BarStart(7) = SdBand(6) /\ BarStart(8) = SdBand(7)
    BY <1>1, <1>4, <2>2 DEF BarStart, SdBand
  <2>4. \A n \in 1..8 : BarStart(n) = SdBand(n - 1)
    BY <1>2, <2>3
  <2>5. WhiteFrom = SdBand(9) /\ WhiteUntil = SdBand(10)
    BY <1>1, <1>4, <2>2 DEF WhiteFrom, WhiteUntil, SdBand
  <2>6. \A n \in 0..10 : SdBand(n) \in Int
    BY SdBands
  <2> HIDE DEF S
  <2> QED
    BY <1>1, <2>1, <2>2, <2>4, <2>5, <2>6 DEF CB_BLACKBAND, CB_WHITEBAND, S
<1> QED
  BY <1>3, <1>4

\* The bar a pixel lies in is told by the bands on either side of it.
LEMMA BarOfPosition ==
    ASSUME BarsFit, hcount \in Int
    PROVE  /\ hcount <= cb_band(0) => BarOfPixel(px) = 0
           /\ \A n \in 1..8 :
                 cb_band(n - 1) < hcount /\ (n < 8 => hcount <= cb_band(n))
                    => BarOfPixel(px) = n
<1> DEFINE S == H_START - EARLY_REQ
<1>1. px = hcount - S /\ S \in Int
  BY RasterConstants DEF px
<1>2. \A n \in 0..8 : cb_band(n) \in Int
  BY BandsOrdered DEF BandsInOrder
<1>3. /\ \A n \in 1..8 : px >= BarStart(n) <=> cb_band(n - 1) < hcount
      /\ px < LeftMargin <=> hcount <= cb_band(0)
  <2>1. /\ \A n \in 1..8 : BarStart(n) = cb_band(n - 1) + 1 - S /\ n - 1 \in 0..8
        /\ LeftMargin = cb_band(0) + 1 - S
    BY BarStarts
  <2> HIDE DEF S
  <2> QED
    BY <1>1, <1>2, <2>1
<1>4. \A n \in 1..8 : n < 8 => (px < BarStart(n + 1) <=> hcount <= cb_band(n))
  <2>1. \A n \in 1..8 : n < 8 => BarStart(n + 1) = cb_band(n) + 1 - S
    <3>1. \A n \in 1..8 : n < 8 => n + 1 \in 1..8 /\ (n + 1) - 1 = n
      OBVIOUS
    <3> QED
      BY <3>1, BarStarts
  <2> HIDE DEF S
  <2> QED
    BY <1>1, <1>2, <2>1
<1>5. \A n, m \in 1..8 : n < m => cb_band(n) <= cb_band(m - 1)
  <2>1. \A n \in 1..8 : n = 1 \/ n = 2 \/ n = 3 \/ n = 4 \/ n = 5 \/ n = 6 \/ n = 7 \/ n = 8
    OBVIOUS
  <2>2. /\ cb_band(1) < cb_band(2) /\ cb_band(2) < cb_band(3) /\ cb_band(3) < cb_band(4)
        /\ cb_band(4) < cb_band(5) /\ cb_band(5) < cb_band(6) /\ cb_band(6) < cb_band(7)
        /\ cb_band(1) \in Int /\ cb_band(2) \in Int /\ cb_band(3) \in Int /\ cb_band(4) \in Int
        /\ cb_band(5) \in Int /\ cb_band(6) \in Int /\ cb_band(7) \in Int
    BY BandsOrdered DEF BandsInOrder
  <2> QED
    BY <2>1, <2>2
<1>6. ASSUME hcount <= cb_band(0) PROVE BarOfPixel(px) = 0
  BY <1>3, <1>6 DEF BarOfPixel
<1>7. ASSUME NEW n \in 1..8, cb_band(n - 1) < hcount, n < 8 => hcount <= cb_band(n)
      PROVE  BarOfPixel(px) = n
  <2> DEFINE P(m) == px >= BarStart(m) /\ (m < 8 => px < BarStart(m + 1))
  <2>1. \A m \in 1..8 : P(m) <=> cb_band(m - 1) < hcount /\ (m < 8 => hcount <= cb_band(m))
    BY <1>3, <1>4, Zenon
  <2>2. ASSUME NEW m \in 1..8, P(m) PROVE m = n
    <3>1. cb_band(m - 1) < hcount /\ (m < 8 => hcount <= cb_band(m))
      BY <2>1, <2>2
    <3>2. m \in Int /\ n \in Int /\ cb_band(m - 1) \in Int /\ cb_band(n - 1) \in Int /\ cb_band(m) \in Int /\ cb_band(n) \in Int
      BY <1>2
    <3>3. CASE n < m
      BY <1>5, <1>7, <3>1, <3>2, <3>3
    <3>4. CASE m < n
      BY <1>5, <1>7, <3>1, <3>2, <3>4
    <3> QED
      BY <3>2, <3>3, <3>4
  <2>3. P(n)
    BY <1>7, <2>1
  <2>4. (CHOOSE m \in 1..8 : P(m)) = n
    <3> HIDE DEF P
    <3> QED
      BY <2>2, <2>3
  <2>5. ~(px < LeftMargin)
    <3>1. cb_band(0) < hcount
      <4>1. cb_band(0) <= cb_band(n - 1)
        <5>1. CASE n = 1
          BY <1>2, <5>1
        <5>2. CASE n # 1
          <6>1. cb_band(1) <= cb_band(n - 1) /\ cb_band(0) < cb_band(1)
            BY <1>5, <5>2, BandsOrdered DEF BandsInOrder
          <6> QED
            BY <1>2, <6>1
        <5> QED
          BY <5>1, <5>2
      <4> QED
        BY <1>2, <1>7, <4>1
    <3> QED
      BY <1>2, <1>3, <3>1
  <2> QED
    BY <2>4, <2>5 DEF BarOfPixel
<1> QED
  BY <1>6, <1>7

\* And the zone of a line by the last lines of the zones.
LEMMA ZoneOfPosition ==
    ASSUME BarsFit, vcount \in V_START..(V_END - 1), NEW z \in 1..6, InZone(z, vcount)
    PROVE  ZoneOfLine(py) = z
<1> DEFINE Q(i) == (V_ACTIVE * (6 + i)) \div 12
<1>1. V_ACTIVE \in Nat /\ V_START \in Nat /\ V_END = V_START + V_ACTIVE /\ vcount \in Nat /\ py = vcount - V_START
  BY RasterConstants DEF py
<1>2. \A i \in 1..6 : ZoneEnd(i) = V_START + Q(i) - 1
  BY DEF ZoneEnd
<1>3. \A i \in 1..6 : i = 1 \/ i = 2 \/ i = 3 \/ i = 4 \/ i = 5 \/ i = 6
  OBVIOUS
<1>4. /\ Q(1) \in Nat /\ Q(2) \in Nat /\ Q(3) \in Nat /\ Q(4) \in Nat /\ Q(5) \in Nat /\ Q(6) \in Nat
      /\ Q(1) <= Q(2) /\ Q(2) <= Q(3) /\ Q(3) <= Q(4) /\ Q(4) <= Q(5) /\ Q(5) <= Q(6)
      /\ Q(6) = V_ACTIVE
  BY <1>1
<1>5. \A i \in 1..6 : i > 1 => (V_ACTIVE * (5 + i)) \div 12 = Q(i - 1)
  <2>1. \A i \in 1..6 : i > 1 => 5 + i = 6 + (i - 1)
    OBVIOUS
  <2> QED
    BY <2>1
<1> DEFINE P(i) == /\ py < (V_ACTIVE * (6 + i)) \div 12
                   /\ i > 1 => py >= (V_ACTIVE * (5 + i)) \div 12
<1>6. \A i \in 1..6 : P(i) <=> py < Q(i) /\ (i > 1 => py >= Q(i - 1))
  BY <1>5
<1> HIDE DEF Q
<1>7. \A i \in 1..6 : Q(i) \in Nat
  BY <1>3, <1>4
<1>8. \A i, j \in 1..6 : i < j => Q(i) <= Q(j - 1)
  BY <1>3, <1>4
<1>9. P(z)
  <2>1. py < Q(z) /\ (z > 1 => py >= Q(z - 1))
    <3>1. CASE z = 1
      <4>1. vcount <= ZoneEnd(1)
        BY <1>1, <1>2, <1>4, <3>1 DEF InZone
      <4> QED
        BY <1>1, <1>2, <1>4, <3>1, <4>1
    <3>2. CASE z # 1
      <4>1. z - 1 \in 1..6 /\ ZoneEnd(z - 1) < vcount /\ vcount <= ZoneEnd(z)
        BY <3>2 DEF InZone
      <4>2. Q(z) \in Nat /\ Q(z - 1) \in Nat /\ ZoneEnd(z) = V_START + Q(z) - 1
            /\ ZoneEnd(z - 1) = V_START + Q(z - 1) - 1
        BY <1>2, <1>7, <4>1
      <4> QED
        BY <1>1, <4>1, <4>2
    <3> QED
      BY <3>1, <3>2
  <2> HIDE DEF P
  <2> QED
    BY <1>6, <2>1
<1>10. ASSUME NEW i \in 1..6, P(i) PROVE i = z
  <2>1. py < Q(i) /\ (i > 1 => py >= Q(i - 1)) /\ py < Q(z) /\ (z > 1 => py >= Q(z - 1))
    <3> HIDE DEF P
    <3> QED
      BY <1>6, <1>9, <1>10
  <2>2. py \in Int /\ i \in Int /\ z \in Int /\ Q(i) \in Int /\ Q(z) \in Int
    BY <1>1, <1>7
  <2>3. CASE i < z
    <3>1. z > 1 /\ Q(i) <= Q(z - 1) /\ Q(z - 1) \in Nat
      BY <1>7, <1>8, <2>3
    <3> QED
      BY <2>1, <2>2, <3>1
  <2>4. CASE z < i
    <3>1. i > 1 /\ Q(z) <= Q(i - 1) /\ Q(i - 1) \in Nat
      BY <1>7, <1>8, <2>4
    <3> QED
      BY <2>1, <2>2, <3>1
  <2> QED
    BY <2>2, <2>3, <2>4
<1>11. ZoneOfLine(py) = CHOOSE i \in 1..6 : P(i)
  BY DEF ZoneOfLine
<1> HIDE DEF P
<1> QED
  BY <1>9, <1>10, <1>11

\* The bars of a line are numbered by its bands, of which none is left out.
LEMMA SomeBar ==
    ASSUME BarsFit, hcount \in Int, NEW i \in 0..6, cb_band(i) < hcount, hcount <= cb_band(7)
    PROVE  BarOfPixel(px) \in (i + 1)..7
<1>1. /\ cb_band(0) \in Int /\ cb_band(1) \in Int /\ cb_band(2) \in Int /\ cb_band(3) \in Int
      /\ cb_band(4) \in Int /\ cb_band(5) \in Int /\ cb_band(6) \in Int /\ cb_band(7) \in Int
      /\ cb_band(0) < cb_band(1) /\ cb_band(1) < cb_band(2) /\ cb_band(2) < cb_band(3)
      /\ cb_band(3) < cb_band(4) /\ cb_band(4) < cb_band(5) /\ cb_band(5) < cb_band(6)
      /\ cb_band(6) < cb_band(7)
  BY BandsOrdered DEF BandsInOrder
<1>2. i = 0 \/ i = 1 \/ i = 2 \/ i = 3 \/ i = 4 \/ i = 5 \/ i = 6
  OBVIOUS
<1>3. \E n \in (i + 1)..7 : cb_band(n - 1) < hcount /\ hcount <= cb_band(n)
  <2>1. \/ cb_band(i) < hcount /\ hcount <= cb_band(i + 1)
        \/ i < 1 /\ cb_band(1) < hcount /\ hcount <= cb_band(2)
        \/ i < 2 /\ cb_band(2) < hcount /\ hcount <= cb_band(3)
        \/ i < 3 /\ cb_band(3) < hcount /\ hcount <= cb_band(4)
        \/ i < 4 /\ cb_band(4) < hcount /\ hcount <= cb_band(5)
        \/ i < 5 /\ cb_band(5) < hcount /\ hcount <= cb_band(6)
        \/ i < 6 /\ cb_band(6) < hcount /\ hcount <= cb_band(7)
    BY <1>1, <1>2
  <2>2. (i + 1) - 1 = i /\ i + 1 \in (i + 1)..7
    OBVIOUS
  <2> QED
    BY <2>1, <2>2
<1>4. PICK n \in (i + 1)..7 : cb_band(n - 1) < hcount /\ hcount <= cb_band(n)
  BY <1>3
<1>5. n \in 1..8
  OBVIOUS
<1> QED
  BY <1>4, <1>5, BarOfPosition

\* The level of a ramp is the exact one but for the truncated step.
LEMMA RampShown ==
    ASSUME BarsFit, hcount \in Int, cb_band(0) < hcount, hcount <= cb_band(7), NEW z \in 3..6
    PROVE  Near(LevelAt(z, hcount - 1), ExactLevel(px, IF Ycc /\ z \in {4, 5} THEN 2 ELSE 0))
<1> DEFINE k == (hcount - 1) - CB_LEFTBAND
           d == lampWidth - 1
           D == lampEnd - lampBegin
           c == IF Ycc /\ z \in {4, 5} THEN 2 ELSE 0
           m == (k * lampStep) \div 256
           e == (k * D) \div d
<1>1. /\ k \in Nat /\ d \in Nat /\ d > 0 /\ k <= d /\ lampWidth = d + 1
  BY RampWidth
<1>2. /\ lampBegin \in Nat /\ D \in Nat /\ lampStep \in Nat
      /\ lampStep * d <= D * 256 /\ D * 256 < lampStep * d + d
  BY LampEnds, StepOfLamp
<1>3. px - LeftMargin = k
  <2>1. LeftMargin = cb_band(0) + 1 - (H_START - EARLY_REQ) /\ CB_LEFTBAND = cb_band(0) /\ cb_band(0) \in Int
    BY BarStarts, RampWidth
  <2> QED
    BY <2>1, RasterConstants DEF px
<1>4. LevelAt(z, hcount - 1) = (lampBegin * 256 + k * lampStep) \div 256 + c
  BY DEF LevelAt, LampAt
<1>5. ExactLevel(px, c) = lampBegin + e + c
  BY <1>3 DEF ExactLevel
<1>6. c \in Nat
  OBVIOUS
<1> HIDE DEF k, d, D, c
<1>7. /\ (lampBegin * 256 + k * lampStep) \div 256 = lampBegin + m
      /\ m \in Nat /\ e \in Nat /\ m <= e /\ e <= m + 1 + (d + 1) \div 256
  BY <1>1, <1>2, RampIsNear
<1> HIDE DEF m, e
<1>8. (d + 1) \div 256 \in Nat
  BY <1>1
<1>9. Near(lampBegin + m + c, lampBegin + e + c)
  BY <1>1, <1>2, <1>6, <1>7, <1>8 DEF Near
<1> QED
  BY <1>4, <1>5, <1>7, <1>9 DEF c

\* Each pixel of a bar in step has the colour of its place.
LEMMA BarIsShown ==
    ASSUME BarsFit, hcount \in Int, BarsInStep, vcount \in V_START..(V_END - 1),
           hcount <= cb_band(8)
    PROVE  Shows(px, py)
<1> DEFINE bar == BarOfPixel(px)
<1>1. /\ zone \in 1..6 /\ InZone(zone, vcount) /\ segment \in 1..RightBand(zone)
      /\ InBand(zone, segment, hcount) /\ colour = PlaceColour(zone, segment, hcount)
  <2>1. cb_band(8) \in Int
    BY BandsOrdered DEF BandsInOrder
  <2>2. ~(hcount > cb_band(8))
    BY <2>1
  <2> QED
    BY <2>2 DEF BarsInStep, BarAt
<1>2. ZoneOfLine(py) = zone
  BY <1>1, ZoneOfPosition
<1>3. \A n \in 0..8 : cb_band(n) \in Int
  BY BandsOrdered DEF BandsInOrder
<1>4. Shows(px, py) <=>
        CASE bar = 0 -> colour = SegmentColour(zone, 1)
          [] bar = 8 -> colour = SegmentColour(zone, RightBand(zone))
          [] zone = 1 /\ bar \in 1..7 -> colour = Flat(BarNames[bar])
          [] zone = 2 /\ bar \in 1..7 -> colour = Flat(IF bar = 1 THEN "W" ELSE "75W")
          [] zone = 6 /\ Ycc /\ bar \in 1..7 ->
                colour = Flat(IF Within(px, WhiteFrom, WhiteUntil) THEN "W" ELSE "K")
          [] OTHER ->
                /\ colour.name = "ramp"
                /\ Near(colour.level,
                        ExactLevel(px, IF Ycc /\ zone \in {4, 5} THEN 2 ELSE 0))
  BY <1>2, Zenon DEF Shows
<1>5. CASE segment = 1
  <2>1. hcount <= cb_band(0)
    BY <1>1, <1>3, <1>5 DEF InBand
  <2>2. bar = 0
    BY <2>1, BarOfPosition
  <2>3. colour = SegmentColour(zone, 1)
    BY <1>1, <1>5 DEF PlaceColour
  <2> HIDE DEF bar
  <2> QED
    BY <1>4, <2>2, <2>3
<1>6. CASE segment # 1 /\ segment = RightBand(zone)
  <2>1. RightBand(zone) \in 3..9 /\ BandOf(zone, segment - 1) < hcount
    BY <1>1, <1>6, BandsOfZone DEF InBand
  <2>2. cb_band(7) < hcount
    <3>1. CASE zone = 1
      <4>1. BandOf(1, 8) = cb_band(7) /\ RightBand(1) = 9
        BY DEF BandOf, RightBand, SegmentBands
      <4> QED
        BY <1>6, <2>1, <3>1, <4>1
    <3>2. CASE zone = 2
      <4>1. BandOf(2, 3) = cb_band(7) /\ RightBand(2) = 4
        BY DEF BandOf, RightBand, SegmentBands
      <4> QED
        BY <1>6, <2>1, <3>2, <4>1
    <3>3. CASE zone \in 3..6
      <4>1. BandOf(zone, 2) = cb_band(7) /\ RightBand(zone) = 3
        BY <3>3, BandsOfZone
      <4> QED
        BY <1>6, <2>1, <4>1
    <3> QED
      BY <1>1, <3>1, <3>2, <3>3
  <2>3. bar = 8
    BY <2>2, BarOfPosition
  <2>4. segment # 2
    BY <1>6, <2>1
  <2>5. colour = SegmentColour(zone, RightBand(zone))
    BY <1>1, <1>6, <2>4 DEF PlaceColour
  <2> HIDE DEF bar
  <2> QED
    BY <1>4, <2>3, <2>5
<1>7. CASE segment # 1 /\ segment # RightBand(zone) /\ zone = 1
  <2>1. RightBand(1) = 9 /\ \A s \in 1..9 : BandOf(1, s) = cb_band(s - 1)
    BY DEF BandOf, RightBand, SegmentBands
  <2>2. segment \in 2..8 /\ segment - 1 \in 1..7
    BY <1>1, <1>7, <2>1
  <2>3. cb_band((segment - 1) - 1) < hcount /\ hcount <= cb_band(segment - 1)
    BY <1>1, <1>7, <2>1, <2>2 DEF InBand
  <2>4. bar = segment - 1
    BY <2>2, <2>3, BarOfPosition
  <2>5. colour = SegmentColour(1, segment)
    BY <1>1, <1>7 DEF PlaceColour
  <2>6. SegmentColour(1, segment) = Flat(BarNames[segment - 1])
    <3>1. SegmentColour(1, segment) = Flat(<<"40W", "75W", "75Y", "75C", "75G", "75M", "75R",
                         "75B", "40W">>[segment])
      BY DEF SegmentColour
    <3>2. <<"40W", "75W", "75Y", "75C", "75G", "75M", "75R", "75B", "40W">>[segment]
             = BarNames[segment - 1]
      <4>1. \/ segment = 2 \/ segment = 3 \/ segment = 4 \/ segment = 5 \/ segment = 6
            \/ segment = 7 \/ segment = 8
        BY <2>2
      <4> QED
        BY <4>1 DEF BarNames
    <3> QED
      BY <3>1, <3>2
  <2>7. bar # 0 /\ bar # 8 /\ bar \in 1..7
    BY <2>2, <2>4
  <2>8. colour = Flat(BarNames[bar])
    BY <2>4, <2>5, <2>6
  <2> HIDE DEF bar
  <2> QED
    BY <1>4, <1>7, <2>7, <2>8
<1>8. CASE segment # 1 /\ segment # RightBand(zone) /\ zone = 2
  <2>1. /\ RightBand(2) = 4 /\ BandOf(2, 1) = cb_band(0) /\ BandOf(2, 2) = cb_band(1)
        /\ BandOf(2, 3) = cb_band(7)
    BY DEF BandOf, RightBand, SegmentBands
  <2>2. segment = 2 \/ segment = 3
    BY <1>1, <1>8, <2>1
  <2>3. colour = SegmentColour(2, segment)
    BY <1>1, <1>8 DEF PlaceColour
  <2>4. SegmentColour(2, 2) = Flat("W") /\ SegmentColour(2, 3) = Flat("75W")
    BY DEF SegmentColour
  <2>5. CASE segment = 2
    <3>1. bar = 1
      BY <1>1, <1>8, <2>1, <2>5, BarOfPosition DEF InBand
    <3> HIDE DEF bar
    <3> QED
      BY <1>4, <1>8, <2>3, <2>4, <2>5, <3>1
  <2>6. CASE segment = 3
    <3>1. cb_band(1) < hcount /\ hcount <= cb_band(7)
      BY <1>1, <1>8, <2>1, <2>6 DEF InBand
    <3>2. bar \in 2..7
      BY <3>1, SomeBar
    <3> HIDE DEF bar
    <3>3. bar # 0 /\ bar # 8 /\ bar \in 1..7 /\ bar # 1
      BY <3>2
    <3> QED
      BY <1>4, <1>8, <2>3, <2>4, <2>6, <3>3
  <2> QED
    BY <2>2, <2>5, <2>6
<1>9. CASE segment # 1 /\ segment # RightBand(zone) /\ zone \in 3..6
  <2>1. segment = 2 /\ BandOf(zone, 1) = cb_band(0) /\ BandOf(zone, 2) = cb_band(7)
    BY <1>1, <1>9, BandsOfZone
  <2>2. cb_band(0) < hcount /\ hcount <= cb_band(7)
    BY <1>1, <2>1 DEF InBand
  <2>3. bar \in 1..7
    BY <2>2, SomeBar
  <2>4. bar # 0 /\ bar # 8 /\ zone # 1 /\ zone # 2
    BY <1>9, <2>3
  <2>5. CASE Ycc /\ zone = 6
    <3>1. colour = Flat(IF CB_BLACKBAND < hcount /\ hcount <= CB_WHITEBAND THEN "W" ELSE "K")
      BY <1>1, <1>9, <2>1, <2>5, Zenon DEF PlaceColour
    <3>2. Within(px, WhiteFrom, WhiteUntil) <=> CB_BLACKBAND < hcount /\ hcount <= CB_WHITEBAND
      <4>1. CB_BLACKBAND \in Int /\ CB_WHITEBAND \in Int
        BY BandsOrdered DEF BandsInOrder, CB_BLACKBAND, CB_WHITEBAND
      <4> QED
        BY <4>1, BarStarts, RasterConstants DEF Within, px
    <3> HIDE DEF bar
    <3>3. colour = Flat(IF Within(px, WhiteFrom, WhiteUntil) THEN "W" ELSE "K")
      BY <3>1, <3>2, Zenon
    <3> QED
      BY <1>4, <2>3, <2>4, <2>5, <3>3
  <2>6. CASE ~(Ycc /\ zone = 6)
    <3>1. colour = [name |-> "ramp", level |-> LevelAt(zone, hcount - 1)]
      BY <1>1, <1>9, <2>1, <2>6, Zenon DEF PlaceColour
    <3>2. Near(LevelAt(zone, hcount - 1), ExactLevel(px, IF Ycc /\ zone \in {4, 5} THEN 2 ELSE 0))
      BY <1>9, <2>2, RampShown
    <3>3. /\ colour.name = "ramp"
          /\ Near(colour.level, ExactLevel(px, IF Ycc /\ zone \in {4, 5} THEN 2 ELSE 0))
      BY <3>1, <3>2
    <3> HIDE DEF bar
    <3> QED
      BY <1>4, <2>3, <2>4, <2>6, <3>3
  <2> QED
    BY <2>5, <2>6
<1>10. zone = 1 \/ zone = 2 \/ zone \in 3..6
  BY <1>1
<1> QED
  BY <1>5, <1>6, <1>7, <1>8, <1>9, <1>10

-----------------------------------------------------------------------------
(* video_syncgen as a whole implements the video timing: the colour bar reads*)
(* the counters and drives none of them.  What is proved of Spec holds of    *)
(* EntitySpec.                                                               *)
THEOREM EntityTiming == EntitySpec => Spec
<1>1. InitEntity => Init
  BY DEF InitEntity
<1>2. [NextEntity]_entityVars => [Next]_timingVars
  BY DEF NextEntity, ClockEntity, ResetEntity, Next, InClock, entityVars
<1> QED
  BY <1>1, <1>2, PTL DEF EntitySpec, Spec

(* A colour bar in step with the counters stays in step, in both modes and   *)
(* colour spaces: no end of a band or of a zone is missed, the ramps start   *)
(* anew in each line and never wrap.  Only a reset can put it out of step.   *)
THEOREM BarsStayInStep ==
    ASSUME BarsFit
    PROVE  EntitySpec => [][ClockEntity /\ BarsInStep => BarsInStep']_entityVars
<1>1. LineInv /\ [NextEntity]_entityVars
         => [ClockEntity /\ BarsInStep => BarsInStep']_entityVars
  <2> SUFFICES ASSUME LineInv, ClockEntity, BarsInStep PROVE BarsInStep'
    OBVIOUS
  <2>1. Advance /\ BarEdge
    BY DEF ClockEntity, Clock, VideoEdge
  <2> QED
    BY <2>1, BarStepKeeps DEF LineInv
<1> QED
  BY <1>1, EntityTiming, SpecLineInv, PTL DEF EntitySpec

(* Whenever the generator and the bar are in step, the colour of a requested *)
(* pixel is that of its place in the picture: the bar, the margins, the ramps*)
(* up to their truncated step, the black and white bar.                      *)
THEOREM PictureIsRight ==
    ASSUME BarsFit
    PROVE  EntitySpec => [](FrameAligned /\ BarsInStep => (request => Shows(px, py)))
<1>1. ASSUME LineInv, FrameAligned, BarsInStep, request PROVE Shows(px, py)
  <2>1. ~vblank
    BY <1>1 DEF FrameAligned
  <2>2. Within(vcount, V_START, V_END) /\ Within(hcount, H_START - EARLY_REQ, H_END - EARLY_REQ)
    BY <1>1, <2>1 DEF FrameAligned, ActiveLineAligned
  <2>3. hcount \in Int /\ vcount \in Int
    BY <1>1, RasterConstants DEF LineInv, SyncTypeOK
  <2>4. vcount \in V_START..(V_END - 1)
    BY <2>2, <2>3, RasterConstants DEF Within
  <2>5. hcount <= cb_band(8)
    <3>1. cb_band(8) >= H_START - EARLY_REQ - 1 + H_ACTIVE
      <4>1. cb_band(8) = H_START - EARLY_REQ - 1
                           + (IF BAR_MODE = "WIDE" THEN WideBand(8) ELSE SdBand(8))
        BY DEF cb_band
      <4>2. WideBand(8) = H_ACTIVE /\ SdBand(8) = H_ACTIVE + 1
        BY WideBands, SdBands
      <4> QED
        BY <4>1, <4>2, RasterConstants
    <3>2. cb_band(8) \in Int
      BY BandsOrdered DEF BandsInOrder
    <3> QED
      BY <2>2, <2>3, <3>1, <3>2, RasterConstants DEF Within
  <2> QED
    BY <1>1, <2>3, <2>4, <2>5, BarIsShown
<1> QED
  BY <1>1, EntityTiming, SpecLineInv, PTL

\* A step that changes nothing keeps the bar in step.
LEMMA UnchangedBars == ASSUME BarsInStep, UNCHANGED entityVars PROVE BarsInStep'
<1>1. /\ BAR_MODE' = BAR_MODE /\ COLORSPACE' = COLORSPACE /\ zone' = zone /\ segment' = segment
      /\ hcount' = hcount /\ vcount' = vcount /\ lamp' = lamp /\ colour' = colour
  BY DEF entityVars, timingVars, syncVars, barVars
<1> QED
  BY <1>1, SameInstance, Zenon DEF BarsInStep

(* When the resets have ceased, one moment in step is enough: from it on the *)
(* picture is right for ever.  That there is such a moment is left to TLC.   *)
THEOREM PictureRemains ==
    ASSUME BarsFit
    PROVE  EntitySpec => ([]<>(FrameAligned /\ BarsInStep) => PictureAppears)
<1> DEFINE Good == FrameAligned /\ BarsInStep
           Seen == request => Shows(px, py)
<1>1. ASSUME [InClock /\ FrameAligned => FrameAligned']_timingVars,
             [ClockEntity /\ BarsInStep => BarsInStep']_entityVars,
             [ClockEntity]_entityVars, Good
      PROVE  Good'
  <2>1. CASE ClockEntity
    <3>1. InClock
      BY <2>1 DEF ClockEntity, InClock
    <3>2. FrameAligned'
      <4>1. CASE UNCHANGED timingVars
        BY <1>1, <4>1 DEF timingVars, syncVars, FrameAligned, ActiveLineAligned, Within
      <4> QED
        BY <1>1, <3>1, <4>1
    <3>3. BarsInStep'
      <4>1. CASE UNCHANGED entityVars
        BY <1>1, <4>1, UnchangedBars
      <4> QED
        BY <1>1, <2>1, <4>1
    <3> QED
      BY <3>2, <3>3
  <2>2. CASE UNCHANGED entityVars
    <3>1. FrameAligned'
      BY <1>1, <2>2 DEF entityVars, timingVars, syncVars, FrameAligned, ActiveLineAligned, Within
    <3> QED
      BY <1>1, <2>2, <3>1, UnchangedBars
  <2> QED
    BY <1>1, <2>1, <2>2
<1>2. EntitySpec => [](Good => Seen)
  BY PictureIsRight
<1>3. EntitySpec => [][InClock /\ FrameAligned => FrameAligned']_timingVars
  BY EntityTiming, StaysLocked, PTL
<1>4. EntitySpec => [][ClockEntity /\ BarsInStep => BarsInStep']_entityVars
  BY BarsStayInStep
<1> HIDE DEF Good, Seen
<1>5. EntitySpec /\ []<>Good => <>[]Seen
  BY <1>1, <1>2, <1>3, <1>4, PTL DEF EntitySpec
<1> QED
  BY <1>5, PTL DEF Good, Seen, PictureAppears

-----------------------------------------------------------------------------
(* With the control port driven by video_syncgen, no data island overlaps    *)
(* the video side, for all generics with room for an island: NoOverlap is an *)
(* invariant of ExtIslandTiming!ExtSpec.                                     *)
(*                                                                           *)
(* The sequencer does not look at the video side once it has started, so the *)
(* invariant ties its age to the position in the line: an island in flight   *)
(* began before PacketUntil (or in an earlier line), so in front of the      *)
(* picture the pixel counter is at most its age further.  The null island of *)
(* LITEHDMI does not look at all: it begins in the second pixel of a line,   *)
(* because vsync only changes where a line begins.                           *)
\* Clocks since the island started, meaningful from START_COUNT on.
Age == IF counter >= START_COUNT THEN counter - START_COUNT
                                 ELSE counter + 64 - START_COUNT

\* From the preamble to the end of the gap behind the island.
InFlight == counter \in 22..63 \/ counter \in 0..5

BegunInTime ==
    InFlight /\ ~vblank => \/ hcount <= PacketUntil + Age
                           \/ hcount >= PacketFrom

NullIslandInTime ==
    /\ vsyncOld # vsync => hcount = 0
    /\ encodeMode = "LITEHDMI" /\ counter # STOP_COUNT =>
           /\ hcount \in 1..48
           /\ counter = IF hcount <= 42 THEN hcount + 21 ELSE hcount - 43

ExtInv ==
    /\ LineInv
    /\ encodeMode \in {"HDMI", "LITEHDMI"}
    /\ counter \in Count
    /\ vsync \in BOOLEAN /\ vsyncOld \in BOOLEAN
    /\ BegunInTime
    /\ NullIslandInTime

\* The symbol on the link, told from the two counters.
Shown ==
    IF counter \in 22..29 THEN "dataPreamble"
    ELSE IF counter \in 30..31 \/ counter \in 0..1 THEN "dataGuard"
    ELSE IF counter \in 32..63 THEN "data"
    ELSE IF vblank THEN "control"
    ELSE IF Within(hcount, H_START, H_END) THEN "video"
    ELSE IF Within(hcount, GuardFrom, H_START) THEN "videoGuard"
    ELSE IF Within(hcount, PreambleFrom, GuardFrom) THEN "videoPreamble"
    ELSE "control"

(* How long a group has lasted can be read off the counter that ends it; and *)
(* a control period of less than four clocks is the one behind the picture,  *)
(* or behind an island that has just ended.                                  *)
WidthSeen ==
    /\ counter \in 22..29 => dwell = counter - 21
    /\ counter \in 30..31 => dwell = counter - 29
    /\ counter \in 32..63 => dwell = counter - 31
    /\ counter \in 0..1   => dwell = counter + 1
    /\ Shown = "videoPreamble" => dwell = hcount - PreambleFrom + 1
    /\ Shown = "videoGuard" => dwell = hcount - GuardFrom + 1
    /\ Shown = "control" =>
           \/ dwell >= 4
           \/ ~vblank /\ hcount >= H_END /\ dwell = hcount - H_END + 1
           \/ counter \in 2..4 /\ dwell = counter - 1

-----------------------------------------------------------------------------
LEMMA SequencerValues ==
    READY_COUNT = 21 /\ STOP_COUNT = 6 /\ START_COUNT = 22
BY DEF READY_COUNT, STOP_COUNT, START_COUNT

LEMMA SequencerInRange ==
    ASSUME counter \in Count, NEW lastByte \in BOOLEAN,
           SequencerEdge(lastByte, packetArea)
    PROVE  counter' \in Count
BY SequencerValues
   DEF Count, SequencerEdge, AcceptPacket, StartIsland, RunIsland,
       HoldSequencer, Increment, inReady

(* An island in flight has just been let go, or is one clock older.          *)
LEMMA InFlightAges ==
    ASSUME counter \in Count, NEW lastByte \in BOOLEAN,
           SequencerEdge(lastByte, packetArea), InFlight'
    PROVE  \/ packetArea /\ Age' = 0
           \/ InFlight /\ Age' = Age + 1
BY SequencerValues
   DEF Count, SequencerEdge, AcceptPacket, StartIsland, RunIsland,
       HoldSequencer, Increment, inReady, InFlight, Age

LEMMA AgeIsNat ==
    ASSUME counter \in Count, InFlight
    PROVE  Age \in 0..47
BY SequencerValues DEF Count, InFlight, Age

LEMMA EdgeKeepsBegunInTime ==
    ASSUME ExtInv, NEW scan \in BOOLEAN, NEW lastByte \in BOOLEAN,
           VideoEdge(scan), SequencerEdge(lastByte, packetArea)
    PROVE  BegunInTime'
<1> SUFFICES ASSUME InFlight', ~vblank'
             PROVE  hcount' <= (PacketUntil + Age)' \/ hcount' >= PacketFrom'
  BY DEF BegunInTime
<1>1. counter \in Count /\ counter' \in Count
  BY SequencerInRange DEF ExtInv
<1>2. Age' \in Nat
  BY <1>1, InFlightAges, AgeIsNat
<1>3. hcount \in Nat /\ hcount' = IF LineEnd THEN 0 ELSE hcount + 1
  BY AdvanceInRange DEF VideoEdge, ExtInv, LineInv, SyncTypeOK
<1>4. PacketUntil' = PacketUntil /\ PacketFrom' = PacketFrom
  BY DEF PacketUntil, PacketFrom
<1> USE ExtRoomAssumption
<1>5. CASE LineEnd
  BY <1>2, <1>3, <1>4, <1>5, LinePositions
<1>6. CASE ~LineEnd
  <2>1. ~vblank
    BY <1>6 DEF VideoEdge, Vertical
  <2>2. CASE packetArea /\ Age' = 0
    <3>1. hcount < PacketUntil \/ hcount >= PacketFrom
      BY <2>1, <2>2, <1>3, LinePositions
         DEF ExtInv, LineInv, ActiveLineAligned, Within
    <3> QED
      BY <1>3, <1>4, <1>6, <2>2, <3>1, LinePositions
  <2>3. CASE InFlight /\ Age' = Age + 1
    <3>1. hcount <= PacketUntil + Age \/ hcount >= PacketFrom
      BY <2>1, <2>3 DEF ExtInv, BegunInTime
    <3> QED
      BY <1>1, <1>3, <1>4, <1>6, <2>3, <3>1, AgeIsNat, LinePositions
  <2> QED
    BY <1>1, <2>2, <2>3, InFlightAges
<1> QED
  BY <1>5, <1>6

LEMMA EdgeKeepsNullIslandInTime ==
    ASSUME ExtInv, NEW scan \in BOOLEAN, NEW lastByte \in BOOLEAN,
           VideoEdge(scan), RunIslands(lastByte), vsyncOld' = vsync,
           UNCHANGED encodeMode
    PROVE  NullIslandInTime'
<1>1. hcount \in Nat /\ hcount' = IF LineEnd THEN 0 ELSE hcount + 1
  BY ExtRoomAssumption, AdvanceInRange DEF VideoEdge, ExtInv, LineInv, SyncTypeOK
<1>2. H_TOTAL >= 62 /\ H_TOTAL \in Nat
  BY LinePositions, ExtRoomAssumption
<1>3. vsyncOld' # vsync' => hcount' = 0
  BY <1>1 DEF VideoEdge, Vertical
<1>4. ASSUME encodeMode = "LITEHDMI", counter' # STOP_COUNT
      PROVE  /\ hcount' \in 1..48
             /\ counter' = IF hcount' <= 42 THEN hcount' + 21 ELSE hcount' - 43
  <2>1. RunLite
    BY <1>4 DEF RunIslands
  <2>2. CASE startBool
    <3>1. hcount = 0
      BY <2>2 DEF startBool, ExtInv, NullIslandInTime
    <3>2. ~LineEnd
      BY <1>2, <3>1 DEF LineEnd, At
    <3> QED
      BY <1>1, <2>1, <2>2, <3>1, <3>2, SequencerValues DEF RunLite
  <2>3. CASE ~startBool
    <3>1. counter # STOP_COUNT /\ counter' = Increment(counter)
      BY <1>4, <2>1, <2>3 DEF RunLite
    <3>2. /\ hcount \in 1..48
          /\ counter = IF hcount <= 42 THEN hcount + 21 ELSE hcount - 43
      BY <1>4, <3>1 DEF ExtInv, NullIslandInTime
    <3>3. hcount' = hcount + 1
      BY <1>1, <1>2, <3>2 DEF LineEnd, At
    <3> QED
      BY <1>4, <3>1, <3>2, <3>3, SequencerValues DEF Increment
  <2> QED
    BY <2>2, <2>3
<1> QED
  BY <1>3, <1>4 DEF NullIslandInTime

(* A null island in flight has the age of its line.                          *)
LEMMA NullIslandBegunInTime ==
    ASSUME LineInv, encodeMode = "LITEHDMI", NullIslandInTime
    PROVE  BegunInTime
<1> SUFFICES ASSUME InFlight PROVE hcount <= PacketUntil + Age
  BY DEF BegunInTime
<1>1. /\ hcount \in 1..48
      /\ counter = IF hcount <= 42 THEN hcount + 21 ELSE hcount - 43
  BY SequencerValues DEF NullIslandInTime, InFlight
<1>2. Age = hcount - 1
  BY <1>1, SequencerValues DEF InFlight, Age
<1> QED
  BY <1>1, <1>2, LinePositions, ExtRoomAssumption

LEMMA NullIslandBegunInTimeNext ==
    (LineInv /\ encodeMode = "LITEHDMI" /\ NullIslandInTime => BegunInTime)'
BY NullIslandBegunInTime, PTL

LEMMA ClockKeepsExtInv ==
    ASSUME ExtInv, NEW scan \in BOOLEAN, NEW lastByte \in BOOLEAN,
           ExtClock(scan, lastByte)
    PROVE  ExtInv'
<1>1. LineInv'
  BY ExtRoomAssumption, EdgeKeepsLineInv DEF ExtClock, ExtInv
<1>2. vsync' \in BOOLEAN /\ vsyncOld' \in BOOLEAN
  BY <1>1 DEF ExtClock, ExtInv, LineInv, SyncTypeOK
<1>3. encodeMode' = encodeMode
  BY DEF ExtClock
<1>4. NullIslandInTime'
  BY EdgeKeepsNullIslandInTime DEF ExtClock
<1>5. CASE encodeMode = "HDMI"
  <2>1. SequencerEdge(lastByte, packetArea)
    BY <1>5 DEF ExtClock, RunIslands
  <2>2. counter' \in Count /\ BegunInTime'
    BY <2>1, SequencerInRange, EdgeKeepsBegunInTime DEF ExtClock, ExtInv
  <2> QED
    BY <1>1, <1>2, <1>3, <1>4, <1>5, <2>2 DEF ExtInv
<1>6. CASE encodeMode = "LITEHDMI"
  <2>1. counter' \in Count
    BY <1>6, SequencerValues
       DEF ExtClock, RunIslands, RunLite, Increment, Count, ExtInv
  <2>2. BegunInTime'
    BY <1>1, <1>3, <1>4, <1>6, NullIslandBegunInTimeNext
  <2> QED
    BY <1>1, <1>2, <1>3, <1>4, <1>6, <2>1, <2>2 DEF ExtInv
<1> QED
  BY <1>5, <1>6 DEF ExtInv

LEMMA SpecExtInv == ExtSpec => []ExtInv
<1>1. ExtInit => ExtInv
  <2> SUFFICES ASSUME ExtInit PROVE ExtInv
    OBVIOUS
  <2>1. LineInv
    BY InitLineInv DEF ExtInit
  <2>2. encodeMode \in {"HDMI", "LITEHDMI"}
    BY ModesAssumption DEF ExtInit
  <2>3. counter = 6 /\ STOP_COUNT = 6
    BY SequencerValues DEF ExtInit, SequencerInit
  <2>4. vsync = FALSE /\ vsyncOld = FALSE
    BY DEF ExtInit, SyncInit
  <2>5. BegunInTime
    BY <2>3 DEF BegunInTime, InFlight
  <2>6. NullIslandInTime
    BY <2>3, <2>4, Zenon DEF NullIslandInTime
  <2>7. vsync \in BOOLEAN /\ vsyncOld \in BOOLEAN
    BY <2>4, Zenon
  <2>8. counter \in Count
    BY <2>3 DEF Count
  <2> QED
    BY <2>1, <2>2, <2>5, <2>6, <2>7, <2>8, Zenon DEF ExtInv
<1>2. ExtInv /\ [ExtNext]_linkVars => ExtInv'
  <2> SUFFICES ASSUME ExtInv, [ExtNext]_linkVars
               PROVE  ExtInv'
    OBVIOUS
  <2>1. ASSUME NEW scan \in BOOLEAN, NEW lastByte \in BOOLEAN,
               ExtClock(scan, lastByte)
        PROVE  ExtInv'
    BY <2>1, ClockKeepsExtInv
  <2>2. CASE ExtReset
    <3>1. LineInv'
      BY <2>2, ResetLineInv DEF ExtReset
    <3>2. encodeMode' = encodeMode /\ counter' = 6 /\ STOP_COUNT = 6
      BY <2>2, SequencerValues DEF ExtReset
    <3>3. vsync' = FALSE /\ vsyncOld' = FALSE
      BY <2>2 DEF ExtReset, SyncReset
    <3>4. BegunInTime' /\ counter' \in Count
      BY <3>2 DEF BegunInTime, InFlight, Count
    <3>5. NullIslandInTime'
      BY <3>2, <3>3, Zenon DEF NullIslandInTime, STOP_COUNT
    <3>6. vsync' \in BOOLEAN /\ vsyncOld' \in BOOLEAN
      BY <3>3, Zenon
    <3> QED
      BY <3>1, <3>2, <3>4, <3>5, <3>6 DEF ExtInv, Count
  <2>3. CASE UNCHANGED linkVars
    BY <2>3
       DEF linkVars, syncVars, LineInv, SyncTypeOK, ActiveLineAligned,
           BlankLineRests, Within, ExtInv, BegunInTime, NullIslandInTime,
           InFlight, Age
  <2> QED
    BY <2>1, <2>2, <2>3 DEF ExtNext, InExtClock
<1> QED
  BY <1>1, <1>2, PTL DEF ExtSpec

(* At most 47 clocks after the last start the island and its gap are over,   *)
(* in front of the video preamble.                                           *)
LEMMA ExtInvImpliesNoOverlap == ExtInv => NoOverlap
<1> SUFFICES ASSUME ExtInv, preamble \/ guardband \/ dataenable
             PROVE  ~(active \/ vguard \/ vpreamble)
  <2>1. /\ SyncVideoSide.active = active
        /\ SyncVideoSide.guard = vguard
        /\ SyncVideoSide.preamble = vpreamble
    BY DEF SyncVideoSide
  <2>2. /\ IslandSide.data = dataenable
        /\ IslandSide.guard = guardband
        /\ IslandSide.preamble = preamble
    BY DEF IslandSide
  <2> QED
    BY <2>1, <2>2, Zenon DEF NoOverlap, Collide
<1>1. InFlight /\ Age \in 0..47
  BY AgeIsNat, SequencerValues
     DEF ExtInv, InFlight, preamble, guardband, dataenable, Count
<1>2. CASE vblank
  BY <1>2 DEF ExtInv, LineInv, BlankLineRests, active
<1>3. CASE ~vblank
  <2>1. hcount < PreambleFrom \/ hcount >= H_END
    BY <1>1, <1>3, LinePositions, ExtRoomAssumption
       DEF ExtInv, LineInv, SyncTypeOK, BegunInTime
  <2> QED
    BY <1>3, <2>1, LinePositions, ExtRoomAssumption
       DEF ExtInv, LineInv, SyncTypeOK, ActiveLineAligned, Within, active
<1> QED
  BY <1>2, <1>3

-----------------------------------------------------------------------------
(* The symbols of the link, in terms of the counters.                        *)
LEMMA ShownIsSymbol == ExtInv => Symbol = Shown
<1> SUFFICES ASSUME ExtInv PROVE Symbol = Shown
  OBVIOUS
<1>1. Symbol = IF active THEN "video"
               ELSE IF vguard THEN "videoGuard"
               ELSE IF dataenable THEN "data"
               ELSE IF guardband THEN "dataGuard"
               ELSE IF vpreamble THEN "videoPreamble"
               ELSE IF preamble THEN "dataPreamble"
               ELSE "control"
  BY DEF Symbol, SelectSymbol, SyncVideoSide, IslandSide
<1>2. preamble \/ guardband \/ dataenable => ~(active \/ vpreamble \/ vguard)
  BY ExtInvImpliesNoOverlap DEF NoOverlap, Collide, SyncVideoSide, IslandSide
<1>3. counter \in 0..63
  BY DEF ExtInv, Count
<1>4. vblank => ~active /\ ~vpreamble /\ ~vguard
  BY DEF ExtInv, LineInv, BlankLineRests, active
<1>5. ~vblank => /\ active <=> Within(hcount, H_START, H_END)
                 /\ vguard <=> Within(hcount, GuardFrom, H_START)
                 /\ vpreamble <=> Within(hcount, PreambleFrom, GuardFrom)
  BY DEF ExtInv, LineInv, ActiveLineAligned, active
<1>6. CASE preamble \/ guardband \/ dataenable
  BY <1>1, <1>2, <1>3, <1>6 DEF Shown, preamble, guardband, dataenable
<1>7. CASE ~(preamble \/ guardband \/ dataenable)
  <2>1. Shown = IF vblank THEN "control"
                ELSE IF Within(hcount, H_START, H_END) THEN "video"
                ELSE IF Within(hcount, GuardFrom, H_START) THEN "videoGuard"
                ELSE IF Within(hcount, PreambleFrom, GuardFrom)
                     THEN "videoPreamble"
                ELSE "control"
    BY <1>3, <1>7 DEF Shown, preamble, guardband, dataenable
  <2> QED
    BY <1>1, <1>4, <1>5, <1>7, <2>1
<1> QED
  BY <1>6, <1>7

LEMMA ShownIsSymbolNext == (ExtInv => Symbol = Shown)'
BY ShownIsSymbol, PTL

(* One clock of the link: the widths stay visible, and a group only gives    *)
(* way to one that may follow it, when it has its full width.                *)
LinkStep ==
    /\ WidthSeen'
    /\ Shown' # Shown => /\ <<Shown, Shown'>> \in LegalSteps
                         /\ FullWidth(Shown, dwell)

\* One clock of the link, as far as it matters to the groups.
LinkClock ==
    /\ ExtInv /\ ExtInv' /\ WidthSeen
    /\ hcount' = IF LineEnd THEN 0 ELSE hcount + 1
    /\ ~LineEnd => vblank' = vblank
    /\ dwell \in 1..DwellCap
    /\ dwell' = IF Shown' = Shown THEN Saturate(dwell, DwellCap) ELSE 1

LEMMA LinkClockTypes ==
    ASSUME LinkClock
    PROVE  /\ counter \in 0..63 /\ counter' \in 0..63
           /\ hcount \in Nat /\ hcount < H_TOTAL
           /\ hcount' = IF hcount = H_TOTAL - 1 THEN 0 ELSE hcount + 1
           /\ hcount # H_TOTAL - 1 => vblank' = vblank
           /\ vblank \in BOOLEAN /\ vblank' \in BOOLEAN
           /\ dwell \in 1..33
           /\ Shown' = Shown =>
                  dwell' = IF dwell < 33 THEN dwell + 1 ELSE 33
           /\ Shown' # Shown => dwell' = 1
<1>1. DwellCap = 33
  BY DEF DwellCap, DATA_WIDTH
<1>2. H_TOTAL \in Nat /\ hcount \in 0..(H_TOTAL - 1)
  BY LinePositions, ExtRoomAssumption DEF LinkClock, ExtInv, LineInv, SyncTypeOK
<1>3. counter \in 0..63 /\ counter' \in 0..63
  BY DEF LinkClock, ExtInv, Count
<1>4. vblank \in BOOLEAN /\ vblank' \in BOOLEAN
  BY DEF LinkClock, ExtInv, LineInv, SyncTypeOK
<1> QED
  BY <1>1, <1>2, <1>3, <1>4 DEF LinkClock, LineEnd, At, Saturate

(* What the counter does: an island begins only in a rest of the video side. *)
LEMMA IslandMoves ==
    ASSUME ExtInv, NEW lastByte \in BOOLEAN, RunIslands(lastByte)
    PROVE  \/ InFlight /\ counter' = IF counter = 63 THEN 0 ELSE counter + 1
           \/ /\ counter \in {6, 21} /\ counter' = 22
              /\ vblank \/ hcount < PacketUntil \/ hcount >= PacketFrom
           \/ counter \in 6..21 /\ counter' \in 6..21
<1>1. counter \in 0..63
  BY DEF ExtInv, Count
<1>2. CASE encodeMode = "HDMI"
  <2>1. SequencerEdge(lastByte, packetArea)
    BY <1>2 DEF RunIslands
  <2>2. packetArea /\ ~vblank => hcount < PacketUntil \/ hcount >= PacketFrom
    BY LinePositions, ExtRoomAssumption
       DEF ExtInv, LineInv, SyncTypeOK, ActiveLineAligned, Within
  <2>3. \/ counter = 6 /\ counter' \in {6, 21}
        \/ counter = 21 /\ counter' = 21
        \/ counter = 21 /\ counter' = 22 /\ packetArea
        \/ counter \notin {6, 21} /\ counter' = Increment(counter)
    BY <2>1, SequencerValues
       DEF SequencerEdge, AcceptPacket, StartIsland, RunIsland, HoldSequencer,
           inReady
  <2> QED
    BY <1>1, <2>2, <2>3 DEF InFlight, Increment
<1>3. CASE encodeMode = "LITEHDMI"
  <2>1. RunLite
    BY <1>3 DEF RunIslands
  <2>2. CASE startBool
    <3>1. hcount = 0
      BY <2>2 DEF startBool, ExtInv, NullIslandInTime
    <3>2. counter = 6
      BY <1>3, <3>1, SequencerValues DEF ExtInv, NullIslandInTime
    <3> QED
      BY <2>1, <2>2, <3>1, <3>2, SequencerValues, LinePositions, ExtRoomAssumption
         DEF RunLite
  <2>3. CASE ~startBool
    <3>1. counter # 6 => InFlight
      BY <1>3, SequencerValues DEF ExtInv, NullIslandInTime, InFlight
    <3> QED
      BY <1>1, <2>1, <2>3, <3>1, SequencerValues
         DEF RunLite, Increment, InFlight
  <2> QED
    BY <2>2, <2>3
<1> QED
  BY <1>2, <1>3 DEF ExtInv

(* During an island and its gap: the counter alone decides.                  *)
LEMMA IslandLinkStep ==
    ASSUME LinkClock, InFlight,
           counter' = IF counter = 63 THEN 0 ELSE counter + 1
    PROVE  LinkStep
<1>0. /\ counter \in 0..63 /\ counter' \in 0..63
      /\ hcount \in Nat /\ hcount < H_TOTAL
      /\ hcount' = IF hcount = H_TOTAL - 1 THEN 0 ELSE hcount + 1
      /\ hcount # H_TOTAL - 1 => vblank' = vblank
      /\ dwell \in 1..33
      /\ Shown' = Shown => dwell' = IF dwell < 33 THEN dwell + 1 ELSE 33
      /\ Shown' # Shown => dwell' = 1
  BY LinkClockTypes
<1>1. vblank \/ hcount < PreambleFrom - 1 \/ hcount >= PacketFrom
  <2>1. Age \in 0..47
    BY AgeIsNat DEF LinkClock, ExtInv
  <2>2. vblank \/ hcount <= PacketUntil + Age \/ hcount >= PacketFrom
    BY DEF LinkClock, ExtInv, BegunInTime
  <2> QED
    BY <1>0, <2>1, <2>2, LinePositions, ExtRoomAssumption
<1>2. vblank' \/ hcount' < PreambleFrom \/ hcount' >= H_END
  BY <1>0, <1>1, LinePositions, ExtRoomAssumption
<1>3. WidthSeen
  BY DEF LinkClock
<1>4. /\ counter \in 2..5 => Shown = "control"
      /\ counter' \in 2..6 => Shown' = "control"
  BY <1>0, <1>1, <1>2, LinePositions, ExtRoomAssumption DEF Shown, Within
<1>5. CASE counter \in 22..63 \/ counter \in 0..1
  <2>1. Shown = IF counter \in 22..29 THEN "dataPreamble"
                ELSE IF counter \in 32..63 THEN "data"
                ELSE "dataGuard"
    BY <1>5 DEF Shown
  <2>2. Shown' = IF counter' \in 22..29 THEN "dataPreamble"
                 ELSE IF counter' \in 32..63 THEN "data"
                 ELSE IF counter' = 2 THEN "control"
                 ELSE "dataGuard"
    BY <1>0, <1>4, <1>5 DEF Shown
  <2>3. /\ counter \in 22..29 => dwell = counter - 21
        /\ counter \in 30..31 => dwell = counter - 29
        /\ counter \in 32..63 => dwell = counter - 31
        /\ counter \in 0..1   => dwell = counter + 1
    BY <1>3 DEF WidthSeen
  <2>4. WidthSeen'
    BY <1>0, <1>5, <2>1, <2>2, <2>3 DEF WidthSeen
  <2>5. Shown' # Shown => <<Shown, Shown'>> \in LegalSteps
    BY <1>0, <1>5, <2>1, <2>2 DEF LegalSteps
  <2>6. Shown' # Shown => FullWidth(Shown, dwell)
    BY <1>0, <1>5, <2>1, <2>2, <2>3
       DEF FullWidth, PREAMBLE_WIDTH, GUARDBAND_WIDTH, DATA_WIDTH
  <2> QED
    BY <2>4, <2>5, <2>6 DEF LinkStep
<1>6. CASE counter \in 2..5
  <2>1. Shown = "control" /\ Shown' = "control" /\ counter' = counter + 1
    BY <1>0, <1>4, <1>6
  <2>2. \/ dwell >= 4
        \/ ~vblank /\ hcount >= H_END /\ dwell = hcount - H_END + 1
        \/ counter \in 2..4 /\ dwell = counter - 1
    BY <1>3, <2>1 DEF WidthSeen
  <2>3. \/ dwell' >= 4
        \/ ~vblank' /\ hcount' >= H_END /\ dwell' = hcount' - H_END + 1
        \/ counter' \in 2..4 /\ dwell' = counter' - 1
    BY <1>0, <1>6, <2>1, <2>2, LinePositions, ExtRoomAssumption
  <2> QED
    BY <1>6, <2>1, <2>3 DEF LinkStep, WidthSeen
<1> QED
  BY <1>5, <1>6 DEF InFlight

(* The start of an island: the control period behind the picture is long     *)
(* enough there.                                                             *)
LEMMA StartLinkStep ==
    ASSUME LinkClock, counter \in {6, 21}, counter' = 22,
           vblank \/ hcount < PacketUntil \/ hcount >= PacketFrom
    PROVE  LinkStep
<1>1. hcount \in Nat /\ dwell \in 1..33
  BY LinkClockTypes
<1>2. Shown = "control" /\ Shown' = "dataPreamble"
  BY <1>1, LinePositions, ExtRoomAssumption DEF Shown, Within
<1>3. dwell' = 1
  BY <1>2, LinkClockTypes
<1>4. dwell >= 4
  <2>1. \/ dwell >= 4
        \/ ~vblank /\ hcount >= H_END /\ dwell = hcount - H_END + 1
    BY <1>2 DEF LinkClock, WidthSeen
  <2> QED
    BY <1>1, <2>1, LinePositions, ExtRoomAssumption
<1>5. WidthSeen'
  BY <1>2, <1>3 DEF WidthSeen
<1>6. <<Shown, Shown'>> \in LegalSteps
  BY <1>2 DEF LegalSteps
<1>7. FullWidth(Shown, dwell)
  BY <1>2, <1>4 DEF FullWidth, ISLANDGAP_WIDTH
<1> QED
  BY <1>5, <1>6, <1>7 DEF LinkStep

(* Without an island the pixel counter decides.                              *)
LEMMA VideoLinkStep ==
    ASSUME LinkClock, counter \in 6..21, counter' \in 6..21
    PROVE  LinkStep
<1>0. /\ hcount \in Nat /\ hcount < H_TOTAL
      /\ hcount' = IF hcount = H_TOTAL - 1 THEN 0 ELSE hcount + 1
      /\ hcount # H_TOTAL - 1 => vblank' = vblank
      /\ vblank \in BOOLEAN /\ vblank' \in BOOLEAN
      /\ dwell \in 1..33
      /\ Shown' = Shown => dwell' = IF dwell < 33 THEN dwell + 1 ELSE 33
      /\ Shown' # Shown => dwell' = 1
  BY LinkClockTypes
<1>1. /\ H_START \in Nat /\ H_END \in Nat /\ H_TOTAL \in Nat
      /\ H_START > 60 /\ H_START < H_END /\ H_END + 4 <= H_TOTAL
      /\ PreambleFrom = H_START - 10 /\ GuardFrom = H_START - 2
  BY LinePositions, ExtRoomAssumption
<1>2. Shown = IF vblank THEN "control"
              ELSE IF H_START <= hcount /\ hcount < H_END THEN "video"
              ELSE IF GuardFrom <= hcount /\ hcount < H_START THEN "videoGuard"
              ELSE IF PreambleFrom <= hcount /\ hcount < GuardFrom
                   THEN "videoPreamble"
              ELSE "control"
  BY DEF Shown, Within
<1>3. Shown' = IF vblank' THEN "control"
               ELSE IF H_START <= hcount' /\ hcount' < H_END THEN "video"
               ELSE IF GuardFrom <= hcount' /\ hcount' < H_START
                    THEN "videoGuard"
               ELSE IF PreambleFrom <= hcount' /\ hcount' < GuardFrom
                    THEN "videoPreamble"
               ELSE "control"
  BY DEF Shown, Within, H_START, H_END, GuardFrom, PreambleFrom
<1>4. /\ Shown = "videoPreamble" => dwell = hcount - PreambleFrom + 1
      /\ Shown = "videoGuard" => dwell = hcount - GuardFrom + 1
      /\ Shown = "control" =>
             \/ dwell >= 4
             \/ ~vblank /\ hcount >= H_END /\ dwell = hcount - H_END + 1
  BY DEF LinkClock, WidthSeen
<1>5. /\ Shown' = "videoPreamble" => dwell' = hcount' - PreambleFrom + 1
      /\ Shown' = "videoGuard" => dwell' = hcount' - GuardFrom + 1
      /\ Shown' = "control" =>
             \/ dwell' >= 4
             \/ ~vblank' /\ hcount' >= H_END /\ dwell' = hcount' - H_END + 1
      => WidthSeen'
  BY DEF WidthSeen, GuardFrom, PreambleFrom, H_START, H_END
<1>6. CASE vblank \/ hcount < PreambleFrom - 1 \/ hcount >= H_END
  <2>1. Shown = "control" /\ Shown' = "control"
    BY <1>0, <1>1, <1>2, <1>3, <1>6
  <2>2. \/ dwell' >= 4
        \/ ~vblank' /\ hcount' >= H_END /\ dwell' = hcount' - H_END + 1
    BY <1>0, <1>1, <1>4, <2>1
  <2> QED
    BY <1>5, <2>1, <2>2 DEF LinkStep
<1>7. CASE ~vblank /\ hcount = PreambleFrom - 1
  <2>1. Shown = "control" /\ Shown' = "videoPreamble" /\ dwell >= 4
    BY <1>0, <1>1, <1>2, <1>3, <1>4, <1>7
  <2>2. WidthSeen'
    BY <1>0, <1>1, <1>5, <1>7, <2>1
  <2>3. <<Shown, Shown'>> \in LegalSteps
    BY <2>1 DEF LegalSteps
  <2>4. FullWidth(Shown, dwell)
    BY <2>1 DEF FullWidth, ISLANDGAP_WIDTH
  <2> QED
    BY <2>2, <2>3, <2>4 DEF LinkStep
<1>8. CASE ~vblank /\ PreambleFrom <= hcount /\ hcount < GuardFrom
  <2>1. /\ Shown = "videoPreamble"
        /\ Shown' = IF hcount = GuardFrom - 1 THEN "videoGuard"
                                              ELSE "videoPreamble"
    BY <1>0, <1>1, <1>2, <1>3, <1>8
  <2>2. WidthSeen'
    BY <1>0, <1>1, <1>4, <1>5, <1>8, <2>1
  <2>3. Shown' # Shown => <<Shown, Shown'>> \in LegalSteps
    BY <2>1 DEF LegalSteps
  <2>4. Shown' # Shown => FullWidth(Shown, dwell)
    BY <1>1, <1>4, <2>1 DEF FullWidth, PREAMBLE_WIDTH
  <2> QED
    BY <2>2, <2>3, <2>4 DEF LinkStep
<1>9. CASE ~vblank /\ GuardFrom <= hcount /\ hcount < H_START
  <2>1. /\ Shown = "videoGuard"
        /\ Shown' = IF hcount = H_START - 1 THEN "video" ELSE "videoGuard"
    BY <1>0, <1>1, <1>2, <1>3, <1>9
  <2>2. WidthSeen'
    BY <1>0, <1>1, <1>4, <1>5, <1>9, <2>1
  <2>3. Shown' # Shown => <<Shown, Shown'>> \in LegalSteps
    BY <2>1 DEF LegalSteps
  <2>4. Shown' # Shown => FullWidth(Shown, dwell)
    BY <1>1, <1>4, <2>1 DEF FullWidth, GUARDBAND_WIDTH
  <2> QED
    BY <2>2, <2>3, <2>4 DEF LinkStep
<1>10. CASE ~vblank /\ H_START <= hcount /\ hcount < H_END
  <2>1. /\ Shown = "video"
        /\ Shown' = IF hcount = H_END - 1 THEN "control" ELSE "video"
    BY <1>0, <1>1, <1>2, <1>3, <1>10
  <2>2. WidthSeen'
    BY <1>0, <1>1, <1>5, <1>10, <2>1
  <2>3. Shown' # Shown => <<Shown, Shown'>> \in LegalSteps
    BY <2>1 DEF LegalSteps
  <2>4. FullWidth(Shown, dwell)
    BY <2>1 DEF FullWidth
  <2> QED
    BY <2>2, <2>3, <2>4 DEF LinkStep
<1> QED
  BY <1>0, <1>1, <1>6, <1>7, <1>8, <1>9, <1>10

LEMMA ClockIsLinkStep ==
    ASSUME ExtInv, WidthSeen, dwell \in 1..DwellCap,
           NEW scan \in BOOLEAN, NEW lastByte \in BOOLEAN,
           ExtClock(scan, lastByte)
    PROVE  /\ WidthSeen' /\ dwell' \in 1..DwellCap
           /\ Symbol' # Symbol => /\ <<Symbol, Symbol'>> \in LegalSteps
                                  /\ FullWidth(Symbol, dwell)
<1>1. ExtInv'
  BY ClockKeepsExtInv
<1>2. Symbol = Shown /\ Symbol' = Shown'
  BY <1>1, ShownIsSymbol, ShownIsSymbolNext
<1>3. LinkClock
  <2>1. dwell' = IF Shown' = Shown THEN Saturate(dwell, DwellCap) ELSE 1
    BY <1>2 DEF ExtClock, ObserveLink
  <2>2. hcount' = IF LineEnd THEN 0 ELSE hcount + 1
    BY AdvanceInRange DEF ExtClock, VideoEdge, ExtInv
  <2>3. ~LineEnd => vblank' = vblank
    BY DEF ExtClock, VideoEdge, Vertical
  <2> QED
    BY <1>1, <2>1, <2>2, <2>3 DEF LinkClock
<1>4. LinkStep
  BY <1>3, IslandMoves, IslandLinkStep, StartLinkStep, VideoLinkStep DEF ExtClock
<1>5. dwell' \in 1..DwellCap
  <2>1. DwellCap = 33
    BY DEF DwellCap, DATA_WIDTH
  <2> QED
    BY <1>3, <2>1, LinkClockTypes
<1> QED
  BY <1>2, <1>4, <1>5 DEF LinkStep

LEMMA SpecWidthSeen == ExtSpec => [](ExtInv /\ WidthSeen /\ dwell \in 1..DwellCap)
<1>1. ExtInit => WidthSeen /\ dwell \in 1..DwellCap
  <2> SUFFICES ASSUME ExtInit PROVE WidthSeen /\ dwell \in 1..DwellCap
    OBVIOUS
  <2>1. counter = 6 /\ dwell = 33 /\ DwellCap = 33 /\ vblank
    BY SequencerValues
       DEF ExtInit, SyncInit, SequencerInit, DwellCap, DATA_WIDTH
  <2> QED
    BY <2>1 DEF WidthSeen, Shown
<1>2. /\ ExtInv /\ WidthSeen /\ dwell \in 1..DwellCap /\ [ExtNext]_linkVars
      => WidthSeen' /\ (dwell \in 1..DwellCap)'
  <2> SUFFICES ASSUME ExtInv, WidthSeen, dwell \in 1..DwellCap, [ExtNext]_linkVars
               PROVE  WidthSeen' /\ dwell' \in 1..DwellCap
    BY DEF DwellCap
  <2>1. ASSUME NEW scan \in BOOLEAN, NEW lastByte \in BOOLEAN,
               ExtClock(scan, lastByte)
        PROVE  WidthSeen' /\ dwell' \in 1..DwellCap
    BY <2>1, ClockIsLinkStep
  <2>2. CASE ExtReset
    <3>1. counter' = 6 /\ dwell' = 33 /\ DwellCap = 33 /\ vblank'
      BY <2>2, SequencerValues DEF ExtReset, SyncReset, DwellCap, DATA_WIDTH
    <3> QED
      BY <3>1 DEF WidthSeen, Shown
  <2>3. CASE UNCHANGED linkVars
    BY <2>3 DEF linkVars, syncVars, WidthSeen, Shown, Within
  <2> QED
    BY <2>1, <2>2, <2>3 DEF ExtNext, InExtClock
<1> QED
  BY <1>1, <1>2, SpecExtInv, PTL DEF ExtSpec

(* The counter of the sequencer and the width of a symbol keep their ranges. *)
THEOREM ExtTypes == ExtSpec => []ExtTypeOK
<1>1. ExtInv /\ dwell \in 1..DwellCap /\ encodeMode \in EncodeModes => ExtTypeOK
  BY DEF ExtInv, LineInv, ExtTypeOK
<1>2. ExtInit => encodeMode \in EncodeModes
  BY DEF ExtInit
<1>3. encodeMode \in EncodeModes /\ [ExtNext]_linkVars => (encodeMode \in EncodeModes)'
  BY DEF ExtNext, InExtClock, ExtClock, ExtReset, linkVars
<1> QED
  BY <1>1, <1>2, <1>3, SpecWidthSeen, PTL DEF ExtSpec

(* The packet area that video_syncgen drives on hdmicontrol(3) keeps the     *)
(* islands of hdmi_tx away from hdmicontrol(2 downto 0), for all generics    *)
(* with room for an island and all start positions.                          *)
THEOREM ExtIslandsNeverOverlapVideo == ExtSpec => []NoOverlap
BY SpecExtInv, ExtInvImpliesNoOverlap, PTL

(* The two designs that share the link through the control port keep its     *)
(* protocol together: whenever a packet is offered, and with a null island   *)
(* in each frame that asks nobody, every group has its announcement, its     *)
(* width and its four control characters from the next.                      *)
THEOREM ExtGroupsAreInOrder == ExtSpec => LinkProtocol
<1>1. ASSUME ExtInv, WidthSeen, dwell \in 1..DwellCap,
             InExtClock, Symbol' # Symbol
      PROVE  /\ <<Symbol, Symbol'>> \in LegalSteps
             /\ FullWidth(Symbol, dwell)
  BY <1>1, ClockIsLinkStep DEF InExtClock
<1>2. ExtInv /\ WidthSeen /\ dwell \in 1..DwellCap
          => [InExtClock /\ Symbol' # Symbol =>
                 /\ <<Symbol, Symbol'>> \in LegalSteps
                 /\ FullWidth(Symbol, dwell)]_linkVars
  BY <1>1
<1> QED
  BY <1>2, SpecWidthSeen, PTL DEF LinkProtocol

=============================================================================
