------------------------------- MODULE SyncGen -------------------------------
(* video_syncgen: a pixel counter and a line counter, and registers that are *)
(* set at one position of the counters and cleared at another.  The generics *)
(* are the constants; StartPositions holds the pairs START_HPOS, START_VPOS  *)
(* of the instances considered (an instance resets to one pair).             *)
EXTENDS LinkSymbols

CONSTANTS H_TOTAL, H_SYNC, H_BACKP, H_ACTIVE,
          V_TOTAL, V_SYNC, V_BACKP, V_ACTIVE,
          EARLY_REQ, StartPositions

(* The severity FAILURE assertions, and those that hold for any real mode.   *)
ASSUME GenericsAssumption ==
    /\ {H_TOTAL, H_SYNC, H_BACKP, H_ACTIVE,
        V_TOTAL, V_SYNC, V_BACKP, V_ACTIVE, EARLY_REQ} \subseteq Nat
    /\ H_SYNC > 0 /\ H_ACTIVE > 0 /\ V_SYNC > 0 /\ V_ACTIVE > 0
    /\ H_SYNC + H_BACKP + H_ACTIVE <= H_TOTAL
    /\ H_SYNC + H_BACKP > EARLY_REQ
    /\ V_SYNC + V_BACKP + V_ACTIVE <= V_TOTAL
    /\ StartPositions \subseteq (0..(H_TOTAL - 1)) \X (0..(V_TOTAL - 1))

(* The severity WARNING assertion: the blanking has room for one island.     *)
RoomForIsland ==
    /\ H_SYNC + H_BACKP > PACKETAREA_WIDTH + ISLANDGAP_WIDTH
                            + PREAMBLE_WIDTH + GUARDBAND_WIDTH
    /\ H_SYNC + H_BACKP + H_ACTIVE + ISLANDGAP_WIDTH <= H_TOTAL

VARIABLES
    hcount, vcount,
    hsync, vsync, csync,     \* hsync_reg, vsync_reg, csync_reg
    hblank, vblank,          \* hblank_reg, vblank_reg
    request,                 \* request_reg
    vpreamble, vguard,       \* preamble_reg, guard_reg
    packetArea,              \* packet_reg
    vsOld,                   \* vs_old_reg
    scanIn, scanEna          \* scan_in_reg, scanena_reg

syncVars == <<hcount, vcount, hsync, vsync, csync, hblank, vblank, request,
              vpreamble, vguard, packetArea, vsOld, scanIn, scanEna>>

H_START == H_SYNC + H_BACKP          \* first active pixel of a line
H_END   == H_START + H_ACTIVE        \* first pixel after it
V_START == V_SYNC + V_BACKP
V_END   == V_START + V_ACTIVE

-----------------------------------------------------------------------------
SyncInit ==
    /\ \E start \in StartPositions : hcount = start[1] /\ vcount = start[2]
    /\ hsync = FALSE /\ vsync = FALSE /\ csync = FALSE
    /\ hblank = TRUE /\ vblank = TRUE
    /\ request = FALSE /\ vpreamble = FALSE /\ vguard = FALSE
    /\ packetArea = FALSE
    /\ vsOld = FALSE /\ scanIn = FALSE /\ scanEna = FALSE

SetClearFault(set, clear, old) == set \/ old          \* clear branch lost
\* "if set then '1' elsif clear then '0'"
SetClear(set, clear, old) == set \/ (old /\ ~clear)

At(position) == hcount = position
LineEnd      == At(H_TOTAL - 1)
LastLine     == vcount = V_TOTAL - 1

Advance ==
    /\ hcount' = IF LineEnd THEN 0 ELSE hcount + 1
    /\ vcount' = IF ~LineEnd THEN vcount
                 ELSE IF LastLine THEN 0
                 ELSE vcount + 1

Horizontal ==
    /\ hsync'  = SetClear(LineEnd, At(H_SYNC - 1), hsync)
    /\ csync'  = SetClear(LineEnd, \/ ~vsync /\ At(H_SYNC - 1)
                                   \/ vsync /\ At(H_TOTAL - H_SYNC), csync)
    /\ hblank' = ~SetClear(At(H_START - 1), At(H_END - 1), ~hblank)

VerticalFault ==                         \* vsync one line too long
    IF LineEnd
    THEN /\ vsync'  = SetClear(LastLine, vcount = V_SYNC, vsync)
         /\ vblank' = ~SetClear(vcount = V_START - 1,
                                vcount = V_END - 1, ~vblank)
    ELSE UNCHANGED <<vsync, vblank>>

Vertical ==
    IF LineEnd
    THEN /\ vsync'  = SetClear(LastLine, vcount = V_SYNC - 1, vsync)
         /\ vblank' = ~SetClear(vcount = V_START - 1,
                                vcount = V_END - 1, ~vblank)
    ELSE UNCHANGED <<vsync, vblank>>

PreambleFrom == H_START - (PREAMBLE_WIDTH + GUARDBAND_WIDTH)
GuardFrom    == H_START - GUARDBAND_WIDTH
PacketUntilFault == H_START - PACKETAREA_WIDTH  \* no room for the video side
PacketUntil  == H_START - (PACKETAREA_WIDTH + ISLANDGAP_WIDTH
                            + PREAMBLE_WIDTH + GUARDBAND_WIDTH)
PacketFrom   == H_END + ISLANDGAP_WIDTH

(* The registers that only move in the active lines.                         *)
ActiveLine ==
    /\ ~vblank
    /\ request'    = SetClear(At(H_START - EARLY_REQ - 1),
                              At(H_END - EARLY_REQ - 1), request)
    /\ vpreamble'  = SetClear(At(PreambleFrom - 1), At(GuardFrom - 1), vpreamble)
    /\ vguard'     = SetClear(At(GuardFrom - 1), At(H_START - 1), vguard)
    /\ packetArea' = ~SetClear(At(PacketUntil - 1), At(PacketFrom - 1),
                               ~packetArea)

BlankLineFault ==                        \* the else branch left out
    /\ vblank
    /\ UNCHANGED <<request, vpreamble, vguard, packetArea>>
BlankLine ==
    /\ vblank
    /\ packetArea' = TRUE
    /\ UNCHANGED <<request, vpreamble, vguard>>

vsyncRise == ~vsOld /\ vsync

LatchScanFault(scan) ==
    /\ vsOld' = vsync
    /\ scanIn' = scan
    /\ scanEna' = IF LineEnd THEN scanIn ELSE scanEna    \* latched by every line
LatchScan(scan) ==
    /\ vsOld' = vsync
    /\ scanIn' = scan
    /\ scanEna' = IF vsyncRise THEN scanIn ELSE scanEna

(* One edge of video_clk.  scan_ena is asynchronous: any value is sampled.   *)
VideoEdge(scan) ==
    /\ Advance
    /\ Horizontal
    /\ Vertical
    /\ ActiveLine \/ BlankLine
    /\ LatchScan(scan)

(* The asynchronous reset.                                                   *)
SyncReset ==
    /\ \E start \in StartPositions : hcount' = start[1] /\ vcount' = start[2]
    /\ hsync' = FALSE /\ vsync' = FALSE /\ csync' = FALSE
    /\ hblank' = TRUE /\ vblank' = TRUE
    /\ request' = FALSE /\ vpreamble' = FALSE /\ vguard' = FALSE
    /\ packetArea' = FALSE
    /\ vsOld' = FALSE /\ scanIn' = FALSE /\ scanEna' = FALSE

active     == ~hblank /\ ~vblank
pixrequest == request /\ scanEna

\* hdmicontrol(2 downto 0); hdmicontrol(3) is packetArea.
SyncVideoSide == [active |-> active, guard |-> vguard, preamble |-> vpreamble]

-----------------------------------------------------------------------------
SyncTypeOK ==
    /\ hcount \in 0..(H_TOTAL - 1)
    /\ vcount \in 0..(V_TOTAL - 1)
    /\ hsync \in BOOLEAN /\ vsync \in BOOLEAN /\ csync \in BOOLEAN
    /\ hblank \in BOOLEAN /\ vblank \in BOOLEAN
    /\ request \in BOOLEAN /\ vpreamble \in BOOLEAN /\ vguard \in BOOLEAN
    /\ packetArea \in BOOLEAN
    /\ vsOld \in BOOLEAN /\ scanIn \in BOOLEAN /\ scanEna \in BOOLEAN

Within(n, from, until) == from <= n /\ n < until

(* In a line that is not blanked vertically, every register set and cleared  *)
(* along the line has the value that its position gives it: "active" lasts   *)
(* H_ACTIVE pixels from H_START, the request leads it by EARLY_REQ, preamble *)
(* and guard band end where it begins, and packets are refused from the last *)
(* clock at which an island still fits.  Wherever the counters started.      *)
ActiveLineAligned ==
    ~vblank =>
        /\ hblank     <=> ~Within(hcount, H_START, H_END)
        /\ request    <=> Within(hcount, H_START - EARLY_REQ, H_END - EARLY_REQ)
        /\ vpreamble  <=> Within(hcount, PreambleFrom, GuardFrom)
        /\ vguard     <=> Within(hcount, GuardFrom, H_START)
        /\ packetArea <=> ~Within(hcount, PacketUntil, PacketFrom)

=============================================================================
