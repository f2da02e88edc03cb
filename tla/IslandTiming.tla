----------------------------- MODULE IslandTiming -----------------------------
(* How hdmi_tx fits data islands between the lines of video when it derives  *)
(* the link control signals from "active" itself (gen_intgen).  The pixel    *)
(* stream is delayed by DELAY_DISTANCE = 60 clocks; active_reg holds the     *)
(* last 64 values of "active", so that the start of the next line is seen    *)
(* early enough to refuse an island that would not fit.                      *)
(*                                                                           *)
(* MinActive and MinBlank are the shortest runs of active = 1 and active = 0 *)
(* the video generator produces.  delayLine tells which stages of the pixel  *)
(* delay hold a pixel of the picture, sampled with active = 1 since the last *)
(* reset; hdmi_tx_delay has no reset and its contents carry no other mark.   *)
(* The link protocol is observed by "dwell": how long the symbol on the link *)
(* has been there.                                                           *)
EXTENDS IslandSequencer, LinkSymbols

CONSTANTS MinActive, MinBlank

ASSUME RunAssumption ==
    /\ MinActive \in Nat /\ MinActive >= 63
    /\ MinBlank \in Nat \ {0}

VARIABLES activeReg,   \* active_reg: 0 is the oldest sample, 63 the newest
          delayLine,   \* ram of hdmi_tx_delay, marked: holds a pixel
          run,         \* clocks the newest level has lasted (the generator's)
          dwell        \* clocks the symbol on the link has lasted (observer)

timingVars == <<counter, activeReg, delayLine, run, dwell>>

DELAY_DISTANCE   == PACKETAREA_WIDTH + ISLANDGAP_WIDTH
                        + PREAMBLE_WIDTH + GUARDBAND_WIDTH
LEFTFault        == DELAY_DISTANCE + 5 - 1          \* one tap too many
LEFT             == DELAY_DISTANCE + 4 - 1          \* active_reg'left

\* Saturation of run: beyond both minima, and beyond the 64 clocks of the
\* register that fairness speaks of.
RunCap == MinActive + MinBlank

-----------------------------------------------------------------------------
(* control_sig, bit by bit.                                                  *)
videoPreambleFault == ~activeReg[6] /\ activeReg[13]     \* 7 clocks only
allowPacketFault   == ~activeReg[0]                      \* does not look ahead

videoActive   == activeReg[4]
videoPreamble == ~activeReg[4 + GUARDBAND_WIDTH]
                    /\ activeReg[4 + GUARDBAND_WIDTH + PREAMBLE_WIDTH]
videoGuard    == ~activeReg[4] /\ activeReg[4 + GUARDBAND_WIDTH]
allowPacket   == ~activeReg[0] /\ ~activeReg[LEFT]

VideoSide  == [active   |-> videoActive,
               guard    |-> videoGuard,
               preamble |-> videoPreamble]
IslandSide == [data |-> dataenable, guard |-> guardband, preamble |-> preamble]

Symbol == SelectSymbol(VideoSide, IslandSide)

-----------------------------------------------------------------------------
Init ==
    /\ SequencerInit
    /\ activeReg = [i \in 0..LEFT |-> FALSE]
    /\ delayLine = [i \in 0..DELAY_DISTANCE - 1 |-> FALSE]
    /\ run = RunCap
    /\ dwell = DwellCap

(* A video generator that keeps each level for its minimum run.              *)
GeneratorMayEmit(active) ==
    active # activeReg[LEFT] =>
        run >= IF activeReg[LEFT] THEN MinActive ELSE MinBlank

ShiftActive(active) ==
    /\ activeReg' = [i \in 0..LEFT |-> IF i = LEFT THEN active
                                                   ELSE activeReg[i + 1]]
    /\ run' = IF active = activeReg[LEFT] THEN Saturate(run, RunCap) ELSE 1

ShiftPixels(active) ==
    delayLine' = [i \in 0..DELAY_DISTANCE - 1 |-> IF i = 0 THEN active
                                                 ELSE delayLine[i - 1]]

ObserveLink ==
    dwell' = IF Symbol' = Symbol THEN Saturate(dwell, DwellCap) ELSE 1

Clock(active, lastByte) ==
    /\ GeneratorMayEmit(active)
    /\ ShiftActive(active)
    /\ ShiftPixels(active)
    /\ SequencerEdge(lastByte, allowPacket)
    /\ ObserveLink

(* The asynchronous reset, shared with the video generator, which restarts   *)
(* in blanking.                                                              *)
Reset ==
    /\ counter' = STOP_COUNT
    /\ activeReg' = [i \in 0..LEFT |-> FALSE]
    /\ delayLine' = [i \in 0..DELAY_DISTANCE - 1 |-> FALSE]
    /\ run' = RunCap
    /\ dwell' = DwellCap

LineStarts(lastByte) == ~activeReg[LEFT] /\ Clock(TRUE, lastByte)
LineEnds(lastByte)   == activeReg[LEFT]  /\ Clock(FALSE, lastByte)
SameLevel(lastByte)  == Clock(activeReg[LEFT], lastByte)

Next == \/ \E lastByte \in BOOLEAN : \/ LineStarts(lastByte)
                                     \/ LineEnds(lastByte)
                                     \/ SameLevel(lastByte)
        \/ Reset

Spec == Init /\ [][Next]_timingVars

InClock == \E active, lastByte \in BOOLEAN : Clock(active, lastByte)

\* The newest 64 samples are blank, as between any two lines of a mode with
\* the 64 clocks of horizontal blanking that audio packets need.
WideBlank == ~activeReg[LEFT] /\ run >= 64

(* The clock runs on, resets cease, and the generator keeps coming back to a *)
(* blanking of 64 clocks; lastByte stays free.                               *)
FairSpec ==
    /\ Spec
    /\ WF_timingVars(InClock)
    /\ <>[][InClock]_timingVars
    /\ []<>WideBlank

-----------------------------------------------------------------------------
TypeOK ==
    /\ counter \in Count
    /\ activeReg \in [0..LEFT -> BOOLEAN]
    /\ delayLine \in [0..DELAY_DISTANCE - 1 -> BOOLEAN]
    /\ run \in 1..RunCap
    /\ dwell \in 1..DwellCap

(* An island in flight (preamble, guard bands, data) and the video side      *)
(* (video preamble, guard band, pixels) never claim the link together: the   *)
(* selections of mode_sig and ctrl_sig would silently drop one of the two.   *)
NoOverlap == ~Collide(VideoSide, IslandSide)

(* The receiver sees each group in the order of the link protocol: no guard  *)
(* band without its preamble, no pixel or packet data without a guard band,  *)
(* no island directly against a line of video.  Every group lasts exactly as *)
(* long as the protocol fixes, and at least four control characters separate *)
(* an island from a line on both sides.                                      *)
LinkProtocol ==
    [][InClock /\ Symbol' # Symbol =>
        /\ <<Symbol, Symbol'>> \in LegalSteps
        /\ FullWidth(Symbol, dwell)]_timingVars

(* The pixel that leaves the delay line while the link says "video" was      *)
(* sampled with active = 1: tap 4 of active_reg and the last stage of        *)
(* hdmi_tx_delay stay the same age.                                          *)
PixelAligned == videoActive => delayLine[DELAY_DISTANCE - 1]

(* A loaded packet is sent: with blanking of at least 64 clocks the window   *)
(* test on the two ends of active_reg succeeds between any two lines.        *)
PacketIsSent == counter = READY_COUNT ~> counter # READY_COUNT

=============================================================================
