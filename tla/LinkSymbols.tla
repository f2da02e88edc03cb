----------------------------- MODULE LinkSymbols -----------------------------
(* What the TMDS link carries in an HDMI stream: the groups of symbols, the  *)
(* widths fixed for them, the selection that hdmi_tx makes between the video *)
(* side and the data island side, and the order of groups a sink accepts.    *)
(* hdmi_tx and video_syncgen declare the same width constants.               *)
EXTENDS Integers

PREAMBLE_WIDTH   == 8
GUARDBAND_WIDTH  == 2
DATA_WIDTH       == 32
ISLANDGAP_WIDTH  == 4
\* The additional 2 is the source's correction for the start delay.
PACKETAREA_WIDTH == PREAMBLE_WIDTH + GUARDBAND_WIDTH * 2 + DATA_WIDTH + 2

(* mode_sig and, in a control period, the preamble code of ctrl_sig, with    *)
(* the priorities of the two selections.  v: the video side (control_sig),   *)
(* d: the island side.                                                       *)
SelectSymbol(v, d) ==
    IF v.active         THEN "video"
    ELSE IF v.guard     THEN "videoGuard"
    ELSE IF d.data      THEN "data"
    ELSE IF d.guard     THEN "dataGuard"
    ELSE IF v.preamble  THEN "videoPreamble"
    ELSE IF d.preamble  THEN "dataPreamble"
    ELSE "control"

\* Both sides claim the link: one of them would be dropped silently.
Collide(v, d) ==
    /\ v.active \/ v.guard \/ v.preamble
    /\ d.data \/ d.guard \/ d.preamble

LegalSteps ==
    { <<"control", "dataPreamble">>, <<"dataPreamble", "dataGuard">>,
      <<"dataGuard", "data">>, <<"data", "dataGuard">>,
      <<"dataGuard", "control">>, <<"control", "videoPreamble">>,
      <<"videoPreamble", "videoGuard">>, <<"videoGuard", "video">>,
      <<"video", "control">> }

FullWidth(symbol, width) ==
    /\ symbol \in {"dataPreamble", "videoPreamble"} => width = PREAMBLE_WIDTH
    /\ symbol \in {"dataGuard", "videoGuard"}       => width = GUARDBAND_WIDTH
    /\ symbol = "data"                              => width = DATA_WIDTH
    /\ symbol = "control"                           => width >= ISLANDGAP_WIDTH

\* Saturation of an observer of widths: one more than the longest fixed one.
DwellCap == DATA_WIDTH + 1

Saturate(n, cap) == IF n < cap THEN n + 1 ELSE cap

=============================================================================
