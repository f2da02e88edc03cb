---------------------------- MODULE VideoSyncgen ------------------------------
(* video_syncgen as a whole: the counters with the outputs derived from them,*)
(* and the colour bar, which follows the same counters on its own.           *)
EXTENDS VideoTiming, ColorBar

entityVars == <<timingVars, barVars>>

InitEntity == Init /\ BarInit

ClockEntity == (\E scan \in BOOLEAN : Clock(scan)) /\ BarEdge
ResetEntity == Reset /\ BarReset

NextEntity == ClockEntity \/ ResetEntity

(* The clock runs on, and resets cease.                                      *)
EntitySpec ==
    /\ InitEntity /\ [][NextEntity]_entityVars
    /\ WF_entityVars(ClockEntity) /\ <>[][ClockEntity]_entityVars

=============================================================================
