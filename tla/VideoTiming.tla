----------------------------- MODULE VideoTiming -----------------------------
(* The video timing a display and a frame reader rely on: video_syncgen on   *)
(* its own, for every start position at once.  "pixels" observes how many    *)
(* pixels were requested since the scan enable was last latched.             *)
EXTENDS SyncGen

CONSTANT FRAME_TOP     \* the line of framestart

\* The modes used with HDMI; the source warns of others.
ASSUME RoomAssumption == RoomForIsland
ASSUME FrameTopAssumption == FRAME_TOP \in 0..(V_TOTAL - 1)

VARIABLES hsOld,       \* hs_old_reg
          pixels,      \* pixels requested in this frame (observer)
          lines        \* for each START_SIG, linestarts since the last
                       \* framestart (observer)

timingVars == <<syncVars, hsOld, pixels, lines>>

\* START_SIG: one-clock pulses, or pulses of the width of hsync.
StartSigs == {"SINGLE", "WIDTH"}

framestart(sig) ==
    /\ vcount = FRAME_TOP
    /\ IF sig = "SINGLE" THEN At(0) ELSE hsync

hsyncRiseFault == ~hsOld                        \* any time but in hsync
hsyncRise == ~hsOld /\ hsync

linestart(sig) ==
    /\ scanEna /\ ~vblank
    /\ IF sig = "SINGLE" THEN hsyncRise ELSE hsync

Init ==
    /\ SyncInit
    /\ hsOld = FALSE
    /\ pixels = 0
    /\ lines = [sig \in StartSigs |-> 0]

frameRises(sig) == ~framestart(sig) /\ framestart(sig)'
lineRises(sig)  == ~linestart(sig) /\ linestart(sig)'

ObserveReader ==
    /\ pixels' = IF vsyncRise THEN 0
                 ELSE IF pixrequest THEN pixels + 1
                 ELSE pixels
    /\ lines' = [sig \in StartSigs |->
                    IF frameRises(sig) THEN 0
                    ELSE IF lineRises(sig) THEN lines[sig] + 1
                    ELSE lines[sig]]

Clock(scan) ==
    /\ VideoEdge(scan)
    /\ hsOld' = hsync
    /\ ObserveReader

Reset ==
    /\ SyncReset
    /\ hsOld' = FALSE
    /\ pixels' = 0
    /\ lines' = [sig \in StartSigs |-> 0]

InClock == \E scan \in BOOLEAN : Clock(scan)

Next == InClock \/ Reset

Spec == Init /\ [][Next]_timingVars

(* The clock runs on, and resets cease.                                      *)
FairSpec == Spec /\ WF_timingVars(InClock) /\ <>[][InClock]_timingVars

-----------------------------------------------------------------------------
TypeOK ==
    /\ SyncTypeOK
    /\ hsOld \in BOOLEAN
    /\ pixels \in 0..(H_ACTIVE * V_ACTIVE)
    /\ lines \in [StartSigs -> 0..V_ACTIVE]

(* scan_ena may change at any clock, asynchronously: the reader is           *)
(* nevertheless asked for a whole frame or for nothing, counted in pixels    *)
(* between two vertical syncs and in lines between two framestarts.          *)
WholeFrames ==
    [][InClock =>
          /\ vsyncRise => pixels \in {0, H_ACTIVE * V_ACTIVE}
          /\ \A sig \in StartSigs :
                frameRises(sig) => lines[sig] \in {0, V_ACTIVE}]_timingVars

(* No pixel is requested before its line has been announced by linestart,    *)
(* and each line is announced once, with either form of the pulses.          *)
LinesAnnounced ==
    pixrequest =>
        \A sig \in StartSigs : lines[sig] = pixels \div H_ACTIVE + 1

(* All the registers of the generator have the value that the position of    *)
(* the counters gives them.                                                  *)
FrameAligned ==
    /\ hsync  <=> (hcount < H_SYNC)
    /\ hblank <=> ~Within(hcount, H_START, H_END)
    /\ vsync  <=> (vcount < V_SYNC)
    /\ vblank <=> ~Within(vcount, V_START, V_END)
    /\ vblank => ~request /\ ~vpreamble /\ ~vguard /\ packetArea
    /\ ActiveLineAligned

(* From every start position, and from registers that contradict it, the     *)
(* generator locks to its counters and never loses them again: the re-sync   *)
(* options only cost the first frame.                                        *)
Locks == <>[]FrameAligned

=============================================================================
