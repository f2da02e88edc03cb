--------------------------- MODULE ExtIslandTiming ---------------------------
(* hdmi_tx with USE_EXTCONTROL = "ON": video_syncgen drives the control      *)
(* port, the pixels are not delayed, and the packet area that the generator  *)
(* computed from its generics takes the place of the window test on          *)
(* active_reg.  Blanking must then have room for an island (RoomForIsland,   *)
(* only a warning in the source).                                            *)
(*                                                                           *)
(* With ENCODE_MODE = "LITEHDMI" there is one null packet per frame: its     *)
(* island starts one clock after vsync falls, without asking whether packets *)
(* are allowed (control(3) is not read), so that only the place of vsync in  *)
(* the frame keeps it away from the picture.                                 *)
EXTENDS SyncGen, IslandSequencer

CONSTANT EncodeModes     \* the values of ENCODE_MODE considered

ASSUME ExtRoomAssumption == RoomForIsland
ASSUME ModesAssumption == EncodeModes \subseteq {"HDMI", "LITEHDMI"}

VARIABLES encodeMode, \* ENCODE_MODE of this instance
          vsyncOld,   \* vsync_old_reg of hdmi_tx
          dwell       \* clocks the symbol on the link has lasted (observer)

linkVars == <<syncVars, encodeMode, counter, vsyncOld, dwell>>

IslandSide == [data |-> dataenable, guard |-> guardband, preamble |-> preamble]

Symbol == SelectSymbol(SyncVideoSide, IslandSide)

ExtInit ==
    /\ SyncInit
    /\ encodeMode \in EncodeModes
    /\ SequencerInit
    /\ vsyncOld = FALSE
    /\ dwell = DwellCap

startBool == vsyncOld /\ ~vsync

RunLiteFault ==                             \* no rest between two frames
    counter' = IF startBool THEN START_COUNT ELSE Increment(counter)
RunLite ==
    counter' = IF startBool THEN START_COUNT
               ELSE IF counter # STOP_COUNT THEN Increment(counter)
               ELSE counter

ObserveLink ==
    dwell' = IF Symbol' = Symbol THEN Saturate(dwell, DwellCap) ELSE 1

(* lastByte: the island encoder is offered the last byte of a packet.        *)
RunIslands(lastByte) ==
    \/ encodeMode = "HDMI" /\ SequencerEdge(lastByte, packetArea)
    \/ encodeMode = "LITEHDMI" /\ RunLite

ExtClock(scan, lastByte) ==
    /\ VideoEdge(scan)
    /\ RunIslands(lastByte)
    /\ vsyncOld' = vsync
    /\ ObserveLink
    /\ UNCHANGED encodeMode

ExtReset ==
    /\ SyncReset
    /\ counter' = STOP_COUNT
    /\ vsyncOld' = FALSE
    /\ dwell' = DwellCap
    /\ UNCHANGED encodeMode

InExtClock == \E scan, lastByte \in BOOLEAN : ExtClock(scan, lastByte)

ExtNext == InExtClock \/ ExtReset

ExtSpec == ExtInit /\ [][ExtNext]_linkVars

(* The clock runs on, and resets cease; packets arrive when they like.       *)
ExtFairSpec == ExtSpec /\ WF_linkVars(InExtClock) /\ <>[][InExtClock]_linkVars

-----------------------------------------------------------------------------
ExtTypeOK ==
    /\ SyncTypeOK
    /\ encodeMode \in EncodeModes
    /\ counter \in Count
    /\ vsyncOld \in BOOLEAN
    /\ dwell \in 1..DwellCap

(* The generator's packet area and the encoder's island are separate designs *)
(* that only share the constants, and the null island asks nobody: no island *)
(* is in flight while the generator drives a video preamble, guard band or   *)
(* pixel, even when the first line after vsync is an active one.             *)
NoOverlap == ~Collide(SyncVideoSide, IslandSide)

(* The sink sees every group behind the one that announces it, in the width  *)
(* the protocol fixes, and four control characters at least between islands  *)
(* and video on both sides.                                                  *)
LinkProtocol ==
    [][InExtClock /\ Symbol' # Symbol =>
        /\ <<Symbol, Symbol'>> \in LegalSteps
        /\ FullWidth(Symbol, dwell)]_linkVars

(* Islands keep coming, from whatever place in the raster the generator has  *)
(* started: for a loaded packet the packet area comes round, and LITEHDMI,   *)
(* whose islands tell a sink that this is HDMI, never stops sending them.    *)
IslandsKeepComing ==
    /\ counter = READY_COUNT ~> counter # READY_COUNT
    /\ encodeMode = "LITEHDMI" => []<>dataenable

=============================================================================
