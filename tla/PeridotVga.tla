------------------------------ MODULE PeridotVga -------------------------------
(* peridot_vga: the frame reader, the pixel FIFO and the control registers   *)
(* between software, a memory of any speed and video_syncgen.  Three clocks  *)
(* without any relation, and signals that cross between them: vertical sync  *)
(* into both bus clocks, framestart and the buffer address from one to the   *)
(* other, the scan enable into the pixel clock.                              *)
(*                                                                           *)
(* Of video_syncgen, modelled clock by clock in SyncGen, only the order of   *)
(* its signals is kept: vertical sync rises, the scan enable is latched, the *)
(* sync ends, a frame is requested or not.                                   *)
EXTENDS FrameReader, PixelFifo

CONSTANT Tops          \* the frame buffer addresses software writes

VARIABLES csrSync,     \* cdb_vsyncin_reg, <<(0), (1), (2)>>
          topOut,      \* topaddr_out_reg
          scanReg,     \* scanena_reg
          phase,       \* where video_syncgen is in its frame
          count,       \* words requested in this frame
          scanIn,      \* scan_in_reg
          scanEna,     \* scanena_reg of video_syncgen
          clean        \* nothing has disturbed this frame yet (observer)

csrVars   == <<csrSync, topOut, scanReg>>
videoVars == <<phase, count, scanIn, scanEna, clean>>
vars == <<csrVars, readerVars, pixelVars, videoVars>>

Phases == {"front", "rise", "sync", "back", "active"}

FRAME == LINENUMBER * TRANSCYCLE

\* The hw.tcl refuses a FIFO that is not larger than a burst.
ASSUME VgaAssumption == BURSTUNIT < FIFODEPTH /\ Tops \subseteq Nat

vsync == phase \in {"rise", "sync"}

-----------------------------------------------------------------------------
(* peridot_vga_csr: the registers software sees, in the clock of the control *)
(* port.  Vertical sync comes in through three registers; its rise latches   *)
(* the top of the frame buffer, and the last of the three, gated by the scan *)
(* enable, is what starts the frame reader.                                  *)
Nothing == <<FALSE, FALSE, FALSE>>

ShiftIn(signal, sync) == <<signal, sync[1], sync[2]>>

Rises(sync) == sync[2] /\ ~sync[3]

\* The address register has no reset.
CsrInit ==
    /\ csrSync = Nothing
    /\ topOut \in Tops
    /\ scanReg = FALSE

framestart == csrSync[3] /\ scanReg

\* Address 00, bit 0.
WriteScan == scanReg' \in BOOLEAN

(* framebuff_top_reg is written at any time and looked at only here, so it   *)
(* holds any of the addresses.                                               *)
CsrEdge ==
    /\ csrSync' = ShiftIn(vsync, csrSync)
    /\ IF Rises(csrSync) THEN topOut' \in Tops ELSE UNCHANGED topOut

-----------------------------------------------------------------------------
Init ==
    /\ CsrInit /\ ReaderInit /\ PixelInit
    /\ phase = "front" /\ count = 0
    /\ scanIn = FALSE /\ scanEna = FALSE
    /\ clean = FALSE

-----------------------------------------------------------------------------
(* The two bus clocks.                                                       *)
CsrClock ==
    /\ CsrEdge
    /\ WriteScan
    /\ UNCHANGED <<readerVars, pixelVars, videoVars>>

\* freedw_sig
freedwFault == BURSTUNIT                          \* always room for a burst
freedw == IF fifo_wrfreedw > BURSTUNIT THEN BURSTUNIT ELSE fifo_wrfreedw

BusClock(stall) ==
    /\ ReaderEdge(framestart, topOut, fifo_ready, freedw, stall)
    /\ WriteEdge(vsync, readdata_valid(stall), memAddr)
    /\ UNCHANGED <<csrVars, videoVars>>

Catch == Synchronize /\ UNCHANGED <<csrVars, readerVars, videoVars>>

-----------------------------------------------------------------------------
(* video_syncgen.  Its phases are lines long: both bus clocks have seen the  *)
(* level of vertical sync, and the FIFO has left its reset, before it        *)
(* changes again.                                                            *)
VsyncSeen ==
    /\ csrSync = <<vsync, vsync, vsync>> /\ pixSync = csrSync
    /\ fifo_ready

\* The reader waits for a frame to begin, and none is about to.
ReaderAtRest == avmState = "IDLE" /\ fsSync = Nothing

VsyncRises ==
    /\ phase = "front" /\ VsyncSeen
    /\ phase' = "rise"
    /\ count' = 0
    /\ scanIn' = scanReg
    /\ clean' = ReaderAtRest
    /\ UNCHANGED <<scanEna, pixelVars>>

LatchScan ==
    /\ phase = "rise"
    /\ phase' = "sync"
    /\ scanEna' = scanIn
    /\ UNCHANGED <<count, scanIn, clean, pixelVars>>

SyncEnds ==
    /\ phase = "sync" /\ VsyncSeen
    /\ phase' = "back"
    /\ UNCHANGED <<count, scanIn, scanEna, clean, pixelVars>>

BackPorch ==
    /\ phase = "back" /\ VsyncSeen
    /\ phase' = IF scanEna THEN "active" ELSE "front"
    /\ UNCHANGED <<count, scanIn, scanEna, clean, pixelVars>>

underrun == phase = "active" /\ fifo = <<>>

\* video_request for the two pixels of a word.
Request ==
    /\ phase = "active"
    /\ \/ TakeWord /\ clean' = clean
       \/ underrun /\ clean' = FALSE /\ UNCHANGED <<fifo, unseen>>
    /\ count' = count + 1
    /\ phase' = IF count' = FRAME THEN "front" ELSE phase
    /\ UNCHANGED <<scanIn, scanEna, pixSync, fiforeset, resetcounter>>

Video ==
    /\ VsyncRises \/ LatchScan \/ SyncEnds \/ BackPorch \/ Request
    /\ UNCHANGED <<csrVars, readerVars>>

-----------------------------------------------------------------------------
Next ==
    \/ CsrClock
    \/ \E stall \in BOOLEAN : BusClock(stall)
    \/ Catch
    \/ Video

Spec == Init /\ [][Next]_vars

(* From some time on the clocks and the memory keep up: the start has        *)
(* crossed into the bus clock while vertical sync lasts, and the bus side    *)
(* has done all it can, as fast as memory lets it, by the time the FIFO runs *)
(* dry and by the next sync.                                                 *)
StartSeen == fsSync = <<framestart, framestart, framestart>>

BusAtRest ==
    /\ ~ENABLED <<BusClock(FALSE)>>_<<readerVars, pixelVars>>
    /\ unseen = 0

InTime ==
    /\ SyncEnds => StartSeen
    /\ VsyncRises \/ (underrun /\ Request) => BusAtRest

FairSpec ==
    /\ Spec
    /\ WF_vars(CsrClock) /\ WF_vars(BusClock(FALSE)) /\ WF_vars(Catch)
    /\ WF_vars(Video)
    /\ <>[][InTime]_vars

-----------------------------------------------------------------------------
TypeOK ==
    /\ csrSync \in BOOLEAN \X BOOLEAN \X BOOLEAN
    /\ topOut \in Tops /\ scanReg \in BOOLEAN
    /\ ReaderTypeOK
    /\ PixelTypeOK(Nat)
    /\ phase \in Phases /\ count \in 0..FRAME
    /\ scanIn \in BOOLEAN /\ scanEna \in BOOLEAN /\ clean \in BOOLEAN

(* A burst is requested on the room the FIFO had some clocks before, as the  *)
(* bus side sees it, and cannot be stopped: the words still to come always   *)
(* find room, while the FIFO may be reset and the scan turned on and off.    *)
RoomForBurst ==
    avmState \in {"READ_ISSUE", "READ_DATA"} => used + datacounter <= FIFODEPTH

\* The address of word n of the frame on the screen.
Place(n) == topOut + (n \div TRANSCYCLE) * LINEWORDNUM + (n % TRANSCYCLE)

(* A frame that began with the reader at rest and whose FIFO has not run dry *)
(* is shown in its place, from one buffer: the words behind the FIFO's exit  *)
(* are those of the next places, whatever buffer software has set meanwhile, *)
(* although sync reset, buffer address and start arrive over three paths.    *)
PictureInPlace ==
    phase = "active" /\ clean =>
        \A i \in 1..Len(fifo) : fifo[i] = Place(count + i - 1)

(* Whatever came before - a reader still busy with the last frame when sync  *)
(* comes, a start in a frame that is not shown, words lost in the reset -    *)
(* once the scan stays enabled and the memory is in time, the picture falls  *)
(* into place and stays there.                                               *)
PictureRecovers ==
    <>[]scanReg => /\ <>[](phase = "active" => clean)
                   /\ []<>(phase = "active")

=============================================================================
