------------------------------- MODULE PixelFifo -------------------------------
(* peridot_vga_pixel: the dual clock FIFO between the bus clock and the      *)
(* pixel clock, and the sequence that empties it after each rise of vertical *)
(* sync.  The FIFO itself is a vendor primitive: a word is read by the pixel *)
(* side some clocks before the bus side sees its room.  A word holds two     *)
(* pixels and a line an even number of them; it leaves here in one step.     *)
EXTENDS Integers, Sequences

CONSTANTS FIFODEPTH,       \* 2**FIFODEPTH_WIDTH words
          FIFORESETCOUNT   \* length of the reset pulse

ASSUME PixelFifoAssumption ==
    /\ FIFODEPTH \in Nat \ {0} /\ FIFORESETCOUNT \in Nat \ {0}

VARIABLES pixSync,     \* cdb_vsyncin_reg, <<(0), (1), (2)>>
          fiforeset,   \* fiforeset_reg
          resetcounter,
          fifo,        \* the words of u_fifo, oldest first
          unseen       \* words read whose room the bus side does not know yet

pixelVars == <<pixSync, fiforeset, resetcounter, fifo, unseen>>

\* The FIFO is not reset with the registers: words of no frame are in it.
PixelInit ==
    /\ pixSync = <<FALSE, FALSE, FALSE>>
    /\ fiforeset = FALSE /\ resetcounter = 0
    /\ fifo \in {[i \in 1..n |-> 0] : n \in 0..FIFODEPTH}
    /\ unseen = 0

fifo_ready == resetcounter = 0

used          == Len(fifo) + unseen
fifo_wrfreedw == FIFODEPTH - used

vsyncRises == pixSync[2] /\ ~pixSync[3]

-----------------------------------------------------------------------------
\* "if rise then '1' elsif resetcounter = FIFORESETCOUNT then '0'"
nextFiforeset == vsyncRises \/ (fiforeset /\ resetcounter # FIFORESETCOUNT)

ResetSequence(vsync) ==
    /\ pixSync' = <<vsync, pixSync[1], pixSync[2]>>
    /\ fiforeset' = nextFiforeset
    /\ resetcounter' = IF vsyncRises THEN FIFORESETCOUNT * 2 - 1
                       ELSE IF resetcounter # 0 THEN resetcounter - 1
                       ELSE 0

(* A word is lost in a full FIFO and in its reset.  The clears reach the two *)
(* clocks some edges after the reset pulse has ended, but before fifo_ready: *)
(* in between a word may be lost or not.                                     *)
QueueWord(wrena, word) ==
    /\ fifo' \in IF nextFiforeset \/ fiforeset THEN {<<>>}
                 ELSE IF ~wrena \/ used >= FIFODEPTH THEN {fifo}
                 ELSE IF fifo_ready THEN {Append(fifo, word)}
                 ELSE {fifo, Append(fifo, word)}
    /\ unseen' = IF nextFiforeset THEN 0 ELSE unseen

\* One edge of the bus clock.
WriteEdge(vsync, wrena, word) ==
    ResetSequence(vsync) /\ QueueWord(wrena, word)

\* The pixel side takes a word; with none there the last one is shown again.
TakeWord ==
    /\ fifo # <<>>
    /\ fifo' = Tail(fifo)
    /\ unseen' = unseen + 1

\* The read pointer reaches the bus clock.
Synchronize ==
    /\ unseen > 0
    /\ unseen' = unseen - 1
    /\ UNCHANGED <<pixSync, fiforeset, resetcounter, fifo>>

-----------------------------------------------------------------------------
PixelTypeOK(Words) ==
    /\ pixSync \in BOOLEAN \X BOOLEAN \X BOOLEAN
    /\ fiforeset \in BOOLEAN
    /\ resetcounter \in 0..(FIFORESETCOUNT * 2 - 1)
    /\ fifo \in Seq(Words) /\ unseen \in Nat /\ used <= FIFODEPTH

=============================================================================
