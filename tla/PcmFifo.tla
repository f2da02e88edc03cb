------------------------------- MODULE PcmFifo --------------------------------
(* pcm_component, the playback peripheral of the wavplayer example, as its   *)
(* bus sees it: a status register, a volume register and a dual clock FIFO   *)
(* that the audio clock empties.  A word taken by the audio side is missed by *)
(* the bus side some clocks later only.                                      *)
EXTENDS Integers, Sequences

CONSTANTS DEPTH,        \* 2**PCM_FIFO_DEPTH words
          AMOSTEMPTY    \* PCM_FIFO_AMOSTEMPTY

ASSUME PcmFifoAssumption ==
    /\ DEPTH \in Nat /\ AMOSTEMPTY \in Nat
    /\ 0 < AMOSTEMPTY /\ AMOSTEMPTY < DEPTH

VARIABLES irqena,       \* irqena_reg
          fiforst,      \* fiforeset_reg
          mute,         \* mute_reg
          fifo,         \* the words of u_fifo, oldest first
          unseen        \* words read whose room the bus side does not know yet

pcmVars == <<irqena, fiforst, mute, fifo, unseen>>

PCM_FIFO_FREE == DEPTH - AMOSTEMPTY

PcmInit ==
    /\ irqena = FALSE
    /\ fiforst = TRUE
    /\ mute = TRUE
    /\ fifo = <<>> /\ unseen = 0

-----------------------------------------------------------------------------
(* What the bus side knows: wrusedw, wrfull, and the IRQ and PLAY bits.      *)
used == Len(fifo) + unseen
full == used = DEPTH

fifoirqFault == ~full                         \* any room will do
\* wrusedw has the width of an address, so a full FIFO reads as 0.
fifoirq == ~full /\ used % DEPTH < PCM_FIFO_FREE

ins_irq == irqena /\ fifoirq

PLAYFault == ~fifoirq                         \* the bit next to it
PLAY == used # 0

-----------------------------------------------------------------------------
\* Register 0: FIFORST empties the FIFO at once and holds it empty.
WriteStatus(ena, rst) ==
    /\ irqena' = ena
    /\ fiforst' = rst
    /\ IF rst THEN fifo' = <<>> /\ unseen' = 0 ELSE UNCHANGED <<fifo, unseen>>
    /\ UNCHANGED mute

\* Register 1.
WriteVolume(muted) ==
    /\ mute' = muted
    /\ UNCHANGED <<irqena, fiforst, fifo, unseen>>

\* Register 2: a word written into a full FIFO, or in reset, is lost.
WriteFifo(word) ==
    /\ fifo' = IF full \/ fiforst THEN fifo ELSE Append(fifo, word)
    /\ UNCHANGED <<irqena, fiforst, mute, unseen>>

\* fs_timing_sig with a word to play; without one a zero is played.
Consume ==
    /\ fifo # <<>>
    /\ fifo' = Tail(fifo)
    /\ unseen' = unseen + 1
    /\ UNCHANGED <<irqena, fiforst, mute>>

\* The read pointer reaches the bus clock.
Synchronize ==
    /\ unseen > 0
    /\ unseen' = unseen - 1
    /\ UNCHANGED <<irqena, fiforst, mute, fifo>>

-----------------------------------------------------------------------------
PcmTypeOK(Words) ==
    /\ irqena \in BOOLEAN /\ fiforst \in BOOLEAN /\ mute \in BOOLEAN
    /\ fifo \in Seq(Words) /\ unseen \in Nat /\ used <= DEPTH

=============================================================================
