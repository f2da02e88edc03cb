-------------------------------- MODULE ScFifo --------------------------------
(* hdmi_tx_scfifo: a ring of Depth words in a RAM with a registered read     *)
(* port.  The environment uses it within the contract of SampleQueue, as     *)
(* hdmi_tx_audiopacket_submodule does (AudioStream checks that it does).     *)
EXTENDS Integers

CONSTANTS Depth,       \* 2**FIFO_WORD_WIDTH
          Data,        \* the words written
          Unwritten    \* the content of a RAM cell before its first write

ASSUME FifoAssumption ==
    /\ Depth \in Nat /\ Depth >= 2
    /\ Unwritten \notin Data

VARIABLES ram, q_reg, waddr, raddr, usedw, emptyDelay

fifoVars == <<ram, q_reg, waddr, raddr, usedw, emptyDelay>>

Addr == 0..(Depth - 1)
RamWord == Data \cup {Unwritten}

RingInit ==
    /\ ram = [a \in Addr |-> Unwritten]
    /\ q_reg = Unwritten
    /\ waddr = 0 /\ raddr = 0 /\ usedw = 0
    /\ emptyDelay = TRUE

\* The address registers wrap by their width.
NextAddr(a) == IF a = Depth - 1 THEN 0 ELSE a + 1

addrFault(rdack) == raddr
addr(rdack) == IF rdack THEN NextAddr(raddr) ELSE raddr

empty == usedw = 0 \/ emptyDelay
full  == usedw = Depth

\* The memory process: the read port sees the RAM as it was before the write.
MemoryEdge(wrreq, data, rdack) ==
    /\ ram' = IF wrreq THEN [ram EXCEPT ![waddr] = data] ELSE ram
    /\ q_reg' = ram[addr(rdack)]

\* usedw wraps by its width, one bit more than an address.
nextUsedw(wrreq, rdack) ==
    CASE rdack /\ ~wrreq -> (usedw - 1) % (2 * Depth)
      [] wrreq /\ ~rdack -> (usedw + 1) % (2 * Depth)
      [] OTHER           -> usedw

AddressEdge(wrreq, rdack) ==
    /\ waddr' = IF wrreq THEN NextAddr(waddr) ELSE waddr
    /\ raddr' = IF rdack THEN NextAddr(raddr) ELSE raddr
    /\ usedw' = nextUsedw(wrreq, rdack)
    /\ emptyDelay' = (usedw = 0)

RingClock(wrreq, data, rdack) ==
    /\ rdack => usedw > 0
    /\ wrreq => usedw < Depth \/ rdack
    /\ MemoryEdge(wrreq, data, rdack)
    /\ AddressEdge(wrreq, rdack)

\* The synchronous init input: the RAM port still works, the addresses restart.
Clear ==
    /\ \E wrreq, rdack \in BOOLEAN, data \in Data :
          MemoryEdge(wrreq, data, rdack)
    /\ waddr' = 0 /\ raddr' = 0 /\ usedw' = 0
    /\ emptyDelay' = TRUE

RingNext ==
    \/ \E wrreq, rdack \in BOOLEAN, data \in Data : RingClock(wrreq, data, rdack)
    \/ Clear

RingSpec == RingInit /\ [][RingNext]_fifoVars

-----------------------------------------------------------------------------
RingTypeOK ==
    /\ ram \in [Addr -> RamWord]
    /\ q_reg \in RamWord
    /\ waddr \in Addr /\ raddr \in Addr
    /\ usedw \in 0..Depth
    /\ emptyDelay \in BOOLEAN

\* The address i words behind the read address.
Behind(i) == IF raddr + i >= Depth THEN raddr + i - Depth ELSE raddr + i

\* The words between the two addresses, oldest first.
contents == [i \in 1..usedw |-> ram[Behind(i - 1)]]

(* The ring implements the queue: no word is lost, repeated or reordered     *)
(* across the wrap of the two addresses, and the read port is late by        *)
(* exactly one edge.                                                         *)
Queue == INSTANCE SampleQueue
             WITH queue <- contents, q <- q_reg, Stale <- RamWord
ImplementsQueue == Queue!Spec

=============================================================================
