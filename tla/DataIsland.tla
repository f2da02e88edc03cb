------------------------------ MODULE DataIsland ------------------------------
(* hdmi_tx_dataisland_submodule with its receive buffer: bytes 0..27 of a    *)
(* packet go to sb_reg, bytes 28..30 to hb_reg.  Shifting the buffer out bit *)
(* by bit is one event here, at the last data clock: nothing reads the       *)
(* half-shifted buffer but the ECC generator and the output.                 *)
EXTENDS IslandSequencer

CONSTANT Blank         \* the zeros a shifted-out buffer holds

VARIABLES datacount,   \* datacount
          buf          \* sb_reg (0..27) and hb_reg (28..30)

islandVars == <<counter, datacount, buf>>

BufferEmpty == [i \in 0..30 |-> Blank]

IslandInit ==
    /\ SequencerInit
    /\ datacount = 0
    /\ buf = BufferEmpty

nextDatacountFault(sop, eop) ==                 \* not restarted by eop
    IF sop THEN 1 ELSE IF datacount \in 1..30 THEN datacount + 1 ELSE datacount
nextDatacount(sop, eop) ==
    CASE eop                              -> 0
      [] ~eop /\ sop                      -> 1
      [] ~eop /\ ~sop /\ datacount \in 1..30 -> datacount + 1
      [] OTHER                            -> datacount

ReceiveByte(data, sop, eop) ==
    /\ inReady /\ ~dataenable
    /\ datacount' = nextDatacount(sop, eop)
    /\ buf' = IF (sop \/ datacount # 0) /\ datacount \in 0..30
              THEN [buf EXCEPT ![datacount] = data] ELSE buf

ShiftOut ==
    /\ buf' = IF counter = 63 THEN BufferEmpty ELSE buf
    /\ UNCHANGED datacount

IslandEdge(valid, data, sop, eop, packetready) ==
    /\ SequencerEdge(valid /\ eop, packetready)
    /\ \/ valid /\ ReceiveByte(data, sop, eop)
       \/ dataenable /\ ShiftOut
       \/ ~(valid /\ inReady) /\ ~dataenable /\ UNCHANGED <<datacount, buf>>

\* The buffers are not reset: what they hold is blanked here, which no packet
\* contains, so that a byte left over from before the reset would be noticed.
IslandReset ==
    /\ counter' = STOP_COUNT
    /\ datacount' = 0
    /\ buf' = BufferEmpty

IslandTypeOK ==
    /\ counter \in Count
    /\ datacount \in 0..31
    /\ DOMAIN buf = 0..30

=============================================================================
