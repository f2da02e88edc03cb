------------------------------ MODULE InfoPacket ------------------------------
(* hdmi_tx_infopacket_submodule: on request it streams the AVI infoframe, the*)
(* Audio infoframe and the Audio Clock Regeneration packet from a table of   *)
(* three times 32 bytes, and it arbitrates between that stream and the audio *)
(* packets.  ready_old_reg is also the register of that name in hdmi_tx,     *)
(* which is reset and clocked the same way.                                  *)
EXTENDS Integers

VARIABLES infoCounter,                    \* counter_reg
          infoValid, infoSop, infoEop,    \* valid_reg, sop_reg, eop_reg
          infoData,                       \* data_reg
          pcmEna,                         \* pcmena_reg
          readyOld,                       \* ready_old_reg
          infoSel                         \* infosel_reg

infoVars == <<infoCounter, infoValid, infoSop, infoEop, infoData, pcmEna,
              readyOld, infoSel>>

PACKET_NUM    == 3
PACKET_LENGTH == 32

\* infotable_sig(n): byte n % 32 of packet n \div 32.
TableByte(n) == <<"Info", n>>

InfoInit ==
    /\ infoCounter = 0
    /\ infoValid = FALSE /\ infoSop = FALSE /\ infoEop = FALSE
    /\ infoData = TableByte(0)        \* not reset, but dead while not valid
    /\ pcmEna = FALSE
    /\ readyOld = FALSE
    /\ infoSel = FALSE

infoReady == infoCounter = 0                              \* ready_sig
infoOutReady(out_ready) == infoSel /\ out_ready           \* out_ready_sig
audioReady(out_ready)   == ~infoSel /\ out_ready          \* in_ready_sig

-----------------------------------------------------------------------------
(* The table is sent byte by byte; valid, sop, eop and data are registers.   *)
slot == infoCounter % PACKET_LENGTH

nextInfoValid == slot = 0 \/ (infoValid /\ slot # PACKET_LENGTH - 1)

infoAdvances(request, out_ready) ==
    (infoCounter # 0 \/ request) /\ infoOutReady(out_ready)

lastOfSetFault == slot = PACKET_LENGTH - 1         \* after each packet
lastOfSet == infoCounter = PACKET_NUM * PACKET_LENGTH - 1

SendTableByte ==
    /\ infoCounter' = IF lastOfSet THEN 0 ELSE infoCounter + 1
    /\ pcmEna' = (pcmEna \/ lastOfSet)
    /\ infoValid' = nextInfoValid
    /\ infoSop' = (slot = 0)
    /\ infoEop' = (slot = PACKET_LENGTH - 2)
    /\ infoData' = TableByte(infoCounter)

TableEdge(request, out_ready) ==
    \/ infoAdvances(request, out_ready) /\ SendTableByte
    \/ /\ ~infoAdvances(request, out_ready)
       /\ UNCHANGED <<infoCounter, pcmEna, infoValid, infoSop, infoEop, infoData>>

-----------------------------------------------------------------------------
(* Arbitration: the link changes hands between two packets only.             *)
takesOverFault(request, in_valid, in_eop, out_ready) == request
takesOver(request, in_valid, in_eop, out_ready) ==
    request /\ (~in_valid \/ (in_eop /\ audioReady(out_ready)))

setDoneFault == ~readyOld /\ infoReady /\ infoValid   \* valid is low by then
setDone == ~readyOld /\ infoReady

ArbiterEdge(request, in_valid, in_eop, out_ready) ==
    /\ readyOld' = infoReady
    /\ infoSel' = IF infoSel
                  THEN ~setDone
                  ELSE takesOver(request, in_valid, in_eop, out_ready)

InfoEdge(request, in_valid, in_eop, out_ready) ==
    /\ TableEdge(request, out_ready)
    /\ ArbiterEdge(request, in_valid, in_eop, out_ready)

InfoReset ==
    /\ infoCounter' = 0
    /\ infoValid' = FALSE /\ infoSop' = FALSE /\ infoEop' = FALSE
    /\ infoData' = TableByte(0)
    /\ pcmEna' = FALSE
    /\ readyOld' = FALSE
    /\ infoSel' = FALSE

InfoTypeOK ==
    /\ infoCounter \in 0..(PACKET_NUM * PACKET_LENGTH - 1)
    /\ {infoValid, infoSop, infoEop, pcmEna, readyOld, infoSel} \subseteq BOOLEAN
    /\ \E n \in 0..(PACKET_NUM * PACKET_LENGTH - 1) : infoData = TableByte(n)

=============================================================================
