--------------------------------- MODULE DiskIo -------------------------------
(* The disk layers of the SD card driver, one call at a time, over the port  *)
(* and a card that may be pulled out or exchanged between any two exchanges  *)
(* of bytes: peridot_sdif_ff_diskio.c, and peridot_sdif_pff_diskio.c where it*)
(* differs.  A busy poll is one step that ends or runs out of time; a data   *)
(* block or a command packet is one exchange.                                *)
EXTENDS SdCard, Sequences

CONSTANTS MaxBlocks,    \* bound on the sectors of a call
          Tries         \* polls for a card to leave the idle state: 10000

ASSUME DiskAssumption ==
    MaxBlocks \in Nat \ {0} /\ Tries \in Nat \ {0} /\ MaxSwaps \in Nat

VARIABLES layer,        \* the layer linked with: that of FatFs, or Petit FatFs
          call,         \* the function that is running
          at,           \* where it is
          sub,          \* where send_cmd, select or deselect is
          todo,         \* command packets send_cmd has yet to send
          d,            \* what the last helper returned
          asked, count, \* sectors asked for, sectors left
          tmr,          \* polls left
          Stat, CardType,
          result,       \* of the last call that returned
          rightPlace,   \* the card understood the address as it was meant
          moved         \* blocks moved at the right place (observers)

ctlVars  == <<call, at, sub, todo, d>>
dataVars == <<asked, count, rightPlace, moved>>
drvVars  == <<tmr, Stat, CardType, result>>
vars     == <<layer, sdifVars, cardVars, ctlVars, dataVars, drvVars>>

Init ==
    /\ SdifInit /\ CardInit
    /\ layer \in {"ff", "pff"}
    /\ call = "none" /\ at = "none" /\ sub = "none" /\ todo = <<>> /\ d = "none"
    /\ asked = 0 /\ count = 0 /\ rightPlace = FALSE /\ moved = 0
    /\ tmr = 0 /\ Stat = "noinit" /\ CardType = "none" /\ result = "ok"

-----------------------------------------------------------------------------
(* The address: of a block, or of its first byte.                            *)
BlockTypes == {"SD2block"}
SDC        == {"SD1", "SD2", "SD2block"}
multi      == asked > 1
sameUnit   == (CardType \in BlockTypes) = (slot = "SDHC")

(* Control.                                                                  *)
Packets(cmd) == IF cmd = "ACMD41" \/ cmd = "ACMD23" THEN <<"CMD55", cmd>> ELSE <<cmd>>

\* send_cmd(cmd) from label l; the end of a multiple read is not selected again.
Send(cmd, l) ==
    /\ at' = l /\ todo' = Packets(cmd)
    /\ sub' = IF cmd = "CMD12" THEN "packet" ELSE "negate"
    /\ UNCHANGED <<call, d>>

Begin(l, s) == at' = l /\ sub' = s /\ todo' = <<>> /\ UNCHANGED <<call, d>>
Close       == Begin("close", "release")

Return(r) ==
    /\ call' = "none" /\ at' = "none" /\ sub' = "none"
    /\ result' = r
    /\ UNCHANGED <<todo, d>>

At(l) == at = l /\ sub = "none"          \* the caller itself
Back(l) == at = l /\ sub = "done"        \* the helper called at l has returned

-----------------------------------------------------------------------------
(* send_cmd, select and deselect.                                            *)
Negate ==
    /\ \/ sub = "negate"  /\ sub' = "clock"
       \/ sub = "giveUp"  /\ sub' = "giveUpClock"
       \/ sub = "release" /\ sub' = "releaseClock"
    /\ sd_negate
    /\ UNCHANGED <<cardVars, call, at, todo, d, dataVars, drvVars>>

\* Dummy clocks.
ClockFault ==                                 \* without waiting for READY
    /\ sub = "clock" /\ sub' = "assert"
    /\ UNCHANGED <<sdifVars, cardVars, call, at, todo, d, dataVars, drvVars>>

Clock ==
    /\ \/ sub = "clock"        /\ sub' = "assert" /\ UNCHANGED d
       \/ sub = "giveUpClock"  /\ sub' = "done" /\ d' = "none"
       \/ sub = "releaseClock" /\ sub' = "released" /\ UNCHANGED d
    /\ Exchange
    /\ UNCHANGED <<cardVars, call, at, todo, dataVars, drvVars>>

\* Petit FatFs, which does not write, never waits for the card.
Assert ==
    /\ sub = "assert" /\ sub' = IF layer = "ff" THEN "ready" ELSE "packet"
    /\ sd_assert
    /\ UNCHANGED <<cardVars, call, at, todo, d, dataVars, drvVars>>

\* wait_ready, of select or of xmit_datablock.
WaitReady ==
    /\ sub = "ready"
    /\ \/ /\ ~HoldsLow
          /\ sub' = IF todo = <<>> THEN "done" ELSE "packet"
          /\ d' = IF todo = <<>> THEN "ok" ELSE d
       \/ /\ HoldsLow /\ cstate = "stuck"
          /\ sub' = IF at \in {"put", "stop"} THEN "done" ELSE "giveUp"
          /\ d' = "none"
    /\ Exchange
    /\ UNCHANGED <<cardVars, call, at, todo, dataVars, drvVars>>

Addressed == {"CMD17", "CMD18", "CMD24", "CMD25"}

Packet ==
    /\ sub = "packet"
    /\ \E answer \in Answers(Head(todo)) :
          /\ d' = answer[1] /\ cstate' = answer[2]
          /\ IF Len(todo) > 1 /\ d' \in {"ok", "idle"}
             THEN todo' = Tail(todo) /\ sub' = "negate"
             ELSE todo' = <<>> /\ sub' = "done"
    /\ rightPlace' = IF Head(todo) \in Addressed THEN sameUnit ELSE rightPlace
    /\ Exchange
    /\ UNCHANGED <<slot, swaps, swapped, call, at, asked, count, moved, drvVars>>

-----------------------------------------------------------------------------
(* disk_status, which every call of FatFs but disk_initialize makes first.   *)
Calls == {"init", "read", "write", "sync", "sectorCount", "other"}

Call ==
    /\ call = "none" /\ layer = "ff"
    /\ call' \in Calls
    /\ asked' \in IF call' \in {"read", "write"} THEN 1..MaxBlocks ELSE {1}
    /\ count' = asked' /\ moved' = 0 /\ rightPlace' = FALSE
    /\ at' = IF call' = "init" THEN "reset" ELSE "changed"
    /\ UNCHANGED <<sub, todo, d, sdifVars, cardVars, drvVars>>

\* pf_mount calls disk_initialize; without its success nothing is read.
PffCall ==
    /\ call = "none" /\ layer = "pff"
    /\ asked' = 1 /\ count' = 1 /\ moved' = 0 /\ rightPlace' = FALSE
    /\ \/ /\ call' = "init" /\ at' = "reset"
          /\ UNCHANGED <<sub, todo>>
       \/ /\ Stat = "ok"
          /\ call' = "read" /\ at' = "read" /\ sub' = "negate" /\ todo' = <<"CMD17">>
    /\ UNCHANGED <<d, sdifVars, cardVars, drvVars>>

CardChanged ==
    /\ At("changed")
    /\ IF changed THEN Return("notReady")
       ELSE Begin("inserted", "none") /\ UNCHANGED result
    /\ sd_change
    /\ UNCHANGED <<cardVars, dataVars, tmr, Stat, CardType>>

CardInserted ==
    /\ At("inserted")
    /\ IF slot = "empty" \/ Stat = "noinit" THEN Return("notReady")
       ELSE /\ CASE call = "read"  -> Send(IF multi THEN "CMD18" ELSE "CMD17", "read")
                 [] call = "write" -> IF ~multi THEN Send("CMD24", "write")
                                      ELSE IF CardType \in SDC THEN Send("ACMD23", "erase")
                                      ELSE Send("CMD25", "write")
                 [] call = "sync"  -> Begin("sync", "assert")
                 [] call = "sectorCount" -> Send("CMD9", "csd")
                 [] OTHER          -> Close
            /\ UNCHANGED result
    /\ UNCHANGED <<sdifVars, cardVars, dataVars, tmr, Stat, CardType>>

-----------------------------------------------------------------------------
(* disk_initialize: the slot is switched off, then on, for 200 ms each, which*)
(* is longer than any byte takes.                                            *)
PowerCycle ==
    /\ At("reset") /\ Begin("power", "none")
    /\ sd_reset
    /\ cstate' = IF pwr' THEN cstate ELSE "native"
    /\ swapped' = FALSE
    /\ UNCHANGED <<slot, swaps, dataVars, drvVars>>

PowerOn ==
    /\ At("power") /\ ~busy /\ Begin("settle", "none")
    /\ sd_pwr_on
    /\ UNCHANGED <<cardVars, dataVars, drvVars>>

EnterIdle ==
    /\ At("settle") /\ Exchange
    /\ Send("CMD0", "idle")
    /\ UNCHANGED <<cardVars, dataVars, drvVars>>

Found(type) ==
    /\ CardType' = type
    /\ Stat' = IF type = "none" THEN "noinit" ELSE "ok"
    /\ Close
    /\ UNCHANGED <<tmr, result>>

Idle ==
    /\ Back("idle")
    /\ IF d = "idle" THEN Send("CMD8", "version") /\ UNCHANGED drvVars
                     ELSE Found("none")
    /\ UNCHANGED <<sdifVars, cardVars, dataVars>>

\* R7: the card echoes the pattern if it can work at this voltage.
Version ==
    /\ Back("version") /\ Exchange
    /\ IF d # "idle"
       THEN Send("ACMD41", "oldKind") /\ UNCHANGED drvVars
       ELSE \/ /\ hears /\ slot \in Version2
               /\ Send("ACMD41", "leave2")
               /\ tmr' = Tries /\ UNCHANGED <<Stat, CardType, result>>
            \/ Found("none")
    /\ UNCHANGED <<cardVars, dataVars>>

OldKind ==
    /\ Back("oldKind")
    /\ CardType' = IF d \in {"ok", "idle"} THEN "SD1" ELSE "MMC"
    /\ Send(IF CardType' = "SD1" THEN "ACMD41" ELSE "CMD1", "leave1")
    /\ tmr' = Tries
    /\ UNCHANGED <<sdifVars, cardVars, dataVars, Stat, result>>

\* The loops that wait until the card has left the idle state.
LeaveIdleFault(l, again, next, follows) ==    \* polls are not counted
    /\ Back(l)
    /\ Send(IF d = "ok" THEN next ELSE again, IF d = "ok" THEN follows ELSE l)
    /\ UNCHANGED <<sdifVars, cardVars, dataVars, drvVars>>

LeaveIdle(l, again, next, follows) ==
    /\ Back(l)
    /\ IF d = "ok" THEN Send(next, follows) /\ UNCHANGED drvVars
       ELSE IF tmr > 1 THEN /\ Send(again, l) /\ tmr' = tmr - 1
                            /\ UNCHANGED <<Stat, CardType, result>>
       ELSE Found("none")
    /\ UNCHANGED <<sdifVars, cardVars, dataVars>>

Leave2 == LeaveIdle("leave2", "ACMD41", "CMD58", "ocr")
Leave1 == LeaveIdle("leave1", IF CardType = "SD1" THEN "ACMD41" ELSE "CMD1",
                    "CMD16", "length")

\* Bit CCS of the OCR; with the card gone 0xFF is read.
blockAddressedFault == FALSE                  \* CCS is not looked at
blockAddressed == ~hears \/ slot = "SDHC"

Ocr ==
    /\ Back("ocr") /\ Exchange
    /\ Found(IF d # "ok" THEN "none" ELSE IF blockAddressed THEN "SD2block" ELSE "SD2")
    /\ UNCHANGED <<cardVars, dataVars>>

BlockLength ==
    /\ Back("length")
    /\ Found(IF d # "ok" THEN "none" ELSE CardType)
    /\ UNCHANGED <<sdifVars, cardVars, dataVars>>

InitReturn ==
    /\ at = "close" /\ sub = "released" /\ call = "init"
    /\ IF Stat = "noinit" THEN sd_pwr_off ELSE sd_ddmode /\ UNCHANGED <<busy, cs, pwr>>
    /\ cstate' = IF pwr' THEN cstate ELSE "native"
    /\ Return(IF Stat = "noinit" THEN "notReady" ELSE "ok")
    /\ UNCHANGED <<slot, swaps, swapped, dataVars, tmr, Stat, CardType>>

-----------------------------------------------------------------------------
(* disk_read.                                                                *)
ReadCommanded ==
    /\ Back("read")
    /\ IF d = "ok" THEN Begin("block", "none") ELSE Close
    /\ UNCHANGED <<sdifVars, cardVars, dataVars, drvVars>>

EndOfReadFault == Close                       \* no STOP_TRANSMISSION
EndOfRead == IF multi THEN Send("CMD12", "stopRead") ELSE Close

ReadBlock ==
    /\ At("block") /\ Exchange
    /\ \/ /\ GivesBlock
          /\ count' = count - 1
          /\ moved' = IF rightPlace THEN moved + 1 ELSE moved
          /\ IF count' = 0 THEN EndOfRead ELSE UNCHANGED ctlVars
       \/ EndOfRead /\ UNCHANGED <<count, moved>>
    /\ cstate' = AfterSending
    /\ UNCHANGED <<slot, swaps, swapped, asked, rightPlace, drvVars>>

ReadStopped ==
    /\ Back("stopRead") /\ Close
    /\ UNCHANGED <<sdifVars, cardVars, dataVars, drvVars>>

-----------------------------------------------------------------------------
(* disk_write.                                                               *)
Preerased ==
    /\ Back("erase") /\ Send("CMD25", "write")
    /\ UNCHANGED <<sdifVars, cardVars, dataVars, drvVars>>

WriteCommanded ==
    /\ Back("write")
    /\ IF d = "ok" THEN Begin("put", "ready") ELSE Close
    /\ UNCHANGED <<sdifVars, cardVars, dataVars, drvVars>>

\* A failed block ends the loop; the stop token is sent all the same.
EndOfWrite == IF multi THEN Begin("stop", "ready") ELSE Close

PutBlock ==
    /\ Back("put") /\ Exchange
    /\ \/ /\ d = "ok" /\ TakesBlock
          /\ cstate' = AfterAccept
          /\ count' = count - 1
          /\ moved' = IF rightPlace THEN moved + 1 ELSE moved
          /\ IF count' = 0 THEN EndOfWrite ELSE Begin("put", "ready")
       \/ /\ d = "ok"
          /\ cstate' = AfterReject
          /\ EndOfWrite /\ UNCHANGED <<count, moved>>
       \/ /\ d # "ok"
          /\ EndOfWrite /\ UNCHANGED <<cstate, count, moved>>
    /\ UNCHANGED <<slot, swaps, swapped, asked, rightPlace, drvVars>>

StopWrite ==
    /\ Back("stop") /\ Exchange
    /\ IF d = "ok" THEN cstate' = AfterStop /\ UNCHANGED count
                   ELSE count' = 1 /\ UNCHANGED cstate
    /\ Close
    /\ UNCHANGED <<slot, swaps, swapped, asked, moved, rightPlace, drvVars>>

-----------------------------------------------------------------------------
(* disk_ioctl: CTRL_SYNC, GET_SECTOR_COUNT; the other codes need no card.    *)
Synced ==
    /\ Back("sync")
    /\ count' = IF d = "ok" THEN 0 ELSE count
    /\ Close
    /\ UNCHANGED <<sdifVars, cardVars, asked, rightPlace, moved, drvVars>>

Csd ==
    /\ Back("csd") /\ Exchange
    /\ \/ d = "ok" /\ GivesBlock /\ count' = 0
       \/ UNCHANGED count
    /\ cstate' = IF d = "ok" THEN AfterSending ELSE cstate
    /\ Close
    /\ UNCHANGED <<slot, swaps, swapped, asked, rightPlace, moved, drvVars>>

CallReturn ==
    /\ at = "close" /\ sub = "released" /\ call # "init"
    /\ Return(IF count = 0 \/ call = "other" THEN "ok" ELSE "error")
    /\ UNCHANGED <<sdifVars, cardVars, dataVars, tmr, Stat, CardType>>

-----------------------------------------------------------------------------
Driver ==
    /\ UNCHANGED layer
    /\ \/ Negate \/ Clock \/ Assert \/ WaitReady \/ Packet
       \/ CardChanged \/ CardInserted
       \/ PowerCycle \/ PowerOn \/ EnterIdle \/ Idle \/ Version \/ OldKind
       \/ Leave2 \/ Leave1 \/ Ocr \/ BlockLength \/ InitReturn
       \/ ReadCommanded \/ ReadBlock \/ ReadStopped
       \/ Preerased \/ WriteCommanded \/ PutBlock \/ StopWrite
       \/ Synced \/ Csd \/ CallReturn

Caller == (Call \/ PffCall) /\ UNCHANGED layer

Port == ByteDone /\ UNCHANGED <<layer, cardVars, ctlVars, dataVars, drvVars>>

Card == Programmed /\ UNCHANGED <<layer, sdifVars, ctlVars, dataVars, drvVars>>

User == Swap /\ UNCHANGED <<layer, sdifVars, ctlVars, dataVars, drvVars>>

Next == Caller \/ Driver \/ Port \/ Card \/ User

Spec == Init /\ [][Next]_vars

(* The processor and the port run on; a card that programs comes to an end of*)
(* it or is over time.  Nobody has to call, or to touch the card.            *)
FairSpec == Spec /\ WF_vars(Driver) /\ WF_vars(Port) /\ WF_vars(Card)

-----------------------------------------------------------------------------
(* The driver never talks past the card: bytes that matter are exchanged     *)
(* with the card selected and powered, although a write of the select bit is *)
(* lost when the port is busy.  (select() in CTRL_SYNC is not covered.)      *)
Talking ==
    \/ sub = "packet"
    \/ sub = "ready" /\ at # "sync"
    \/ at = "block"
TransfersAreSelected == Talking => cs /\ pwr

(* Between calls the card is released, and not in the middle of a transfer   *)
(* that would swallow the next command.                                      *)
CardReleased == call = "none" => ~cs /\ cstate \notin InTransfer

(* disk_initialize works at the slow clock throughout, whichever cards come  *)
(* and go meanwhile, and no card is clocked faster while it is idle. After a *)
(* success the clock is fast, without one the slot is off. A write of the    *)
(* divider is lost when the port is busy. One card is addressed at full speed*)
(* without being initialised: one in native mode that was put in since       *)
(* disk_initialize switched the slot off (swapped). It is until the next     *)
(* disk_initialize, as peridot_sdif_card_changed notices no exchange.        *)
ClockFollowsCard ==
    /\ call = "init" /\ at # "reset" => div = "pp"
    /\ present /\ cstate = "idle" => div = "pp"
    /\ present /\ cstate = "native" => div = "pp" \/ swapped
    /\ call = "none" => IF Stat = "ok" THEN div = "dd" /\ pwr ELSE ~pwr

(* A read or write is reported as done only if the card moved every sector   *)
(* at the address that was meant, whatever was swapped and whenever: Stat and*)
(* CardType still describe the card that was initialised.                    *)
OkMeansMoved ==
    [][call' = "none" /\ call \in {"read", "write"} /\ result' = "ok" =>
          moved = asked]_vars

(* Every call returns, with any card or none.                                *)
CallsReturn == [](call # "none" => <>(call = "none"))

=============================================================================
