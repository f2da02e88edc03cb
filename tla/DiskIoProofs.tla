------------------------------ MODULE DiskIoProofs ----------------------------
(* The disk layers of the SD card driver for any number of sectors, polls and*)
(* exchanges of the card.                                                    *)
EXTENDS DiskIo, TLAPS

-----------------------------------------------------------------------------
(* The inductive invariant: types and the parts below.                       *)
InitPlaces == {"reset", "power", "settle", "idle", "version", "oldKind",
               "leave1", "leave2", "ocr", "length"}
ReadPlaces  == {"read", "block", "stopRead"}
WritePlaces == {"erase", "write", "put", "stop"}
Places == InitPlaces \cup ReadPlaces \cup WritePlaces
             \cup {"none", "changed", "inserted", "close", "sync", "csd"}

Sending == {"negate", "clock", "assert", "ready", "packet"}
GivingUp == {"giveUp", "giveUpClock"}
Releasing == {"release", "releaseClock", "released"}

PortTypeOK == busy \in BOOLEAN /\ cs \in BOOLEAN /\ pwr \in BOOLEAN

TypeOK ==
    /\ PortTypeOK
    /\ layer \in {"ff", "pff"}
    /\ call \in Calls \cup {"none"}
    /\ at \in Places
    /\ sub \in Sending \cup GivingUp \cup Releasing \cup {"none", "done"}
    /\ d \in {"none", "ok", "idle", "error"}
    /\ slot \in Kinds \cup {"empty"}
    /\ cstate \in CStates
    /\ swapped \in BOOLEAN /\ rightPlace \in BOOLEAN
    /\ asked \in Nat /\ count \in Int /\ moved \in Nat
    /\ Stat \in {"ok", "noinit"}

\* Which call is where, and which helper can be running there.
Alone == {"none", "changed", "inserted", "reset", "power", "settle", "block"}
Commanding == {"idle", "version", "oldKind", "leave1", "leave2", "ocr", "length",
               "read", "erase", "write", "csd"}
PlaceInv ==
    /\ call = "none" <=> at = "none"
    /\ at \in InitPlaces => call = "init"
    /\ call = "init" => at \in InitPlaces \cup {"close"}
    /\ at \in ReadPlaces => call = "read"
    /\ at \in WritePlaces => call = "write"
    /\ at = "csd" => call = "sectorCount"
    /\ at = "sync" => call = "sync" /\ layer = "ff"
    /\ at \in {"changed", "inserted"} => layer = "ff"
    /\ at \in {"stopRead", "erase", "stop"} => multi
    /\ sub = "none" <=> at \in Alone
    /\ at \in {"put", "stop"} => sub \in {"ready", "done"}
    /\ at = "stopRead" => sub \in {"packet", "done"}
    /\ at = "sync" => sub \in {"assert", "ready", "done"} \cup GivingUp
    /\ at = "close" <=> sub \in Releasing

\* The command packets send_cmd has to send for each of its callers.
PacketsAt ==
    CASE at = "idle"     -> {<<"CMD0">>}
      [] at = "version"  -> {<<"CMD8">>}
      [] at \in {"oldKind", "leave2"} -> {<<"CMD55", "ACMD41">>, <<"ACMD41">>}
      [] at = "leave1"   -> {<<"CMD55", "ACMD41">>, <<"ACMD41">>, <<"CMD1">>}
      [] at = "ocr"      -> {<<"CMD58">>}
      [] at = "length"   -> {<<"CMD16">>}
      [] at = "read"     -> {IF multi THEN <<"CMD18">> ELSE <<"CMD17">>}
      [] at = "stopRead" -> {<<"CMD12">>}
      [] at = "erase"    -> {<<"CMD55", "ACMD23">>, <<"ACMD23">>}
      [] at = "write"    -> {IF multi THEN <<"CMD25">> ELSE <<"CMD24">>}
      [] at = "csd"      -> {<<"CMD9">>}
      [] OTHER           -> {<<>>}

CommandInv == sub \in Sending => todo \in PacketsAt

\* The select bit follows the helper that is running, because the port is ready
\* whenever a write of the bit matters.
SelectInv ==
    /\ sub = "assert" /\ at # "sync" => ~busy
    /\ (sub \in {"done", "released"} \/ at = "block") => ~busy
    /\ sub \in {"clock", "assert", "giveUpClock", "releaseClock", "released"} => ~cs
    /\ sub \in {"negate", "giveUp", "release"} /\ busy => ~cs
    /\ at \in {"none", "changed", "inserted", "reset", "power", "settle"} => ~cs
    /\ at # "sync" /\ sub \in {"ready", "packet"} => cs
    /\ at # "sync" /\ sub = "done" /\ d # "none" => cs
    /\ at \in {"block", "put", "stop", "stopRead"} => cs

\* Outside disk_initialize the power, the clock and the card agree with Stat.
Settled == call # "init" \/ at = "reset"
PowerInv ==
    /\ Settled => IF Stat = "ok" THEN div = "dd" /\ pwr ELSE ~pwr
    /\ ~Settled => div = "pp"
    /\ ~Settled /\ at # "power" => pwr
    /\ call \notin {"none", "init"} /\ at \notin {"changed", "inserted"} => Stat = "ok"

\* A transfer is under way only where the driver will end it.
TransferInv ==
    /\ cstate = "sendingOne" =>
          \/ at = "csd" /\ sub = "done" /\ d = "ok"
          \/ ~multi /\ ((at = "read" /\ sub = "done" /\ d = "ok") \/ at = "block")
    /\ cstate = "sending" =>
          multi /\ (\/ at = "read" /\ sub = "done" /\ d = "ok"
                    \/ at = "block"
                    \/ at = "stopRead" /\ sub = "packet")
    /\ cstate = "receivingOne" =>
          ~multi /\ ((at = "write" /\ sub = "done" /\ d = "ok") \/ at = "put")
    /\ cstate \in {"receiving", "busyReceiving"} =>
          multi /\ ((at = "write" /\ sub = "done" /\ d = "ok") \/ at \in {"put", "stop"})
    /\ cstate = "busyReceiving" => sub = "ready"
    /\ at \in {"put", "stop"} /\ sub = "done" /\ d # "ok" => cstate \in {"native", "stuck"}

\* Power and presence; the card before, and after, it has left the idle state.
Awake ==
    /\ cstate # "idle"
    /\ slot # "empty" /\ pwr /\ ~swapped => cstate # "native"
CardInv ==
    /\ (slot = "empty" \/ ~pwr) => cstate = "native"
    /\ at \in {"power", "settle", "idle", "version"} => cstate \in {"native", "idle"}
    /\ at \in {"leave1", "leave2"} /\ sub = "done" /\ d = "ok" => Awake
    /\ at \in {"ocr", "length"} => Awake
    /\ sub \in GivingUp => cstate \in {"native", "stuck"}
    /\ (Settled \/ at = "close") /\ Stat = "ok" => Awake

\* CardType is that of the card that has been initialised, unless that is gone.
TypeInv ==
    /\ cstate # "native" /\ ( \/ at = "version" /\ sub = "done" /\ d # "idle"
                              \/ at \in {"oldKind", "leave1", "length"})
          => slot \notin Version2
    /\ at \in {"leave1", "length"} => CardType \in {"SD1", "MMC"}
    /\ (call # "init" \/ at = "close") /\ Stat = "ok" /\ cstate # "native"
          => sameUnit

\* Every sector that is counted has moved at the right place.
CountInv ==
    /\ cstate \in InTransfer /\ call \in {"read", "write"} => rightPlace
    /\ call \in {"read", "write"} => moved + count = asked \/ (at = "close" /\ count = 1)

IInv == /\ TypeOK /\ PlaceInv /\ CommandInv /\ SelectInv /\ PowerInv
        /\ TransferInv /\ CardInv /\ TypeInv /\ CountInv

-----------------------------------------------------------------------------
(* Command packets.                                                          *)

\* What send_cmd is about to send is CMD55 with the application command behind
\* it, or the last packet.
LEMMA PacketToSend ==
    ASSUME TypeOK, PlaceInv, CommandInv, sub = "packet"
    PROVE  \/ /\ at \in {"oldKind", "leave2", "leave1", "erase"}
              /\ Len(todo) = 2 /\ Head(todo) = "CMD55"
              /\ Tail(todo) \in PacketsAt
           \/ Len(todo) = 1 /\ todo = <<Head(todo)>> /\ todo \in PacketsAt
<1>1. todo \in PacketsAt /\ at \notin Alone \cup {"put", "stop", "sync", "close"}
  BY DEF PlaceInv, CommandInv, Sending, GivingUp, Releasing
<1>2. Len(<<"CMD55", "ACMD41">>) = 2 /\ Head(<<"CMD55", "ACMD41">>) = "CMD55"
      /\ Tail(<<"CMD55", "ACMD41">>) = <<"ACMD41">>
  OBVIOUS
<1>3. Len(<<"CMD55", "ACMD23">>) = 2 /\ Head(<<"CMD55", "ACMD23">>) = "CMD55"
      /\ Tail(<<"CMD55", "ACMD23">>) = <<"ACMD23">>
  OBVIOUS
<1>4. CASE todo \in {<<"CMD55", "ACMD41">>, <<"CMD55", "ACMD23">>}
  <2>1. todo # <<"CMD0">> /\ todo # <<"CMD8">> /\ todo # <<"CMD58">> /\ todo # <<"CMD16">>
        /\ todo # <<"CMD17">> /\ todo # <<"CMD18">> /\ todo # <<"CMD12">>
        /\ todo # <<"CMD24">> /\ todo # <<"CMD25">> /\ todo # <<"CMD9">> /\ todo # <<>>
        /\ todo # <<"CMD1">> /\ todo # <<"ACMD41">> /\ todo # <<"ACMD23">>
    BY <1>4
  <2> QED
    BY <1>1, <1>2, <1>3, <1>4, <2>1 DEF PacketsAt
<1>5. CASE todo \notin {<<"CMD55", "ACMD41">>, <<"CMD55", "ACMD23">>}
  <2>1. \E cmd : todo = <<cmd>>
    BY <1>1, <1>5
       DEF PacketsAt, Alone, TypeOK, Places, InitPlaces, ReadPlaces, WritePlaces
  <2> QED
    BY <1>1, <2>1
<1> QED
  BY <1>4, <1>5

\* The card that hears a command, by what it is doing.
LEMMA AnswersByState ==
    ASSUME hears, NEW cmd, NEW answer \in Answers(cmd)
    PROVE  \/ cstate \in Programming /\ answer = <<"ok", cstate>>
           \/ cmd = "CMD0" /\ answer = <<"idle", "idle">>
           \/ cstate = "native" /\ cmd # "CMD0" /\ answer = <<"none", "native">>
           \/ /\ cstate \notin Programming \cup {"native"}
              /\ \/ cmd = "CMD8" /\ slot \in Version2 /\ answer = <<"idle", cstate>>
                 \/ cmd = "CMD8" /\ slot \notin Version2 /\ answer = <<"error", cstate>>
                 \/ cmd = "CMD55"
                    /\ answer \in {<<"idle", cstate>>, <<"ok", cstate>>, <<"error", cstate>>}
                 \/ cmd \in {"ACMD41", "CMD1"}
                    /\ answer \in {<<"idle", "idle">>, <<"ok", "ready">>}
                 \/ cmd = "CMD12" /\ answer = <<"ok", "busy">>
                 \/ cmd \notin {"CMD0", "CMD8", "CMD55", "ACMD41", "CMD1", "CMD12"}
                    /\ answer = <<"error", cstate>>
                 \/ /\ cmd \notin {"CMD0", "CMD8", "CMD55", "ACMD41", "CMD1", "CMD12"}
                    /\ cstate = "ready" /\ answer = Accept(cmd)
<1>1. CASE cstate \in Programming
  BY <1>1 DEF Answers
<1>2. CASE cstate \notin Programming /\ (cmd = "CMD0" \/ cstate = "native")
  BY <1>2 DEF Answers
<1>3. CASE cstate \notin Programming /\ cmd # "CMD0" /\ cstate # "native"
           /\ cmd \in {"CMD8", "CMD55", "ACMD41", "CMD1", "CMD12"}
  BY <1>3 DEF Answers, Refuse
<1>4. CASE cstate \notin Programming /\ cmd # "CMD0" /\ cstate # "native"
           /\ cmd \notin {"CMD8", "CMD55", "ACMD41", "CMD1", "CMD12"}
  BY <1>4 DEF Answers, Refuse
<1> QED
  BY <1>1, <1>2, <1>3, <1>4

\* The card, when a packet is sent in the middle of send_cmd, and its answers.
LEMMA CardAnswers ==
    ASSUME TypeOK, NEW cmd, NEW answer \in Answers(cmd), hears \/ cstate = "native"
    PROVE  /\ answer[1] \in {"none", "ok", "idle", "error"} /\ answer[2] \in CStates
           /\ answer[2] = "native" => cstate = "native"
           /\ cstate = "native" /\ cmd # "CMD0" => answer[2] = "native" /\ answer[1] = "none"
           /\ answer[2] = "idle" => cstate = "idle" \/ cmd \in {"CMD0", "ACMD41", "CMD1"}
           /\ cmd \in {"ACMD41", "CMD1"} /\ answer[1] = "ok"
                 => answer[2] \notin {"native", "idle"}
           /\ cmd = "CMD8" /\ answer[1] # "idle" /\ cstate = "idle"
                 => slot \notin Version2
           /\ cmd \in {"CMD0", "CMD8"} /\ cstate \in {"native", "idle"}
                 => answer[2] \in {"native", "idle"}
           /\ ~hears => answer[1] = "none" /\ answer[2] = cstate
<1> USE DEF TypeOK, CStates, Programming, Refuse
<1>1. CASE ~hears
  BY <1>1 DEF Answers
<1>2. CASE hears
  BY <1>2, AnswersByState DEF Accept
<1> QED
  BY <1>1, <1>2

LEMMA TransferBegins ==
    ASSUME TypeOK, NEW cmd, NEW answer \in Answers(cmd),
           cstate \notin InTransfer \/ (hears /\ cmd = "CMD12" /\ cstate = "sending")
    PROVE  answer[2] \in InTransfer =>
              /\ cstate = "ready" /\ answer[1] = "ok"
              /\ \/ cmd \in {"CMD9", "CMD17"} /\ answer[2] = "sendingOne"
                 \/ cmd = "CMD18" /\ answer[2] = "sending"
                 \/ cmd = "CMD24" /\ answer[2] = "receivingOne"
                 \/ cmd = "CMD25" /\ answer[2] = "receiving"
<1> USE DEF TypeOK, CStates, Programming, Refuse, InTransfer
<1>1. CASE ~hears
  BY <1>1 DEF Answers
<1>2. CASE hears
  BY <1>2, AnswersByState DEF Accept
<1> QED
  BY <1>1, <1>2

\* One packet, seen from the driver: the first of two, or the last.
Sends(cmd) ==
    /\ \E answer \in Answers(cmd) : d' = answer[1] /\ cstate' = answer[2]
    /\ rightPlace' = IF cmd \in Addressed THEN sameUnit ELSE rightPlace
    /\ \/ /\ cmd = "CMD55" /\ at \in {"oldKind", "leave2", "leave1", "erase"}
          /\ \/ d' \in {"ok", "idle"} /\ sub' = "negate" /\ todo' \in PacketsAt
             \/ d' \notin {"ok", "idle"} /\ sub' = "done"
       \/ <<cmd>> \in PacketsAt /\ sub' = "done"

LEMMA PacketStep ==
    ASSUME IInv, Packet
    PROVE  /\ cs /\ pwr /\ (hears \/ cstate = "native")
           /\ \E cmd : Sends(cmd)
<1>1. /\ sub = "packet" /\ PlaceInv /\ CommandInv /\ TypeOK
      /\ at \notin Alone \cup {"put", "stop", "sync", "close"}
  BY DEF IInv, Packet, PlaceInv, GivingUp, Releasing
<1>2. cs /\ pwr /\ (hears \/ cstate = "native")
  <2>1. cs
    BY <1>1 DEF IInv, SelectInv
  <2>2. pwr
    BY <1>1 DEF IInv, PowerInv, Settled, PlaceInv, Alone
  <2> QED
    BY <2>1, <2>2 DEF IInv, CardInv, hears, present
<1>3. PICK answer \in Answers(Head(todo)) :
         /\ d' = answer[1] /\ cstate' = answer[2]
         /\ IF Len(todo) > 1 /\ d' \in {"ok", "idle"}
            THEN todo' = Tail(todo) /\ sub' = "negate"
            ELSE todo' = <<>> /\ sub' = "done"
  BY DEF Packet
<1>4. rightPlace' = IF Head(todo) \in Addressed THEN sameUnit ELSE rightPlace
  BY DEF Packet
<1>5. \/ /\ Head(todo) = "CMD55" /\ at \in {"oldKind", "leave2", "leave1", "erase"}
         /\ \/ d' \in {"ok", "idle"} /\ sub' = "negate" /\ todo' \in PacketsAt
            \/ d' \notin {"ok", "idle"} /\ sub' = "done"
      \/ <<Head(todo)>> \in PacketsAt /\ sub' = "done"
  <2>1. CASE /\ at \in {"oldKind", "leave2", "leave1", "erase"}
             /\ Len(todo) = 2 /\ Head(todo) = "CMD55"
             /\ Tail(todo) \in PacketsAt
    <3>1. Len(todo) > 1
      BY <2>1
    <3>2. IF d' \in {"ok", "idle"} THEN todo' = Tail(todo) /\ sub' = "negate"
                                  ELSE sub' = "done"
      BY <1>3, <3>1
    <3> QED
      BY <2>1, <3>2
  <2>2. CASE Len(todo) = 1 /\ todo = <<Head(todo)>> /\ todo \in PacketsAt
    <3>1. ~(Len(todo) > 1)
      BY <2>2
    <3> QED
      BY <1>3, <2>2, <3>1
  <2> QED
    BY <1>1, <2>1, <2>2, PacketToSend
<1> QED
  BY <1>2, <1>3, <1>4, <1>5 DEF Sends

-----------------------------------------------------------------------------
(* The steps, in groups.                                                     *)
Helpers  == Negate \/ Clock \/ Assert \/ WaitReady
Calling  == Call \/ PffCall \/ CardChanged \/ CardInserted \/ CallReturn
PowerUp  == PowerCycle \/ PowerOn \/ EnterIdle \/ InitReturn
Identify == Idle \/ Version \/ OldKind \/ Leave2 \/ Leave1 \/ Ocr \/ BlockLength
Reading  == ReadCommanded \/ ReadBlock \/ ReadStopped
Writing  == Preerased \/ WriteCommanded \/ PutBlock \/ StopWrite
Control  == Synced \/ Csd
Outside  == Port \/ Card \/ User

Step == /\ UNCHANGED layer
        /\ \/ Helpers \/ Packet \/ Calling \/ PowerUp \/ Identify
           \/ Reading \/ Writing \/ Control \/ Outside

LEMMA NextIsStep == Next => Step
  BY DEF Next, Step, Driver, Caller, Port, Card, User, Helpers, Calling, PowerUp,
         Identify, Reading, Writing, Control, Outside

-----------------------------------------------------------------------------
(* Each part of the invariant is kept by every step.                         *)

LEMMA WriteBackTypes ==
    ASSUME PortTypeOK, NEW select \in BOOLEAN, NEW power \in BOOLEAN,
           WriteBack(select, power)
    PROVE  PortTypeOK'
<1>1. busy' \in BOOLEAN
  BY DEF PortTypeOK, WriteBack
<1>2. cs' \in BOOLEAN
  BY DEF PortTypeOK, WriteBack
<1>3. pwr' \in BOOLEAN
  BY DEF PortTypeOK, WriteBack
<1> QED
  BY <1>1, <1>2, <1>3 DEF PortTypeOK

LEMMA StepPortTypes == ASSUME IInv, Step PROVE PortTypeOK'
<1> USE DEF IInv, TypeOK
<1>1. CASE \E select \in BOOLEAN, power \in BOOLEAN : WriteBack(select, power)
  BY <1>1, WriteBackTypes
<1>2. CASE UNCHANGED <<busy, cs, pwr>>
  BY <1>2 DEF PortTypeOK
<1>3. CASE ByteDone
  BY <1>3 DEF PortTypeOK, ByteDone
<1>4. CASE sd_reset
  BY <1>4 DEF PortTypeOK, sd_reset
<1>5. CASE Helpers
  BY <1>5, <1>1, <1>2
     DEF Helpers, Negate, Clock, Assert, WaitReady, sd_negate, cardVars,
         dataVars, drvVars, Exchange, sd_assert, sdifVars, PortTypeOK
<1>6. CASE Packet
  BY <1>6, <1>1, <1>2
     DEF Packet, Exchange, sdifVars
<1>7. CASE Calling
  BY <1>7, <1>1, <1>2
     DEF Calling, Call, PffCall, CardChanged, CardInserted, CallReturn,
         sdifVars, cardVars, drvVars, sd_change, dataVars, PortTypeOK
<1>8. CASE PowerUp
  BY <1>8, <1>1, <1>2, <1>4
     DEF PowerUp, PowerCycle, PowerOn, EnterIdle, InitReturn, dataVars,
         drvVars, sd_pwr_on, cardVars, Exchange, sd_pwr_off, sd_ddmode,
         sdifVars, PortTypeOK
<1>9. CASE Identify
  BY <1>9, <1>1, <1>2
     DEF Identify, Idle, Version, OldKind, Leave2, Leave1, Ocr, BlockLength,
         drvVars, sdifVars, cardVars, dataVars, Exchange, LeaveIdle
<1>10. CASE Reading
  BY <1>10, <1>1, <1>2
     DEF Reading, ReadCommanded, ReadBlock, ReadStopped, sdifVars, cardVars,
         dataVars, drvVars, Exchange, ctlVars
<1>11. CASE Writing
  BY <1>11, <1>1, <1>2
     DEF Writing, Preerased, WriteCommanded, PutBlock, StopWrite, sdifVars,
         cardVars, dataVars, drvVars, Exchange
<1>12. CASE Control
  BY <1>12, <1>1, <1>2
     DEF Control, Synced, Csd, sdifVars, cardVars, drvVars, Exchange
<1>13. CASE Outside
  BY <1>13, <1>1, <1>2, <1>3
     DEF Outside, Port, Card, User, cardVars, ctlVars, dataVars, drvVars,
         sdifVars
<1> QED
  BY <1>5, <1>6, <1>7, <1>8, <1>9, <1>10, <1>11, <1>12, <1>13 DEF Step

LEMMA StepTypeOK == ASSUME IInv, Step PROVE TypeOK'
<1> USE DEF IInv, Step
<1>0. PortTypeOK'
  BY StepPortTypes
<1> USE
    DEF TypeOK, Calls, Places, Sending, GivingUp, Releasing,
        Kinds, CStates, InitPlaces, ReadPlaces, WritePlaces, Send, Begin,
        Close, Return, At, Back, Packets, LeaveIdle, Found, dataVars, drvVars,
        ctlVars, cardVars, sdifVars, Exchange
<1>1. CASE Helpers
  BY <1>1, <1>0
     DEF Helpers, Negate, Clock, Assert, WaitReady, sd_negate, sd_assert,
         HoldsLow, WriteBack, hears, Programming, present
<1>2. CASE Packet
  <2>1. PICK cmd : Sends(cmd)
    BY <1>2, PacketStep
  <2>2. /\ cs /\ pwr /\ (hears \/ cstate = "native") /\ sub = "packet"
        /\ UNCHANGED <<slot, swaps, swapped, call, at, asked, count, moved, drvVars, sdifVars>>
    BY <1>2, PacketStep DEF Packet
  <2>3. PICK answer \in Answers(cmd) : d' = answer[1] /\ cstate' = answer[2]
    BY <2>1 DEF Sends
  <2>4. d' \in {"none", "ok", "idle", "error"} /\ cstate' \in CStates
    BY <2>2, <2>3, CardAnswers
  <2>5. rightPlace' \in BOOLEAN
    BY <2>1 DEF Sends, sameUnit
  <2>6. sub' \in {"negate", "done"}
    BY <2>1 DEF Sends
  <2> QED
    BY <1>0, <2>2, <2>4, <2>5, <2>6
<1>3. CASE Calling
  <2>1. CASE Call
    <3>1. asked' \in Nat /\ count' \in Int /\ moved' \in Nat
      BY <2>1, DiskAssumption DEF Call
    <3>2. call' \in Calls /\ at' \in Places
      BY <2>1 DEF Call
    <3>3. rightPlace' \in BOOLEAN
      BY <2>1 DEF Call
    <3>4. UNCHANGED <<d, slot, cstate, swapped, Stat>>
      BY <2>1 DEF Call
    <3>5. sub' \in {sub, "negate"}
      BY <2>1 DEF Call
    <3> QED
      BY <1>0, <3>1, <3>2, <3>3, <3>4, <3>5
  <2>2. CASE PffCall
    <3>1. asked' \in Nat /\ count' \in Int /\ moved' \in Nat
      BY <2>2, DiskAssumption DEF PffCall
    <3>2. call' \in Calls /\ at' \in Places
      BY <2>2 DEF PffCall
    <3>3. rightPlace' \in BOOLEAN
      BY <2>2 DEF PffCall
    <3>4. UNCHANGED <<d, slot, cstate, swapped, Stat>>
      BY <2>2 DEF PffCall
    <3>5. sub' \in {sub, "negate"}
      BY <2>2 DEF PffCall
    <3> QED
      BY <1>0, <3>1, <3>2, <3>3, <3>4, <3>5
  <2>3. CASE CardChanged
    BY <2>3, <1>0
       DEF CardChanged, changed, sd_change, WriteBack
  <2>4. CASE CardInserted
    BY <2>4, <1>0
       DEF CardInserted, multi, SDC
  <2>5. CASE CallReturn
    BY <2>5, <1>0
       DEF CallReturn
  <2> QED
    BY <1>3, <2>1, <2>2, <2>3, <2>4, <2>5 DEF Calling
<1>4. CASE PowerUp
  BY <1>4, <1>0
     DEF PowerUp, PowerCycle, PowerOn, EnterIdle, InitReturn, sd_reset,
         sd_pwr_on, sd_pwr_off, sd_ddmode, portReady, sd_ppmode, WriteBack
<1>5. CASE Identify
  BY <1>5, <1>0
     DEF Identify, Idle, Version, OldKind, Leave2, Leave1, Ocr, BlockLength,
         hears, Version2, blockAddressed, present
<1>6. CASE Reading
  BY <1>6, <1>0
     DEF Reading, ReadCommanded, ReadBlock, ReadStopped, GivesBlock,
         EndOfRead, AfterSending, hears, multi, present
<1>7. CASE Writing
  BY <1>7, <1>0
     DEF Writing, Preerased, WriteCommanded, PutBlock, StopWrite, TakesBlock,
         AfterAccept, EndOfWrite, AfterReject, AfterStop, hears, multi,
         present
<1>8. CASE Control
  BY <1>8, <1>0
     DEF Control, Synced, Csd, GivesBlock, AfterSending, hears, present
<1>9. CASE Outside
  BY <1>9, <1>0
     DEF Outside, Port, Card, User, ByteDone, Programmed, Swap
<1> QED
  BY <1>1, <1>2, <1>3, <1>4, <1>5, <1>6, <1>7, <1>8, <1>9

LEMMA StepPlaceInv == ASSUME IInv, Step PROVE PlaceInv'
<1> USE
    DEF IInv, Step, TypeOK, PortTypeOK, Calls, Places, Sending, GivingUp, Releasing,
        Kinds, CStates, InitPlaces, ReadPlaces, WritePlaces, PlaceInv, multi,
        Alone, CommandInv, PacketsAt, Send, Begin, Close, Return, At, Back,
        Packets, LeaveIdle, Found, dataVars, drvVars, ctlVars, cardVars,
        sdifVars, Exchange
<1>1. CASE Helpers
  BY <1>1
     DEF Helpers, Negate, Clock, Assert, WaitReady, sd_negate, sd_assert,
         HoldsLow, WriteBack, hears, Programming, present
<1>2. CASE Packet
  BY <1>2
     DEF Packet, Answers, Addressed, sameUnit, hears, Programming, Version2,
         Refuse, Accept, BlockTypes, present
<1>3. CASE Calling
  BY <1>3
     DEF Calling, Call, PffCall, CardChanged, CardInserted, CallReturn,
         changed, sd_change, SDC, WriteBack
<1>4. CASE PowerUp
  BY <1>4
     DEF PowerUp, PowerCycle, PowerOn, EnterIdle, InitReturn, sd_reset,
         sd_pwr_on, sd_pwr_off, sd_ddmode, portReady, sd_ppmode, WriteBack
<1>5. CASE Identify
  BY <1>5
     DEF Identify, Idle, Version, OldKind, Leave2, Leave1, Ocr, BlockLength,
         hears, Version2, blockAddressed, present
<1>6. CASE Reading
  BY <1>6
     DEF Reading, ReadCommanded, ReadBlock, ReadStopped, GivesBlock,
         EndOfRead, AfterSending, hears, present
<1>7. CASE Writing
  BY <1>7
     DEF Writing, Preerased, WriteCommanded, PutBlock, StopWrite, TakesBlock,
         AfterAccept, EndOfWrite, AfterReject, AfterStop, hears, present
<1>8. CASE Control
  BY <1>8
     DEF Control, Synced, Csd, GivesBlock, AfterSending, hears, present
<1>9. CASE Outside
  BY <1>9
     DEF Outside, Port, Card, User, ByteDone, Programmed, Swap
<1> QED
  BY <1>1, <1>2, <1>3, <1>4, <1>5, <1>6, <1>7, <1>8, <1>9

LEMMA StepCommandInv == ASSUME IInv, Step PROVE CommandInv'
<1> USE
    DEF IInv, Step, TypeOK, PortTypeOK, Calls, Places, Sending, GivingUp, Releasing,
        Kinds, CStates, InitPlaces, ReadPlaces, WritePlaces, PlaceInv, multi,
        Alone, CommandInv, PacketsAt, Send, Begin, Close, Return, At, Back,
        Packets, LeaveIdle, Found, dataVars, drvVars, ctlVars, cardVars,
        sdifVars, Exchange
<1>1. CASE Helpers
  BY <1>1
     DEF Helpers, Negate, Clock, Assert, WaitReady, sd_negate, sd_assert,
         HoldsLow, WriteBack, hears, Programming, present
<1>2. CASE Packet
  <2>1. PICK cmd : Sends(cmd)
    BY <1>2, PacketStep
  <2>2. /\ cs /\ pwr /\ (hears \/ cstate = "native") /\ sub = "packet"
        /\ UNCHANGED <<slot, swaps, swapped, call, at, asked, count, moved, drvVars, sdifVars>>
    BY <1>2, PacketStep DEF Packet
  <2> QED
    BY <2>1, <2>2 DEF Sends, PacketsAt
<1>3. CASE Calling
  BY <1>3
     DEF Calling, Call, PffCall, CardChanged, CardInserted, CallReturn,
         changed, sd_change, SDC, WriteBack
<1>4. CASE PowerUp
  BY <1>4
     DEF PowerUp, PowerCycle, PowerOn, EnterIdle, InitReturn, sd_reset,
         sd_pwr_on, sd_pwr_off, sd_ddmode, portReady, sd_ppmode, WriteBack
<1>5. CASE Identify
  BY <1>5
     DEF Identify, Idle, Version, OldKind, Leave2, Leave1, Ocr, BlockLength,
         hears, Version2, blockAddressed, present
<1>6. CASE Reading
  BY <1>6
     DEF Reading, ReadCommanded, ReadBlock, ReadStopped, GivesBlock,
         EndOfRead, AfterSending, hears, present
<1>7. CASE Writing
  BY <1>7
     DEF Writing, Preerased, WriteCommanded, PutBlock, StopWrite, TakesBlock,
         AfterAccept, EndOfWrite, AfterReject, AfterStop, hears, present
<1>8. CASE Control
  BY <1>8
     DEF Control, Synced, Csd, GivesBlock, AfterSending, hears, present
<1>9. CASE Outside
  BY <1>9
     DEF Outside, Port, Card, User, ByteDone, Programmed, Swap
<1> QED
  BY <1>1, <1>2, <1>3, <1>4, <1>5, <1>6, <1>7, <1>8, <1>9

LEMMA StepSelectInv == ASSUME IInv, Step PROVE SelectInv'
<1> USE
    DEF IInv, Step, TypeOK, PortTypeOK, Calls, Places, Sending, GivingUp, Releasing,
        Kinds, CStates, InitPlaces, ReadPlaces, WritePlaces, PlaceInv, multi,
        Alone, CommandInv, PacketsAt, SelectInv, Send, Begin, Close, Return,
        At, Back, Packets, LeaveIdle, Found, dataVars, drvVars, ctlVars,
        cardVars, sdifVars, Exchange
<1>1. CASE Helpers
  BY <1>1
     DEF Helpers, Negate, Clock, Assert, WaitReady, sd_negate, sd_assert,
         HoldsLow, WriteBack, hears, Programming, present
<1>2. CASE Packet
  BY <1>2
     DEF Packet, Answers, Addressed, sameUnit, hears, Programming, Version2,
         Refuse, Accept, BlockTypes, present
<1>3. CASE Calling
  BY <1>3
     DEF Calling, Call, PffCall, CardChanged, CardInserted, CallReturn,
         changed, sd_change, SDC, WriteBack
<1>4. CASE PowerUp
  BY <1>4
     DEF PowerUp, PowerCycle, PowerOn, EnterIdle, InitReturn, sd_reset,
         sd_pwr_on, sd_pwr_off, sd_ddmode, portReady, sd_ppmode, WriteBack
<1>5. CASE Identify
  BY <1>5
     DEF Identify, Idle, Version, OldKind, Leave2, Leave1, Ocr, BlockLength,
         hears, Version2, blockAddressed, present
<1>6. CASE Reading
  BY <1>6
     DEF Reading, ReadCommanded, ReadBlock, ReadStopped, GivesBlock,
         EndOfRead, AfterSending, hears, present
<1>7. CASE Writing
  BY <1>7
     DEF Writing, Preerased, WriteCommanded, PutBlock, StopWrite, TakesBlock,
         AfterAccept, EndOfWrite, AfterReject, AfterStop, hears, present
<1>8. CASE Control
  BY <1>8
     DEF Control, Synced, Csd, GivesBlock, AfterSending, hears, present
<1>9. CASE Outside
  BY <1>9
     DEF Outside, Port, Card, User, ByteDone, Programmed, Swap
<1> QED
  BY <1>1, <1>2, <1>3, <1>4, <1>5, <1>6, <1>7, <1>8, <1>9

LEMMA StepPowerInv == ASSUME IInv, Step PROVE PowerInv'
<1> USE
    DEF IInv, Step, TypeOK, PortTypeOK, Calls, Places, Sending, GivingUp, Releasing,
        Kinds, CStates, InitPlaces, ReadPlaces, WritePlaces, PlaceInv, multi,
        Alone, SelectInv, PowerInv, Settled, Send, Begin, Close, Return, At,
        Back, Packets, LeaveIdle, Found, dataVars, drvVars, ctlVars, cardVars,
        sdifVars, Exchange
<1>1. CASE Helpers
  BY <1>1
     DEF Helpers, Negate, Clock, Assert, WaitReady, sd_negate, sd_assert,
         HoldsLow, WriteBack, hears, Programming, present
<1>2. CASE Packet
  BY <1>2
     DEF Packet, Answers, Addressed, sameUnit, hears, Programming, Version2,
         Refuse, Accept, BlockTypes, present
<1>3. CASE Calling
  BY <1>3
     DEF Calling, Call, PffCall, CardChanged, CardInserted, CallReturn,
         changed, sd_change, SDC, WriteBack
<1>4. CASE PowerUp
  BY <1>4
     DEF PowerUp, PowerCycle, PowerOn, EnterIdle, InitReturn, sd_reset,
         sd_pwr_on, sd_pwr_off, sd_ddmode, portReady, sd_ppmode, WriteBack
<1>5. CASE Identify
  BY <1>5
     DEF Identify, Idle, Version, OldKind, Leave2, Leave1, Ocr, BlockLength,
         hears, Version2, blockAddressed, present
<1>6. CASE Reading
  BY <1>6
     DEF Reading, ReadCommanded, ReadBlock, ReadStopped, GivesBlock,
         EndOfRead, AfterSending, hears, present
<1>7. CASE Writing
  BY <1>7
     DEF Writing, Preerased, WriteCommanded, PutBlock, StopWrite, TakesBlock,
         AfterAccept, EndOfWrite, AfterReject, AfterStop, hears, present
<1>8. CASE Control
  BY <1>8
     DEF Control, Synced, Csd, GivesBlock, AfterSending, hears, present
<1>9. CASE Outside
  BY <1>9
     DEF Outside, Port, Card, User, ByteDone, Programmed, Swap
<1> QED
  BY <1>1, <1>2, <1>3, <1>4, <1>5, <1>6, <1>7, <1>8, <1>9

LEMMA StepTransferInv == ASSUME IInv, Step PROVE TransferInv'
<1> USE
    DEF IInv, Step, TypeOK, PortTypeOK, Calls, Places, Sending, GivingUp, Releasing,
        Kinds, CStates, InitPlaces, ReadPlaces, WritePlaces, PlaceInv, multi,
        Alone, SelectInv, PowerInv, Settled, CardInv, Awake, TransferInv,
        Send, Begin, Close, Return, At, Back, Packets, LeaveIdle, Found,
        dataVars, drvVars, ctlVars, cardVars, sdifVars, Exchange
<1>1. CASE Helpers
  BY <1>1
     DEF Helpers, Negate, Clock, Assert, WaitReady, sd_negate, sd_assert,
         HoldsLow, WriteBack, hears, Programming, present
<1>2. CASE Packet
  <2>1. PICK cmd : Sends(cmd)
    BY <1>2, PacketStep
  <2>2. /\ cs /\ pwr /\ (hears \/ cstate = "native") /\ sub = "packet"
        /\ UNCHANGED <<slot, swaps, swapped, call, at, asked, count, moved, drvVars, sdifVars>>
    BY <1>2, PacketStep DEF Packet
  <2>3. cstate \notin InTransfer \/ (hears /\ cmd = "CMD12" /\ cstate = "sending")
    BY <2>1, <2>2 DEF Sends, InTransfer, PacketsAt
  <2>4. cstate' \in InTransfer =>
           /\ cstate = "ready" /\ d' = "ok"
           /\ \/ cmd \in {"CMD9", "CMD17"} /\ cstate' = "sendingOne"
              \/ cmd = "CMD18" /\ cstate' = "sending"
              \/ cmd = "CMD24" /\ cstate' = "receivingOne"
              \/ cmd = "CMD25" /\ cstate' = "receiving"
    BY <2>1, <2>3, TransferBegins DEF Sends
  <2> QED
    BY <2>1, <2>2, <2>4 DEF Sends, InTransfer, PacketsAt
<1>3. CASE Calling
  BY <1>3
     DEF Calling, Call, PffCall, CardChanged, CardInserted, CallReturn,
         changed, sd_change, SDC, WriteBack
<1>4. CASE PowerUp
  BY <1>4
     DEF PowerUp, PowerCycle, PowerOn, EnterIdle, InitReturn, sd_reset,
         sd_pwr_on, sd_pwr_off, sd_ddmode, portReady, sd_ppmode, WriteBack
<1>5. CASE Identify
  BY <1>5
     DEF Identify, Idle, Version, OldKind, Leave2, Leave1, Ocr, BlockLength,
         hears, Version2, blockAddressed, present
<1>6. CASE Reading
  BY <1>6
     DEF Reading, ReadCommanded, ReadBlock, ReadStopped, GivesBlock,
         EndOfRead, AfterSending, hears, present
<1>7. CASE Writing
  BY <1>7
     DEF Writing, Preerased, WriteCommanded, PutBlock, StopWrite, TakesBlock,
         AfterAccept, EndOfWrite, AfterReject, AfterStop, hears, present
<1>8. CASE Control
  BY <1>8
     DEF Control, Synced, Csd, GivesBlock, AfterSending, hears, present
<1>9. CASE Outside
  BY <1>9
     DEF Outside, Port, Card, User, ByteDone, Programmed, Swap
<1> QED
  BY <1>1, <1>2, <1>3, <1>4, <1>5, <1>6, <1>7, <1>8, <1>9

LEMMA StepCardInv == ASSUME IInv, Step PROVE CardInv'
<1> USE
    DEF IInv, Step, TypeOK, PortTypeOK, Calls, Places, Sending, GivingUp, Releasing,
        Kinds, CStates, InitPlaces, ReadPlaces, WritePlaces, PlaceInv, multi,
        Alone, SelectInv, PowerInv, Settled, CardInv, Awake, Send, Begin,
        Close, Return, At, Back, Packets, LeaveIdle, Found, dataVars, drvVars,
        ctlVars, cardVars, sdifVars, Exchange
<1>1. CASE Helpers
  <2>1. CASE Negate
    BY <2>1
       DEF Negate, sd_negate, WriteBack
  <2>2. CASE Clock
    BY <2>2
       DEF Clock
  <2>3. CASE Assert
    BY <2>3
       DEF Assert, sd_assert, WriteBack
  <2>4. CASE WaitReady
    <3>1. /\ UNCHANGED <<slot, cstate, swapped, pwr, at, call, Stat, CardType>>
          /\ sub = "ready" /\ sub' \in {"packet", "done", "giveUp"}
          /\ sub' = "giveUp" => cstate = "stuck"
      BY <2>4 DEF WaitReady
    <3>2. sub' = "done" /\ at \notin {"put", "stop"} => todo = <<>>
      BY <2>4 DEF WaitReady
    <3>3. sub = "ready" /\ todo = <<>> /\ at \notin {"put", "stop"} => at = "sync"
      BY DEF CommandInv, PacketsAt
    <3>4. sub' = "done" => at \in {"put", "stop", "sync"}
      BY <3>1, <3>2, <3>3
    <3> QED
      BY <3>1, <3>4
  <2> QED
    BY <1>1, <2>1, <2>2, <2>3, <2>4 DEF Helpers
<1>2. CASE Packet
  <2>1. PICK cmd : Sends(cmd)
    BY <1>2, PacketStep
  <2>2. /\ cs /\ pwr /\ (hears \/ cstate = "native") /\ sub = "packet"
        /\ UNCHANGED <<slot, swaps, swapped, call, at, asked, count, moved, drvVars, sdifVars>>
    BY <1>2, PacketStep DEF Packet
  <2>3. /\ cstate' = "native" => cstate = "native"
        /\ cstate = "native" /\ cmd # "CMD0" => cstate' = "native" /\ d' = "none"
        /\ cstate' = "idle" => cstate = "idle" \/ cmd \in {"CMD0", "ACMD41", "CMD1"}
        /\ cmd \in {"ACMD41", "CMD1"} /\ d' = "ok" => cstate' \notin {"native", "idle"}
        /\ cmd = "CMD8" /\ d' # "idle" /\ cstate = "idle" => slot \notin Version2
        /\ cmd \in {"CMD0", "CMD8"} /\ cstate \in {"native", "idle"}
              => cstate' \in {"native", "idle"}
        /\ ~hears => d' = "none" /\ cstate' = cstate
    BY <2>1, <2>2, CardAnswers DEF Sends
  <2> QED
    BY <2>1, <2>2, <2>3 DEF Sends, PacketsAt, hears, present
<1>3. CASE Calling
  BY <1>3
     DEF Calling, Call, PffCall, CardChanged, CardInserted, CallReturn,
         changed, sd_change, SDC, WriteBack
<1>4. CASE PowerUp
  BY <1>4
     DEF PowerUp, PowerCycle, PowerOn, EnterIdle, InitReturn, sd_reset,
         sd_pwr_on, sd_pwr_off, sd_ddmode, portReady, sd_ppmode, WriteBack
<1>5. CASE Identify
  BY <1>5
     DEF Identify, Idle, Version, OldKind, Leave2, Leave1, Ocr, BlockLength,
         hears, Version2, blockAddressed, present
<1>6. CASE Reading
  BY <1>6
     DEF Reading, ReadCommanded, ReadBlock, ReadStopped, GivesBlock,
         EndOfRead, AfterSending, hears, present
<1>7. CASE Writing
  BY <1>7
     DEF Writing, Preerased, WriteCommanded, PutBlock, StopWrite, TakesBlock,
         AfterAccept, EndOfWrite, AfterReject, AfterStop, hears, present
<1>8. CASE Control
  BY <1>8
     DEF Control, Synced, Csd, GivesBlock, AfterSending, hears, present
<1>9. CASE Outside
  BY <1>9
     DEF Outside, Port, Card, User, ByteDone, Programmed, Swap
<1> QED
  BY <1>1, <1>2, <1>3, <1>4, <1>5, <1>6, <1>7, <1>8, <1>9

LEMMA StepTypeInv == ASSUME IInv, Step PROVE TypeInv'
<1> USE
    DEF IInv, Step, TypeOK, PortTypeOK, Calls, Places, Sending, GivingUp, Releasing,
        Kinds, CStates, InitPlaces, ReadPlaces, WritePlaces, PlaceInv, multi,
        Alone, SelectInv, PowerInv, Settled, CardInv, Awake, TypeInv,
        Version2, sameUnit, BlockTypes, Send, Begin, Close, Return, At, Back,
        Packets, LeaveIdle, Found, dataVars, drvVars, ctlVars, cardVars,
        sdifVars, Exchange
<1>1. CASE Helpers
  <2>1. CASE Negate
    BY <2>1
       DEF Negate, sd_negate, WriteBack
  <2>2. CASE Clock
    BY <2>2
       DEF Clock
  <2>3. CASE Assert
    BY <2>3
       DEF Assert, sd_assert, WriteBack
  <2>4. CASE WaitReady
    BY <2>4
       DEF WaitReady, HoldsLow, hears, Programming, present, CommandInv,
           PacketsAt
  <2> QED
    BY <1>1, <2>1, <2>2, <2>3, <2>4 DEF Helpers
<1>2. CASE Packet
  <2>1. PICK cmd : Sends(cmd)
    BY <1>2, PacketStep
  <2>2. /\ cs /\ pwr /\ (hears \/ cstate = "native") /\ sub = "packet"
        /\ UNCHANGED <<slot, swaps, swapped, call, at, asked, count, moved, drvVars, sdifVars>>
    BY <1>2, PacketStep DEF Packet
  <2>3. /\ cstate' = "native" => cstate = "native"
        /\ cstate = "native" /\ cmd # "CMD0" => cstate' = "native" /\ d' = "none"
        /\ cstate' = "idle" => cstate = "idle" \/ cmd \in {"CMD0", "ACMD41", "CMD1"}
        /\ cmd \in {"ACMD41", "CMD1"} /\ d' = "ok" => cstate' \notin {"native", "idle"}
        /\ cmd = "CMD8" /\ d' # "idle" /\ cstate = "idle" => slot \notin Version2
        /\ cmd \in {"CMD0", "CMD8"} /\ cstate \in {"native", "idle"}
              => cstate' \in {"native", "idle"}
        /\ ~hears => d' = "none" /\ cstate' = cstate
    BY <2>1, <2>2, CardAnswers DEF Sends
  <2> QED
    BY <2>1, <2>2, <2>3 DEF Sends, PacketsAt
<1>3. CASE Calling
  BY <1>3
     DEF Calling, Call, PffCall, CardChanged, CardInserted, CallReturn,
         changed, sd_change, SDC, WriteBack
<1>4. CASE PowerUp
  BY <1>4
     DEF PowerUp, PowerCycle, PowerOn, EnterIdle, InitReturn, sd_reset,
         sd_pwr_on, sd_pwr_off, sd_ddmode, portReady, sd_ppmode, WriteBack
<1>5. CASE Identify
  BY <1>5
     DEF Identify, Idle, Version, OldKind, Leave2, Leave1, Ocr, BlockLength,
         hears, blockAddressed, present
<1>6. CASE Reading
  BY <1>6
     DEF Reading, ReadCommanded, ReadBlock, ReadStopped, GivesBlock,
         EndOfRead, AfterSending, hears, present
<1>7. CASE Writing
  BY <1>7
     DEF Writing, Preerased, WriteCommanded, PutBlock, StopWrite, TakesBlock,
         AfterAccept, EndOfWrite, AfterReject, AfterStop, hears, present
<1>8. CASE Control
  BY <1>8
     DEF Control, Synced, Csd, GivesBlock, AfterSending, hears, present
<1>9. CASE Outside
  BY <1>9
     DEF Outside, Port, Card, User, ByteDone, Programmed, Swap
<1> QED
  BY <1>1, <1>2, <1>3, <1>4, <1>5, <1>6, <1>7, <1>8, <1>9

LEMMA StepCountInv == ASSUME IInv, Step PROVE CountInv'
<1> USE
    DEF IInv, Step, TypeOK, PortTypeOK, Calls, Places, Sending, GivingUp, Releasing,
        Kinds, CStates, InitPlaces, ReadPlaces, WritePlaces, PlaceInv, multi,
        Alone, SelectInv, PowerInv, Settled, TransferInv, CardInv, Awake,
        TypeInv, Version2, sameUnit, BlockTypes, CountInv, InTransfer, Send,
        Begin, Close, Return, At, Back, Packets, LeaveIdle, Found, dataVars,
        drvVars, ctlVars, cardVars, sdifVars, Exchange
<1>1. CASE Helpers
  BY <1>1
     DEF Helpers, Negate, Clock, Assert, WaitReady, sd_negate, sd_assert,
         HoldsLow, WriteBack, hears, Programming, present
<1>2. CASE Packet
  <2>1. PICK cmd : Sends(cmd)
    BY <1>2, PacketStep
  <2>2. /\ cs /\ pwr /\ (hears \/ cstate = "native") /\ sub = "packet"
        /\ UNCHANGED <<slot, swaps, swapped, call, at, asked, count, moved, drvVars, sdifVars>>
    BY <1>2, PacketStep DEF Packet
  <2>3. cstate \notin InTransfer \/ (hears /\ cmd = "CMD12" /\ cstate = "sending")
    BY <2>1, <2>2 DEF Sends, InTransfer, PacketsAt
  <2>4. cstate' \in InTransfer =>
           /\ cstate = "ready" /\ d' = "ok"
           /\ \/ cmd \in {"CMD9", "CMD17"} /\ cstate' = "sendingOne"
              \/ cmd = "CMD18" /\ cstate' = "sending"
              \/ cmd = "CMD24" /\ cstate' = "receivingOne"
              \/ cmd = "CMD25" /\ cstate' = "receiving"
    BY <2>1, <2>3, TransferBegins DEF Sends
  <2> QED
    BY <2>1, <2>2, <2>4 DEF Sends, PacketsAt, Addressed
<1>3. CASE Calling
  BY <1>3
     DEF Calling, Call, PffCall, CardChanged, CardInserted, CallReturn,
         changed, sd_change, SDC, WriteBack
<1>4. CASE PowerUp
  BY <1>4
     DEF PowerUp, PowerCycle, PowerOn, EnterIdle, InitReturn, sd_reset,
         sd_pwr_on, sd_pwr_off, sd_ddmode, portReady, sd_ppmode, WriteBack
<1>5. CASE Identify
  BY <1>5
     DEF Identify, Idle, Version, OldKind, Leave2, Leave1, Ocr, BlockLength,
         hears, blockAddressed, present
<1>6. CASE Reading
  BY <1>6
     DEF Reading, ReadCommanded, ReadBlock, ReadStopped, GivesBlock,
         EndOfRead, AfterSending, hears, present
<1>7. CASE Writing
  BY <1>7
     DEF Writing, Preerased, WriteCommanded, PutBlock, StopWrite, TakesBlock,
         AfterAccept, EndOfWrite, AfterReject, AfterStop, hears, present
<1>8. CASE Control
  BY <1>8
     DEF Control, Synced, Csd, GivesBlock, AfterSending, hears, present
<1>9. CASE Outside
  BY <1>9
     DEF Outside, Port, Card, User, ByteDone, Programmed, Swap
<1> QED
  BY <1>1, <1>2, <1>3, <1>4, <1>5, <1>6, <1>7, <1>8, <1>9

-----------------------------------------------------------------------------
(* The theorems.                                                             *)
LEMMA InitIInv == Init => IInv
<1> USE DEF Init, SdifInit, CardInit
<1>1. Init => TypeOK
  <2>1. Init => PortTypeOK
    BY DEF PortTypeOK
  <2>2. Init => swapped \in BOOLEAN /\ rightPlace \in BOOLEAN
    OBVIOUS
  <2> QED
    BY <2>1, <2>2 DEF TypeOK, Calls, Places, Kinds, CStates
<1>2. Init => PlaceInv /\ CommandInv
  BY DEF PlaceInv, CommandInv, InitPlaces, ReadPlaces, WritePlaces, Alone, Sending,
         GivingUp, Releasing
<1>3. Init => SelectInv /\ PowerInv
  BY DEF SelectInv, PowerInv, Settled
<1>4. Init => TransferInv /\ CardInv /\ TypeInv /\ CountInv
  BY DEF TransferInv, CardInv, TypeInv, CountInv, Settled, InTransfer, GivingUp
<1> QED
  BY <1>1, <1>2, <1>3, <1>4 DEF IInv

LEMMA StutterIInv == IInv /\ UNCHANGED vars => IInv'
<1> SUFFICES ASSUME IInv, UNCHANGED vars PROVE IInv'
  OBVIOUS
<1> USE DEF vars, sdifVars, cardVars, ctlVars, dataVars, drvVars, multi, sameUnit, Settled
<1>1. TypeOK' /\ PlaceInv'
  BY DEF IInv, TypeOK, PortTypeOK, PlaceInv
<1>2. CommandInv' /\ SelectInv' /\ PowerInv'
  BY DEF IInv, CommandInv, PacketsAt, SelectInv, PowerInv
<1>3. TransferInv' /\ CardInv' /\ TypeInv' /\ CountInv'
  BY DEF IInv, TransferInv, CardInv, Awake, TypeInv, CountInv
<1> QED
  BY <1>1, <1>2, <1>3 DEF IInv

(* The state of the driver, of the port and of the card fit together at every*)
(* place of every call, for any number of sectors, polls and exchanges of the*)
(* card.                                                                     *)
THEOREM DriverInvariant == Spec => []IInv
<1>1. IInv /\ [Next]_vars => IInv'
  <2> SUFFICES ASSUME IInv, [Next]_vars PROVE IInv'
    OBVIOUS
  <2>1. CASE Next
    <3>1. Step
      BY <2>1, NextIsStep
    <3> QED
      BY <3>1, StepTypeOK, StepPlaceInv, StepCommandInv, StepSelectInv, StepPowerInv,
         StepTransferInv, StepCardInv, StepTypeInv, StepCountInv DEF IInv
  <2>2. CASE UNCHANGED vars
    BY <2>2, StutterIInv
  <2> QED
    BY <2>1, <2>2
<1> QED
  BY <1>1, InitIInv, PTL DEF Spec

(* The driver never talks past the card: every byte that matters to a card is*)
(* exchanged with it selected and powered, although peridot_sdif ignores a   *)
(* write of the select bit while it shifts.                                  *)
THEOREM TransfersReachTheCard == Spec => []TransfersAreSelected
<1>1. IInv => TransfersAreSelected
  <2> SUFFICES ASSUME IInv, Talking PROVE cs /\ pwr
    BY DEF TransfersAreSelected
  <2>1. at \notin {"none", "changed", "inserted", "reset", "power", "sync"}
    BY DEF IInv, PlaceInv, Talking, Alone, GivingUp
  <2>2. pwr
    BY <2>1 DEF IInv, PlaceInv, PowerInv, Settled
  <2>3. cs
    BY <2>1 DEF IInv, SelectInv, Talking
  <2> QED
    BY <2>2, <2>3
<1> QED
  BY <1>1, DriverInvariant, PTL

(* Whatever fails in a call, it leaves the card released and out of every    *)
(* transfer, so that the next command is understood.                         *)
THEOREM CardIsReleased == Spec => []CardReleased
<1>1. IInv => CardReleased
  BY DEF IInv, TypeOK, PlaceInv, SelectInv, TransferInv, CardReleased, InTransfer
<1> QED
  BY <1>1, DriverInvariant, PTL

(* disk_initialize works at the slow clock whichever cards come and go, and no*)
(* idle card is ever clocked faster. A native card is only if it was put in  *)
(* since disk_initialize switched the slot off, and then it may be until the *)
(* next one: this case of the code is excepted, not excluded.                *)
THEOREM ClockSuitsTheCard == Spec => []ClockFollowsCard
<1>1. IInv => ClockFollowsCard
  <2> SUFFICES ASSUME IInv PROVE ClockFollowsCard
    OBVIOUS
  <2>1. ASSUME call = "init", at # "reset" PROVE div = "pp"
    BY <2>1 DEF IInv, PowerInv, Settled
  <2>2. Settled /\ pwr => Awake
    BY DEF IInv, PowerInv, CardInv
  <2>3. ASSUME present, cstate = "idle" PROVE div = "pp"
    BY <2>2, <2>3 DEF IInv, PowerInv, Awake, present
  <2>4. ASSUME present, cstate = "native", ~swapped PROVE div = "pp"
    BY <2>2, <2>4 DEF IInv, PowerInv, Awake, present
  <2>5. ASSUME call = "none" PROVE IF Stat = "ok" THEN div = "dd" /\ pwr ELSE ~pwr
    BY <2>5 DEF IInv, PowerInv, Settled
  <2> QED
    BY <2>1, <2>3, <2>4, <2>5 DEF ClockFollowsCard
<1> QED
  BY <1>1, DriverInvariant, PTL

(* disk_read and disk_write report success only if the card moved every      *)
(* sector at the address that was meant, whatever was exchanged and whenever.*)
THEOREM SuccessMeansMoved == Spec => OkMeansMoved
<1>1. ASSUME IInv, [Next]_vars
      PROVE  [call' = "none" /\ call \in {"read", "write"} /\ result' = "ok"
                 => moved = asked]_vars
  <2> SUFFICES ASSUME Next, call' = "none", call \in {"read", "write"}, result' = "ok"
               PROVE  moved = asked
    BY <1>1
  <2>1. Step
    BY NextIsStep
  <2>2. CardChanged \/ CardInserted \/ InitReturn \/ CallReturn
    <3> USE DEF Send, Begin, Close, At, Back, LeaveIdle, Found,
                dataVars, drvVars, ctlVars, cardVars, sdifVars
    <3>1. ~Helpers /\ ~Packet
      BY DEF Helpers, Negate, Clock, Assert, WaitReady, Packet
    <3>2. ~PowerUp \/ InitReturn
      BY DEF PowerUp, PowerCycle, PowerOn, EnterIdle
    <3>3. ~Identify
      BY DEF Identify, Idle, Version, OldKind, Leave2, Leave1, Ocr, BlockLength
    <3>4. ~Reading /\ ~Writing /\ ~Control
      BY DEF Reading, ReadCommanded, ReadBlock, EndOfRead, ReadStopped, Writing,
             Preerased, WriteCommanded, PutBlock, EndOfWrite, StopWrite, Control,
             Synced, Csd
    <3>5. ~Outside
      BY DEF Outside, Port, Card, User
    <3>6. ~Call /\ ~PffCall
      BY DEF Call, PffCall, Calls
    <3> QED
      BY <2>1, <3>1, <3>2, <3>3, <3>4, <3>5, <3>6 DEF Step, Calling
  <2>3. CASE CardChanged
    BY <2>3 DEF CardChanged, Return, Begin
  <2>4. CASE CardInserted
    BY <2>4 DEF CardInserted, Return, Begin, Close, Send
  <2>5. CASE InitReturn
    BY <2>5 DEF InitReturn
  <2>6. CASE CallReturn
    <3>1. count = 0
      BY <2>6 DEF CallReturn, Return
    <3> QED
      BY <1>1, <3>1 DEF IInv, TypeOK, CountInv
  <2> QED
    BY <2>2, <2>3, <2>4, <2>5, <2>6
<1> QED
  BY <1>1, DriverInvariant, PTL DEF Spec, OkMeansMoved

=============================================================================
