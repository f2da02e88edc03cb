--------------------------------- MODULE SdCard -------------------------------
(* The slot and the card in it, as the SD specification and the driver see   *)
(* it: a card comes up in native mode and understands nothing but CMD0 until *)
(* it has seen that.  It may refuse a command or a block at any time, and it *)
(* may get stuck while programming; it answers in time or never.             *)
EXTENDS Integers, Sdif

CONSTANT MaxSwaps       \* bound on insertions and removals

VARIABLES slot,         \* the card in the slot, or "empty"
          cstate,       \* what it is doing
          swaps,        \* insertions and removals so far
          swapped       \* there was one since disk_initialize cut the power

cardVars == <<slot, cstate, swaps, swapped>>

Kinds   == {"MMC", "SD1", "SD2", "SDHC"}
Version2 == {"SD2", "SDHC"}
CStates == {"native", "idle", "ready", "sending", "sendingOne", "receiving",
            "receivingOne", "busy", "busyReceiving", "stuck"}
Programming == {"busy", "busyReceiving", "stuck"}
InTransfer  == {"sending", "sendingOne", "receiving", "receivingOne", "busyReceiving"}

CardInit ==
    /\ slot \in Kinds \cup {"empty"}
    /\ cstate = "native" /\ swaps = 0 /\ swapped = FALSE

present == slot # "empty" /\ pwr
hears   == present /\ cs

\* DO is low: the byte read is not 0xFF.
HoldsLow == hears /\ cstate \in Programming

-----------------------------------------------------------------------------
(* The R1 responses to a command, each with what the card does then: "ok" is *)
(* 0x00, "idle" 0x01, "error" has other bits, "none" is 0xFF.  The zeros of a*)
(* programming card look like "ok".                                          *)
Refuse == <<"error", cstate>>

Accept(cmd) ==
    <<"ok", CASE cmd \in {"CMD9", "CMD17"} -> "sendingOne"
              [] cmd = "CMD18" -> "sending"
              [] cmd = "CMD24" -> "receivingOne"
              [] cmd = "CMD25" -> "receiving"
              [] OTHER         -> cstate>>

Answers(cmd) ==
    IF ~hears THEN {<<"none", cstate>>}
    ELSE IF cstate \in Programming THEN {<<"ok", cstate>>}
    ELSE IF cmd = "CMD0"      THEN {<<"idle", "idle">>}
    ELSE IF cstate = "native" THEN {<<"none", "native">>}
    ELSE CASE cmd = "CMD8"  -> {IF slot \in Version2 THEN <<"idle", cstate>> ELSE Refuse}
           [] cmd = "CMD55" -> {IF slot = "MMC" THEN Refuse
                                ELSE <<IF cstate = "idle" THEN "idle" ELSE "ok", cstate>>}
           [] cmd \in {"ACMD41", "CMD1"} -> {<<"idle", "idle">>, <<"ok", "ready">>}
           [] cmd = "CMD12" -> {<<"ok", "busy">>}
           [] OTHER         -> {Refuse} \cup (IF cstate = "ready" THEN {Accept(cmd)} ELSE {})

\* A data block asked for: it comes, or an error token, or nothing.
GivesBlock == hears /\ cstate \in {"sending", "sendingOne"}
AfterSending == IF hears /\ cstate = "sendingOne" THEN "ready" ELSE cstate

\* A data block offered: it is accepted and programmed, or not.
TakesBlock == hears /\ cstate \in {"receiving", "receivingOne"}
AfterAccept == IF cstate = "receiving" THEN "busyReceiving" ELSE "busy"
AfterReject == IF hears /\ cstate = "receivingOne" THEN "ready" ELSE cstate

\* The stop token.
AfterStop == IF hears /\ cstate = "receiving" THEN "busy" ELSE cstate

-----------------------------------------------------------------------------
Programmed ==
    /\ cstate \in {"busy", "busyReceiving"}
    /\ cstate' \in {IF cstate = "busy" THEN "ready" ELSE "receiving", "stuck"}
    /\ UNCHANGED <<slot, swaps, swapped>>

Swap ==
    /\ swaps < MaxSwaps
    /\ slot' \in IF slot = "empty" THEN Kinds ELSE {"empty"}
    /\ swaps' = swaps + 1
    /\ cstate' = "native" /\ swapped' = TRUE

=============================================================================
