---------------------------------- MODULE Sdif --------------------------------
(* peridot_sdif, the SPI port of the memory card, and its driver, down to    *)
(* the control register: while a byte is being shifted the port ignores every *)
(* write, and the driver changes single bits by writing back what it has     *)
(* read, so that a READY bit read as 1 is written as START.                  *)

VARIABLES busy,     \* a byte is being shifted: READY reads as 0
          cs,       \* devena_reg: the card is selected
          pwr,      \* pwrena_reg: the slot has power
          div       \* divref_reg: "pp" below 400 kHz, "dd" full speed

sdifVars == <<busy, cs, pwr, div>>

SdifInit == busy = FALSE /\ cs = FALSE /\ pwr = FALSE /\ div = "reset"

-----------------------------------------------------------------------------
(* Read, change, write back.  A port that was ready starts a dummy byte; one *)
(* that was busy ignores the write, unless it got ready in between.          *)
WriteBack(select, power) ==
    /\ \/ ~busy /\ busy' = TRUE  /\ cs' = select /\ pwr' = power
       \/  busy /\ busy' = FALSE /\ cs' = select /\ pwr' = power
       \/  busy /\ UNCHANGED <<busy, cs, pwr>>
    /\ UNCHANGED div

sd_assert == WriteBack(TRUE, pwr)
sd_negate == WriteBack(FALSE, pwr)
sd_pwr_on  == WriteBack(cs, TRUE)
sd_pwr_off == WriteBack(cs, FALSE)

\* peridot_sdif_card_changed looks at the select bit and clears it.
sd_change  == WriteBack(FALSE, pwr)
changed    == cs

\* peridot_sdif_init waits for READY; the write of 0 removes the power.
portReadyFault == TRUE                        \* without waiting
portReady == ~busy

sd_ppmode == div' = IF busy THEN div ELSE "pp"
sd_ddmode == div' = IF busy THEN div ELSE "dd"

sd_reset ==
    /\ portReady
    /\ IF busy THEN UNCHANGED <<cs, pwr>> ELSE cs' = FALSE /\ pwr' = FALSE
    /\ UNCHANGED busy
    /\ sd_ppmode

\* xmit_mmc and rcvr_mmc wait for READY before the first and after the last byte.
Exchange == ~busy /\ UNCHANGED sdifVars

\* The last bit of a byte.
ByteDone == busy /\ busy' = FALSE /\ UNCHANGED <<cs, pwr, div>>

=============================================================================
