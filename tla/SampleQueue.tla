----------------------------- MODULE SampleQueue ------------------------------
(* What the users of hdmi_tx_scfifo rely on: a FIFO whose registered output  *)
(* q shows, after each clock edge, the head of what was in the queue at that *)
(* edge once the word being acknowledged is gone.  A word written at the     *)
(* same edge is not seen by q: if nothing else is left, q is stale, one of   *)
(* Stale.                                                                    *)
EXTENDS Sequences, Integers

CONSTANTS Depth,       \* words: 2**FIFO_WORD_WIDTH
          Data,        \* what a word may be
          Stale        \* what q may show when it shows no word of the queue

VARIABLES queue, q

Init == queue = <<>> /\ q \in Stale

usedw == Len(queue)

\* Use within the contract: no read of an empty queue, no write to a full one.
LegalUse(wrreq, rdack) ==
    /\ rdack => usedw > 0
    /\ wrreq => usedw < Depth \/ rdack

Edge(wrreq, data, rdack) ==
    LET rest == IF rdack /\ queue # <<>> THEN Tail(queue) ELSE queue
    IN  /\ queue' = IF wrreq THEN Append(rest, data) ELSE rest
        /\ IF rest = <<>> THEN q' \in Stale ELSE q' = Head(rest)

Clear == queue' = <<>> /\ q' \in Stale

-----------------------------------------------------------------------------
(* The queue on its own, used within the contract.                           *)
Next ==
    \/ \E wrreq, rdack \in BOOLEAN, data \in Data :
          LegalUse(wrreq, rdack) /\ Edge(wrreq, data, rdack)
    \/ Clear

Spec == Init /\ [][Next]_<<queue, q>>

=============================================================================
