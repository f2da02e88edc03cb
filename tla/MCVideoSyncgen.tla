--------------------------- MODULE MCVideoSyncgen -----------------------------
(* A picture of 28 x 12 pixels, the least in which every bar has three of    *)
(* them and every zone a line, with 61 clocks of sync and back porch and 4 of*)
(* front porch, the fewest that leave room for an island.  The generator     *)
(* starts at every place of a line where a register moves.                   *)
EXTENDS VideoSyncgen

Moves == {H_SYNC, PacketUntil, PreambleFrom, GuardFrom,
          H_START - EARLY_REQ, H_START, H_END - EARLY_REQ, H_END, PacketFrom}

SomePositions ==
    ({0} \cup {m - 1 : m \in Moves}) \X {0, V_START + 8, V_TOTAL - 1}

\* BT601 differs from BT709 in the colours its names stand for only.
AllGenerics == {"WIDE", "SD"} \X {"RGB", "BT709"}

=============================================================================
