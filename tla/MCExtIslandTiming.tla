-------------------------- MODULE MCExtIslandTiming --------------------------
(* The blanking of MCVideoSyncgen with the picture right behind vsync, started*)
(* at the corners of the screen and in the middle of the picture.            *)
EXTENDS ExtIslandTiming

SomePositions == {0, H_START + 1, H_TOTAL - 1} \X {0, V_START, V_TOTAL - 1}

=============================================================================
