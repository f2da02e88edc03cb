---------------------------- MODULE MCTmdsEncoder -----------------------------
(* The encoder pipeline with all control, guard and packet codes, and pixel  *)
(* values chosen for their numbers of ones: 0, 1, 3, 4 with either value of  *)
(* bit 0, 5, 7 and 8.                                                        *)
EXTENDS TmdsEncoder

SomeBytes == {{}, {3}, {0, 2, 5}, {0, 1, 4, 6}, {1, 2, 3, 7},
              {1, 2, 4, 5, 7}, 1..7, 0..7}

Periods ==
    [mode : {"video"}, d : SomeBytes, s : {0}, c : {0}]
        \cup [mode : {"data"}, d : {{1}}, s : 0..15, c : {0}]
        \cup [mode : {"control", "videoGuard", "dataGuard"},
              d : {{1}}, s : {5}, c : 0..3]
=============================================================================
