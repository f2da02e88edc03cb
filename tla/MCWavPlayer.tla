------------------------------ MODULE MCWavPlayer -----------------------------
(* A directory with every kind of entry, and songs that end within a chunk,  *)
(* on its boundary, with the first sector, before their declared end, or     *)
(* with other data behind them.                                              *)
EXTENDS WavPlayer

File(kind, supported, declared, present) ==
    [kind |-> kind, supported |-> supported,
     declared |-> declared, present |-> present]

SomeDir == <<File("dot",   FALSE, 0, 0),
             File("wav",   TRUE,  FIRST + 3 * CHUNK + 1, FIRST + 3 * CHUNK + 1),
             File("wav",   FALSE, 0, 0),
             File("dir",   FALSE, 0, 0),
             File("wav",   TRUE,  FIRST, FIRST),
             File("other", FALSE, 0, 0),
             File("wav",   TRUE,  FIRST + CHUNK + 1, FIRST + 2 * CHUNK),
             File("wav",   TRUE,  FIRST + 2 * CHUNK, FIRST + CHUNK + 1)>>

=============================================================================
