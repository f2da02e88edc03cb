SPECIFICATION FairSpec
CONSTANTS
    DEPTH = 12
    AMOSTEMPTY = 5
    SECTOR = 3
    HEADER = 1
    CHUNK = 5
    FIRST = 2
    MaxFaults = 2
    Dir <- SomeDir
INVARIANTS
    RoomForChunk
    FatFsExclusive
PROPERTIES
    WaitEndsWithTheSong
    ImplementsPlayback
    MusicGoesOn
