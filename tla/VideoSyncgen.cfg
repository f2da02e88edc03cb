SPECIFICATION EntitySpec
CONSTANTS
    H_TOTAL = 93
    H_SYNC = 3
    H_BACKP = 58
    H_ACTIVE = 28
    V_TOTAL = 15
    V_SYNC = 1
    V_BACKP = 1
    V_ACTIVE = 12
    EARLY_REQ = 2
    FRAME_TOP = 0
    BarGenerics <- AllGenerics
    StartPositions <- SomePositions
INVARIANTS
    ActiveLineAligned
    LinesAnnounced
PROPERTIES
    WholeFrames
    Locks
    PictureAppears
