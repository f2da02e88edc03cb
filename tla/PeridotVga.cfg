SPECIFICATION FairSpec
CONSTANTS
    Tops = {20, 40}
    LINENUMBER = 2
    TRANSCYCLE = 3
    LINEWORDNUM = 4
    BURSTUNIT = 2
    FIFODEPTH = 3
    FIFORESETCOUNT = 4
INVARIANTS
    RoomForBurst
    PictureInPlace
PROPERTIES
    PictureRecovers
