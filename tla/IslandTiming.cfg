SPECIFICATION FairSpec
CONSTANTS
    MinActive = 63
    MinBlank = 14
INVARIANTS
    NoOverlap
    PixelAligned
PROPERTIES
    LinkProtocol
    PacketIsSent
