SPECIFICATION FairSpec
CONSTANTS
    PcmFifoDepth = 40
    Frames = 5
    Pcm = {p1}
    NoWord = NoWord
    FsPeriod = 8
    Blank = Blank
INVARIANTS
    AudioNeverStalls
    WholePacket
PROPERTIES
    ImplementsPacketBus
    RequestIsAnswered
    AudioIsSent
