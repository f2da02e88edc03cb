SPECIFICATION StreamSpec
CONSTANTS
    PcmFifoDepth = 64
    Frames = 5
    Pcm = {p1, p2}
    NoWord = NoWord
    FsPeriod = 8
INVARIANTS
    FifoContract
    WholeSubframes
    SampleIsAnnounced
