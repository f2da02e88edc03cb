SPECIFICATION RingSpec
CONSTANTS
    Depth = 4
    Data = {d1, d2}
    Unwritten = Unwritten
PROPERTIES
    ImplementsQueue
