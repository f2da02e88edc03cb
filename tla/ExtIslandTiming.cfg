SPECIFICATION ExtFairSpec
CONSTANTS
    H_TOTAL = 69
    H_SYNC = 3
    H_BACKP = 58
    H_ACTIVE = 4
    V_TOTAL = 5
    V_SYNC = 2
    V_BACKP = 0
    V_ACTIVE = 2
    EARLY_REQ = 2
    StartPositions <- SomePositions
    EncodeModes = {"HDMI", "LITEHDMI"}
INVARIANTS
    NoOverlap
PROPERTIES
    LinkProtocol
    IslandsKeepComing
