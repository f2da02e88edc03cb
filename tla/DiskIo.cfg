SPECIFICATION FairSpec
CONSTANTS
    MaxBlocks = 3
    Tries = 2
    MaxSwaps = 2
INVARIANTS
    TransfersAreSelected
    CardReleased
    ClockFollowsCard
PROPERTIES
    OkMeansMoved
    CallsReturn
