SPECIFICATION Spec
CONSTANTS
    Inputs <- Periods
INVARIANTS
    LineDisparityTracked
    SinkDecodes
    EveryPixelIsSafe
