SPECIFICATION Spec
CONSTANTS
    AviGenerics <- SomeGenerics
    ClockGenerics <- AllClocks
    Packets <- AllPackets
INVARIANTS
    IslandIsCodeword
    SinkAcceptsInfo
