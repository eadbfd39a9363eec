SPECIFICATION Spec
CONSTANTS
    Streams <- Constructed
    HighWaterMark = 2
    SpliceAfter = 1
    MaxOps = 4
    MaxFaults = 1
INVARIANT
    InOrder
