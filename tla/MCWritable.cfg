SPECIFICATION Spec
CONSTANTS
    Streams <- AllStreams
    HighWaterMark = 2
    SpliceAfter = 1
    MaxOps = 4
    MaxFaults = 1
INVARIANTS
    TypeOK
    LengthIsOutstanding
    CallbackOnce
    InOrderOnceConstructed
    OneWriteAtATime
    TellsTheTruth
