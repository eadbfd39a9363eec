SPECIFICATION Spec
CONSTANTS
    Streams <- Answering
    HighWaterMark = 2
    SpliceAfter = 1
    MaxOps = 4
    MaxFaults = 1
PROPERTIES
    DrainComes
    CallbacksCome
