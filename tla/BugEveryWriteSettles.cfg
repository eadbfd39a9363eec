SPECIFICATION Spec
CONSTANTS
    Streams <- JustFailing
    HighWaterMark = 2
    SpliceAfter = 1
    MaxOps = 4
    MaxFaults = 1
PROPERTY
    EveryWriteSettles
