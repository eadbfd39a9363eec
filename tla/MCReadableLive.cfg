SPECIFICATION Spec
CONSTANTS
    Clients <- Patient
    Dest = {a, b}
    HighWaterMark = 2
    MaxChunks = 2
    MaxCalls = 4
PROPERTIES
    DataComes
    ReadableComes
    PipeComes
