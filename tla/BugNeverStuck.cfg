SPECIFICATION Spec
CONSTANTS
    Clients <- PipesToBroken
    Dest = {a, b}
    HighWaterMark = 2
    MaxChunks = 2
    MaxCalls = 4
PROPERTIES
    NeverStuck
