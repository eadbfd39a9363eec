SPECIFICATION Spec
CONSTANTS
    Clients <- Users
    Dest = {a, b}
    HighWaterMark = 2
    MaxChunks = 3
    MaxCalls = 4
SYMMETRY AnyDest
INVARIANTS
    TypeOK
    NothingLostOrRepeated
    EndsWell
    OneReadAtATime
    WaitsWhenAsked
    PipedInOrder
