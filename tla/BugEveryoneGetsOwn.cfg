SPECIFICATION Spec
CONSTANTS
    Module = {a, b, c}
    MaxRank = 2
INVARIANTS
    EveryoneGetsOwn
