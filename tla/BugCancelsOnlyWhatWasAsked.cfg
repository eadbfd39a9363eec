SPECIFICATION Spec
CONSTANTS
    Callback = {a, b, c}
    Delay = {0, 1}
    MaxTime = 1
    Main = Main
    Idle = Idle
    Free = Free
SYMMETRY Symmetry
INVARIANT CancelsOnlyWhatWasAsked
