SPECIFICATION Spec
CONSTANTS
    Callback = {a, b, c}
    Delay = {0, 1}
    MaxTime = 1
    Main = Main
    Idle = Idle
    Free = Free
INVARIANTS
    TypeOK
    Places
    PollOnlyWhenIdle
    QuiescentExit
    EventsFindTheirTask
    StrayCancelNeedsReuse
PROPERTIES
    EarlyOnlyInReusedSlot
    ImplementsScheduler
    RunsToItsEnd
