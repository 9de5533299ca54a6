\* Two completions for one slot; launches fail, computations throw, shutdown at any moment.
CONSTANTS
    c1 = c1
    c2 = c2
    c3 = c3
    m1 = m1
    a1 = a1
    s1 = s1
    s2 = s2
    NoSlot = NoSlot
    NoTask = NoTask
    Kind <- MCKind
    IdSlot <- MCIdSlot
    Target <- MCTarget
    Tasks = {c1, c2}
    Slots = {s1}
    SleepEnabled = FALSE
    LaunchMayFail = TRUE
    MayDisconnect = {c1, c2}
    MayTerminate = TRUE
    MayThrow = TRUE
    MaxPartials = 0
SPECIFICATION FairSpec
INVARIANTS
    LaunchedOnce
PROPERTIES
    ImplementsResponseLife
    EveryRequestEnds
    ShutdownEndsLoop
\* Once every request is over and start_loop() has returned nothing happens.
CHECK_DEADLOCK FALSE
