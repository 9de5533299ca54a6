\* A request passes the gate just before the loop falls asleep.
CONSTANTS
    c1 = c1
    c2 = c2
    c3 = c3
    m1 = m1
    a1 = a1
    s1 = s1
    s2 = s2
    NoSlot = NoSlot
    NoTask = NoTask
    Kind <- MCKind
    IdSlot <- MCIdSlot
    Target <- MCTarget
    Tasks = {c1}
    Slots = {s1}
    SleepEnabled = TRUE
    LaunchMayFail = FALSE
    MayDisconnect = {}
    MayTerminate = FALSE
    MayThrow = TRUE
    MaxPartials = 0
SPECIFICATION FairSpec
PROPERTIES
    EveryPostedRequestIsTaken
\* Once every request is over and start_loop() has returned nothing happens.
CHECK_DEADLOCK FALSE
