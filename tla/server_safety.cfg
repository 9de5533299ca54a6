\* A completion, a slot action and a metrics request on one slot; clients leave, the server sleeps.
CONSTANTS
    c1 = c1
    c2 = c2
    c3 = c3
    m1 = m1
    a1 = a1
    s1 = s1
    s2 = s2
    NoSlot = NoSlot
    NoTask = NoTask
    Kind <- MCKind
    IdSlot <- MCIdSlot
    Target <- MCTarget
    Tasks = {c1, a1, m1}
    Slots = {s1}
    SleepEnabled = TRUE
    LaunchMayFail = TRUE
    MayDisconnect = {c1}
    MayTerminate = FALSE
    MayThrow = TRUE
    MaxPartials = 1
SPECIFICATION Spec
INVARIANTS
    STypeOK
    SleepOnlyWhenIdle
    NoResultLeftBehind
    NoRequestForgotten
\* Once every request is over and start_loop() has returned nothing happens.
CHECK_DEADLOCK FALSE
