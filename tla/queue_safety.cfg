\* Three HTTP threads, two slot ids to release, sleeping on.
CONSTANTS
    c1 = c1
    c2 = c2
    m1 = m1
    s1 = s1
    s2 = s2
    NoSlot = NoSlot
    NoTask = NoTask
    Tasks = {c1, c2, m1}
    Slots = {s1, s2}
    Kind <- MCKind
    IdSlot <- MCIdSlot
    SleepEnabled = TRUE
SPECIFICATION QSpec
INVARIANTS
    WorkerOnlyInYield
    YieldLeavesNothing
    NoLostWakeup
    NoTaskTwice
\* Once start_loop() has returned and the requests are over nothing happens.
CHECK_DEADLOCK FALSE
