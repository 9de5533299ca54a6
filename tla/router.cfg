\* Two requests for one model, a management request, one slot for two models.
CONSTANTS
    m1 = m1
    m2 = m2
    r1 = r1
    r2 = r2
    a1 = a1
    a2 = a2
    NoModel = NoModel
    ModelOf <- OneModel
    Models = {m1, m2}
    Requests = {r1, r2}
    Admins = {a1}
    AdminOps <- AllOps
    MaxModels = 1
    MayLeave = {r2}
    MayVanish = {m1}
    MayCrash = {m1}
    MaySleep = {m1}
    MaxFailures = 1
SPECIFICATION FairRSpec
INVARIANTS
    WithinLimit
    NoSecondProcess
    QueueCountsWaiters
    NoBusyLeak
    OneClaim
    StopIsOnItsWay
PROPERTIES
    RequestsEnd
\* Once every request is over nothing happens.
CHECK_DEADLOCK FALSE
