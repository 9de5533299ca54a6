\* Two reloads at a time, and requests for two models.
CONSTANTS
    m1 = m1
    m2 = m2
    r1 = r1
    r2 = r2
    a1 = a1
    a2 = a2
    NoModel = NoModel
    ModelOf <- TwoModels
    Models = {m1, m2}
    Requests = {r1, r2}
    Admins = {a1, a2}
    AdminOps <- ReloadOnly
    MaxModels = 2
    MayLeave = {}
    MayVanish = {m1, m2}
    MayCrash = {}
    MaySleep = {}
    MaxFailures = 0
SPECIFICATION RSpec
INVARIANTS
    NoSecondProcess
\* Once every request is over nothing happens.
CHECK_DEADLOCK FALSE
