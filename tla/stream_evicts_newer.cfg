\* A request that fails after another of its conversation has replaced it.
CONSTANTS
    r1 = r1
    r2 = r2
    g1 = g1
    d1 = d1
    c1 = c1
    NoSession = NoSession
    Requests = {r1, r2}
    Readers = {}
    Deleters = {}
    Convs = {c1}
    Conv <- OneConv
    Cap = 2
    ChunkSizes = {1}
    MaxChunks = 1
    Offsets = {0}
    MayFail = {r1}
    MayDisconnect = {}
    MayStop = FALSE
SPECIFICATION SSpec
INVARIANTS
    RingComplete
\* Once every request, reader and delete is over nothing happens.
CHECK_DEADLOCK FALSE
