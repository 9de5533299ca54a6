\* Two requests of one conversation, a reader and a delete; everything may go wrong.
CONSTANTS
    r1 = r1
    r2 = r2
    g1 = g1
    d1 = d1
    c1 = c1
    NoSession = NoSession
    Requests = {r1, r2}
    Readers = {g1}
    Deleters = {d1}
    Convs = {c1}
    Conv <- OneConv
    Cap = 2
    ChunkSizes = {3}
    MaxChunks = 1
    Offsets = {1}
    MayFail = {r2}
    MayDisconnect = {r2}
    MayStop = TRUE
SPECIFICATION FairSSpec
INVARIANTS
    RingExact
    ReplayExact
    CompleteMeansAll
    NoSessionLost
    RingCompleteAlone
PROPERTIES
    DetachedReadersEnd
    NoReaderHangs
\* Once every request, reader and delete is over nothing happens.
CHECK_DEADLOCK FALSE
