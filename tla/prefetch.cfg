\* A call of three tokens or two of two, two readers, a chunk per token; reads may fail.
SPECIFICATION FairPSpec
CONSTANTS
    Readers = {r1, r2}
    Cold = {r2}
    Prompts <- MCPrompts
    ChunkSize = 1
    Ubatch = 2
    Ahead = 0
    BatchRuns = 2
    Bounded = TRUE
    MayFail = TRUE
    DecodeMin = 2
    MaxRuns = 2
    MaxTokens = 4
INVARIANTS PleTypeOK CoveredMeansRead WindowKept GatherIsRight
PROPERTIES CallOutlivesThreads MainReturns
\* Once every call is used up the main thread may stop calling.
CHECK_DEADLOCK FALSE
