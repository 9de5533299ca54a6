\* Two servers in one directory, one of which may crash; files found damaged.
CONSTANTS
    a = a
    b = b
    k = k
    other = other
    Servers = {a, b}
    Self = a
    Key <- MCKey
    OtherKey = other
    Prompts <- MCPrompts
    Size <- MCSize
    Limit = 3
    FileIds = {1, 2, 3, 4, 5, 6, 7, 8}
    Found <- MCFound
    MayCrash = {a}
    Spilled <- MCSpilled
    NSlots = 2
    RamLimit = 1
    HasDraft = TRUE
    CacheIdleSlots = TRUE
    KvUnified = TRUE
SPECIFICATION CSpec
INVARIANTS
    PromptTypeOK
    WithinLimits
    IndexIsTrue
    
PROPERTIES
    
    LostOnlyForRoom
VIEW MCView
\* Once both servers are down, or out of names, nothing need happen.
CHECK_DEADLOCK FALSE
