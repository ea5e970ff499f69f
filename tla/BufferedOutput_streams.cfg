SPECIFICATION FairSpec
CONSTANTS
    Threads = {t1, t2}
    Ops = {o1, o2}
    NoThread = NoThread
    Unwritten = Unwritten
    Kinds = {"decrypt", "digest", "sign"}
    Sizes = {0, 1}
    DefaultSize = 1
    MaxEstimate = 2
    MaxChunks = 1
    Strategies = {TRUE, FALSE}
    Faults = {"error", "short_update", "short_final"}
CHECK_DEADLOCK FALSE
INVARIANTS
    RoomForOutput
    OutputInOrder
    NothingForeign
PROPERTIES
    LockIsReleased
    ImplementsStream
