SPECIFICATION FairSpec
CONSTANTS
    Threads = {t1, t2}
    Ops = {o1, o2, o3}
    NoThread = NoThread
    NoOp = NoOp
    Kinds = {"search", "encrypt", "sign"}
    SingleOperation = FALSE
    CancelWithInit = FALSE
    CrossThread = FALSE
    Faults = {"init_error", "update_error"}
INVARIANTS
    LockBalanced
    TokenServesOwner
    ReleasedWhenDone
PROPERTIES
    KeepsPromise
    EveryCallEnds
