SPECIFICATION Spec
CONSTANTS
    Threads = {t1, t2}
    Ops = {o1, o2}
    NoThread = NoThread
    NoOp = NoOp
    Kinds = {"encrypt"}
    SingleOperation = FALSE
    CancelWithInit = FALSE
    CrossThread = TRUE
    Faults = {}
CHECK_DEADLOCK FALSE
INVARIANT ReleasedWhenDone
