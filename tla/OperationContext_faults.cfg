SPECIFICATION Spec
CONSTANTS
    Threads = {t1, t2}
    Ops = {o1, o2, o3}
    NoThread = NoThread
    NoOp = NoOp
    Kinds = {"search", "decrypt", "digest"}
    SingleOperation = FALSE
    CancelWithInit = TRUE
    CrossThread = TRUE
    Faults = {"init_error", "update_error", "buffer_too_small", "cancel_failed", "cancel_unsupported"}
SYMMETRY Symmetry
CHECK_DEADLOCK FALSE
INVARIANTS
    MutualExclusion
    LockCoversOps
    OpenOperationOwnsToken
