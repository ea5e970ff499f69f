SPECIFICATION Spec
CONSTANTS
    Threads = {t1}
    Labels = {"L1", "L2"}
    Shapes = {"rsa"}
    SerialPairs = TRUE
    MaxCalls = 2
INVARIANT PairsAreOwn
