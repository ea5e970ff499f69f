SPECIFICATION Spec
CONSTANTS
    Threads = {t1, t2, t3}
    Wrappers = {w1, w2, w3, w4}
    NoLib = NoLib
    MaxFailed = 1
SYMMETRY Symmetry
INVARIANTS
    RegisteredIsLoaded
    FlagsAgree
    CallsAreMapped
    NextLibSucceeds
