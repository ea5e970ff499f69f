SPECIFICATION Spec
CONSTANTS
    Threads = {t1, t2}
    Labels = {"L1", "L2"}
    Shapes = {"secret", "rsa", "params", "unsized"}
    SerialPairs = TRUE
    MaxCalls = 2
SYMMETRY Symmetry
INVARIANTS
    SecretKeysAreOwn
    CapabilitiesAreOwn
    GivenLabelIsSent
