SPECIFICATION FairSpec
CONSTANTS
    Threads = {t1, t2}
    Sessions = {s1, s2, s3}
    Handles = {h1, h2}
    UserTypes = {"user", "so"}
    NoSession = NoSession
    NoHandle = NoHandle
    MaxRefused = 1
    MaxBroken = 1
INVARIANTS
    HandlesAreOwn
    LoginEndsWithSessions
    UserTypeIsTrue
PROPERTY ClosingCloses
