SPECIFICATION Spec
CONSTANTS
    Size <- MCSize
    Unavailable = Unavailable
    Garbage = Garbage
    Gone = Gone
    Sensitive = {"derive"}
    Handlers <- MCHandlers
    Unknown = {"vendor"}
    FalseValue = "no"
    Quirks = {"bulk_fails"}
    Threads = {t1, t2}
    NoThread = NoThread
    Flags <- MCFlags
    ObjectKeys <- MCObjectKeys
    Classes <- MCClasses
    Plain = "object"
    ParamKeys <- MCParamKeys
    Stored <- MCStored
    Made <- MCMade
    Params <- Domain
    MakerFlags <- MCMakers
    Templates <- MCTemplates
    Changes <- MCChanges
    Batch = 2
    MaxObjects = 5
    MaxCalls = 3
    MaxOdd = 1
SYMMETRY Symmetry
INVARIANT MixinsAreCapabilities
CHECK_DEADLOCK FALSE
