SPECIFICATION Spec
CONSTANTS
    Size <- MCSize
    Unavailable = Unavailable
    Garbage = Garbage
    Gone = Gone
    Sensitive = {"derive"}
    Handlers <- MCHandlers
    Unknown = {"vendor"}
    FalseValue = "no"
    Quirks = {"ok_unavailable", "bulk_fails", "device_error"}
    Threads = {t1, t2}
    NoThread = NoThread
    Flags <- MCFlags
    ObjectKeys <- MCObjectKeys
    Classes <- MCClasses
    Plain = "object"
    ParamKeys <- MCParamKeys
    Stored <- MCStored
    Made <- MCMade
    Params <- Domain
    MakerFlags <- MCMakers
    Templates <- MCTemplates
    Changes <- MCChanges
    Batch = 2
    MaxObjects = 5
    MaxCalls = 3
    MaxOdd = 2
SYMMETRY Symmetry
INVARIANTS
    TypeOK
    FalseMixinsHaveCause
    CapabilitiesAreMixins
    ReadsAreTrue
    SearchesAreExact
    SearchHasCaller
    OrphansHaveCause
CHECK_DEADLOCK FALSE
