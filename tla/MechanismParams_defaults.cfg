SPECIFICATION Spec
CONSTANTS
    Requests <- MCRequests
    Lengths = {0, 1, 2}
    Counts = {1, 2}
    None = None
    NoKey = NoKey
INVARIANTS
    
    StructuresAreComplete
    NothingLeaks
    DefaultKeysWork
    WrapsAreWhole
