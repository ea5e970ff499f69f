SPECIFICATION Spec
CONSTANTS
    MaxSlots = 3
    k1 = k1
    k2 = k2
    m1 = m1
    m2 = m2
    card = card
    stick = stick
    Tokens <- MCTokens
    NoToken = NoToken
    Blank = Blank
    Label <- MCLabel
    Mechanisms <- MCMechanisms
    Filters <- MCFilters
    None = None
    Junk = Junk
    AtStart <- MCAtStart
    MaxChanges = 3
INVARIANTS
    TypeOK
    ListsAreTrue
    TokensAreTrue
    QuietSearchesAreExact
