SPECIFICATION FairSpec
CONSTANTS
    a = a
    p = p
    q = q
    b = b
    c = c
    score = score
    Null = Null
    Self = governance
    Id = {p}
    Prep = {a, b, c}
    Contents <- MCVoted
    MainPrepLists <- MCVoters
    TermEnds = {0, 2}
    InitialNetwork <- MCNetwork
    MaxHeight = 3
INVARIANTS
    BallotsAddUp
    StatusJustified
PROPERTIES
    DecisionsAreFinal
    EventuallySettled
