SPECIFICATION Spec
CONSTANTS
    owner = owner
    first = first
    second = second
    coin = coin
    market = market
    User <- MCUser
    Score <- MCScore
    MaxRequests = 4
    MaxDepth = 2
INVARIANTS
    VerdictsStand
PROPERTIES
    VersionsAdvance
    SeatsAreKept
