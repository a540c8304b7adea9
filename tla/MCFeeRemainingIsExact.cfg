SPECIFICATION FeeSpec
CONSTANTS
    admin = admin
    wallet = wallet
    zero = zero
    Null = Null
    TERM_LENGTH = 2
    Address <- MCAddress
    EOA_ZERO = zero
    Contracts = {}
    Amounts = {1}
    Limits = {0, 2}
    IssuerCaps = {1}
    Admins = {admin}
    IntRange = 8
    DefaultFreeLimit = 1
    MaxDepth = 0
    MaxHeight = 5
    MaxApproved = 1
INVARIANTS
    RemainingIsExact
