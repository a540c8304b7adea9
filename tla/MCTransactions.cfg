SPECIFICATION TxSpec
CONSTANTS
    admin = admin
    wallet = wallet
    dapp = dapp
    zero = zero
    Null = Null
    TERM_LENGTH = 2
    EOA_ZERO = zero
    Contracts = {dapp}
    Limits = {0}
    IssuerCaps = {1}
    IntRange = 8
    DefaultFreeLimit = 0
    MaxDepth = 2
    MaxHeight = 0
    MaxApproved = 1
    Address <- MCAddress
    Amounts = {0, 1}
    Admins = {admin, dapp}
INVARIANTS
    TypeOK
    MintedWithinApprovals
PROPERTIES
    TransactionsAreAtomic
