SPECIFICATION Spec
CONSTANTS
    admin = admin
    holder = holder
    third = third
    wallet = wallet
    dapp = dapp
    zero = zero
    Null = Null
    TERM_LENGTH = 2
    EOA_ZERO = zero
    Contracts = {dapp}
    Limits = {0}
    IssuerCaps = {1}
    IntRange = 8
    DefaultFreeLimit = 0
    MaxDepth = 3
    MaxHeight = 1
    MaxApproved = 2
    Address <- MCReentrantAddress
    Amounts <- MCAmounts
    Admins = {admin, zero}
INVARIANTS
    SupplyBacked
    LogSettles
    CallbackCannotAdminister
    WalletsAreSafe
