SPECIFICATION Spec
CONSTANTS
    admin = admin
    holder = holder
    third = third
    wallet = wallet
    dapp = dapp
    zero = zero
    Null = Null
    TERM_LENGTH = 2
    EOA_ZERO = zero
    Contracts = {}
    Limits <- MCLimits
    IssuerCaps <- MCIssuerCaps
    IntRange = 4
    DefaultFreeLimit = 0
    MaxDepth = 0
    MaxHeight = 0
    MaxApproved = 2
    Address <- MCIssuerAddress
    Amounts <- MCIssuerAmounts
    Admins = {admin, holder, zero}
INVARIANTS
    IssuersOK
    MintedWithinApprovals
PROPERTIES
    OthersKeepRights
