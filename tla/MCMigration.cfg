SPECIFICATION Spec
CONSTANTS
    Null = Null
    INITIAL_COSTS <- MCInitialCosts
    COSTS_V1 <- MCCostsV1
    ServiceFlags = {"FEE"}
    Genesis <- MCGenesis
    Deployments <- MCDeployments
    Proposed <- MCProposed
INVARIANTS
    OldStorageRemoved
PROPERTIES
    CarriedOver
    ImportsStayRestricted
    UpdatesKeepNetwork
