SPECIFICATION Spec
CONSTANTS
    first = first
    second = second
    Transfers <- MCTransfers
    WAITING = 3
    Latency = 2
    Null = Null
INVARIANTS
    SuccessIsConfirmed
    GivesUpOnLate
PROPERTIES
    Ends
CHECK_DEADLOCK FALSE
