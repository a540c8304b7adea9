SPECIFICATION Spec
CONSTANTS
    a = a
    p = p
    q = q
    b = b
    c = c
    score = score
    Null = Null
    Self = governance
    Id = {p, q}
    Prep = {a, b, c}
    Contents <- MCAllEffects
    MainPrepLists <- MCEqual
    TermEnds = {0}
    InitialNetwork <- MCNetwork
    MaxHeight = 0
INVARIANTS
    TypeOK
    EffectsFollowApprovals
    NetworkStaysValid
    StepPriceCompounds
SYMMETRY IdSymmetry
