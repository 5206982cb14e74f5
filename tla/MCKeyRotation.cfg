CONSTANTS
    n1 = n1
    n2 = n2
    k0 = k0
    k1 = k1
    k2 = k2
    Node <- MCNode
    Body <- MCBody
    RegisteredKey = k0
    KeyRotationLeadTime = 2
    MinKeyOverlap = 1
    MinValidators = 4
    MaxBlocks = 2
    MaxIdle = 1
    MaxSubmissions = 2
    MaxRestarts = 1

SPECIFICATION SuiteSpec

INVARIANTS
    HistoryAuthorised
    KeysInForce

PROPERTY
    KeysSettled

CHECK_DEADLOCK FALSE
