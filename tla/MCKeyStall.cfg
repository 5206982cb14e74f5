CONSTANTS
    n1 = n1
    n2 = n2
    k0 = k0
    k1 = k1
    k2 = k2
    Node <- MCNode
    Body <- MCShortBody
    RegisteredKey = k0
    KeyRotationLeadTime = 1
    MinKeyOverlap = 0
    MinValidators = 4
    MaxBlocks = 3
    MaxIdle = 1
    MaxSubmissions = 1
    MaxRestarts = 0

SPECIFICATION StallSpec

PROPERTY
    NetworkKeepsGoing

CHECK_DEADLOCK FALSE
