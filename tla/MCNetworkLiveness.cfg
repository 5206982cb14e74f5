SPECIFICATION FairSpec
CONSTANTS
    n1 = n1
    n2 = n2
    n3 = n3
    e1 = e1
    e2 = e2
    e3 = e3
    Node = {n1, n2}
    Host = {n1, n2}
    Peers <- SameOrder
    MinValidators = 2
    StatusSteps = 20
    MaxBlocks = 1
    Lossy = {"entries", "proposals", "sigs", "vrfproofs"}
    MaxLost = 0
    MaxRestarts = 0
    Entry = {e3}
    MaxStream = 1
    Parts = {"libp2p", "mesh", "handshake", "frames", "pace"}
CHECK_DEADLOCK FALSE
PROPERTIES
    EventuallyFinalised
    EventuallyMeshed
    ConnectionsWork
    PacingRecovers
