SPECIFICATION Spec
CONSTANTS
    n1 = n1
    n2 = n2
    n3 = n3
    e1 = e1
    e2 = e2
    e3 = e3
    Node = {n1, n2}
    Host = {n1, n2}
    Peers <- SameOrder
    MinValidators = 2
    StatusSteps = 20
    MaxBlocks = 1
    Lossy = {"entries", "proposals", "sigs", "vrfproofs"}
    MaxLost = 0
    MaxRestarts = 0
    Entry = {e1, e2}
    MaxStream = 2
    Parts = {"libp2p", "faulty"}
CHECK_DEADLOCK FALSE
PROPERTIES
    EntriesSurviveFault
    SlotsSettled
