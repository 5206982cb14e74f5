SPECIFICATION MCSpec
CONSTANTS
    Settings = {"enough", "few"}
    Leaders <- AllLeaders
    n1 = n1
    n2 = n2
    n3 = n3
    e1 = e1
    e2 = e2
    Node = {n1, n2, n3}
    Entry = {e1, e2}
    Gossiped = {e1, e2}
    Peers <- CommonOrder
    MinValidators = 3
    StatusSteps = 20
    MaxBlocks = 2
    MaxTimeouts = 1
SYMMETRY GossipedSymmetry
CHECK_DEADLOCK FALSE
INVARIANTS
    TypeOK
    Agreement
    ChainLinked
    Certified
    AnchoredOnce
    NoEnqueuedEntryLost
    StableAlpha
    Followable
PROPERTIES
    ImplementsBatchLog
