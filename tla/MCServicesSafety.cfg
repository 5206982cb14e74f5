SPECIFICATION Spec
CONSTANTS
    zero = zero
    h1 = h1
    h2 = h2
    s1 = s1
    s2 = s2
    node = node
    known = known
    other = other
    c0 = c0
    c1 = c1
    c2 = c2
    k1 = k1
    self = self
    p1 = p1
    p2 = p2
    Parts = {"publisher", "subchain", "degraded", "limits", "checks", "window"}
    Configs <- AllConfigs
    WithStorage = TRUE
    CanHang = TRUE
    MaxBlocks = 3
    MaxMade = 4
    Chain = {sc1}
    Entry = {e1, e2}
    Other = {o1}
    Caller = {c1, c2}
    MaxTotalPending = 1
    MinValidators = 2
    GraceCycles = 2
    Counts <- AllCounts
    MaxCalls = 6
    MaxRestarts = 1
SYMMETRY Symmetry
CHECK_DEADLOCK FALSE
INVARIANTS
    FilesMatchChain
    ProofOfCheckpoint
    CheckpointsInLine
    AdmissionExact
    ModeFollowsCalls
PROPERTIES
    PublishedImmutable
