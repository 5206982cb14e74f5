SPECIFICATION FairServices
CONSTANTS
    zero = zero
    h1 = h1
    h2 = h2
    s1 = s1
    s2 = s2
    node = node
    known = known
    other = other
    c0 = c0
    c1 = c1
    c2 = c2
    k1 = k1
    self = self
    p1 = p1
    p2 = p2
    Parts = {"publisher", "queue", "answers", "start", "stop", "streams", "compliance"}
    Configs <- AllConfigs
    WithStorage = TRUE
    CanHang = FALSE
    MaxBlocks = 2
    MaxMade = 3
    Chain = {sc1}
    Entry = {e1, e2}
    Other = {}
    Caller = {c1, c2}
    MaxTotalPending = 1
    MinValidators = 2
    GraceCycles = 2
    Counts <- AllCounts
    MaxCalls = 6
    MaxRestarts = 0
CHECK_DEADLOCK FALSE
PROPERTIES
    PublisherServes
    CallsAnswered
    DaemonRuns
    StreamsWhole
    ReportExact
