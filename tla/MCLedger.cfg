SPECIFICATION Spec
CONSTANTS
    Parts = {"registry", "crashing", "stopping", "tree", "light", "degraded", "mandates", "vrf"}
    Entry = {e1, e2}
    MaxBlocks = 2
    MaxAborts = 1
    MaxCrashes = 2
    MaxStops = 0
    MaxFails = 0
    v1 = v1
    v2 = v2
    v3 = v3
    v4 = v4
    k0 = k0
    k1 = k1
    k2 = k2
    m1 = m1
    m2 = m2
    auth = auth
    Node = {n1, n2}
    Policy = {m1, m2}
    Terms <- TwoVersions
    Body <- MandateBodies
    Claim <- Claims
    Time = {1, 2, 3, 4}
    NoPolicy = NoPolicy
    MaxTotalPending = 2
    MaxAnchored = 1
    MaxRestarts = 1
    L = 5
    Alpha = {a1, a2}
    Id = {i1, i2}
    Key = {r1, r2}
    BadKey = bad
    Reader = {c1, c2}
    WithDB = TRUE
    Absent = absent
    Garbage = garbage
    MaxRegisters = 2
SYMMETRY Symmetry
CHECK_DEADLOCK FALSE
INVARIANTS
    RegistryKeeps
    LoadedConsistent
    TreeExact
    AcceptedExactly
    MandatesKept
    VRFSound
