\* Two invocations under two leases share the pool.
SPECIFICATION Spec
CONSTANTS
    a1 = a1
    fa = fa
    Tenants = {n1}
    Projects = {p1}
    Releases = {a1}
    Keys = {k1, k2}
    Fingerprints = {f1}
    ErrorCodes = {"NONE", "OTHER"}
    LeaseIds = {l1, l2}
    RunIds = {x1, x2}
    LeaseTTL = 1
    Retention = 1
    RunRetention = 0
    MaxTime = 0
    Flavors = {fa}
    FlavorOf <- MCFlavorOf
    Reuse = {fa}
    Workers = {w1, w2}
    NoWorker = NoWorker
    Callers = {c1, c2}
    Reaper = reaper
    MaxCreating = 1
    MaxLive = 2
    MaxLivePerTenant = 2
    MaxInstalled = 1
    Faults = {}
    InvocationIds = {i1, i2}
    RunResults <- MCRunResults
    ReusableCodes = {}
    NoThread = NoThread
    CallFaults = {}
SYMMETRY Symmetry
INVARIANT CancelAuthorised
