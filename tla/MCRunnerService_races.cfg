\* Requests for two releases of one runtime under one invocation id; transport failures, lost
\* answers of the database, cancels, installs and deletions of the reaper that fail, and crashes.
SPECIFICATION Spec
CONSTANTS
    a1 = a1
    fa = fa
    Tenants = {n1}
    Projects = {p1}
    Releases = {a1, a2}
    Keys = {k1}
    Fingerprints = {f1}
    ErrorCodes = {"NONE", "OTHER"}
    LeaseIds = {l1, l2}
    RunIds = {x1, x2}
    LeaseTTL = 1
    Retention = 1
    RunRetention = 0
    MaxTime = 0
    Flavors = {fa}
    FlavorOf <- MCFlavorOf
    Reuse = {fa}
    Workers = {w1, w2}
    NoWorker = NoWorker
    Callers = {c1, c2}
    Reaper = reaper
    MaxCreating = 1
    MaxLive = 2
    MaxLivePerTenant = 2
    MaxInstalled = 2
    Faults = {"reap", "install"}
    InvocationIds = {i1}
    RunResults <- MCRunResults
    ReusableCodes = {}
    NoThread = NoThread
    CallFaults = {"run", "begin", "finish", "abandon"}
SYMMETRY Symmetry
CONSTRAINT LeasesKept
INVARIANTS TypeOK ExecClaimed ExecAtHome IdleQuiet ActiveInFlight
