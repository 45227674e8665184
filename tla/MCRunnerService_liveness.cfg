\* Liveness of invoke and of the maintenance loop: two claims of one key compete for a quota of
\* one sandbox, creations and installs fail, a creation may leave its sandbox behind, results
\* expire.  Leases stay (db_tables lets them go); no symmetry.
SPECIFICATION FairSpec
CONSTANTS
    a1 = a1
    fa = fa
    Tenants = {n1}
    Projects = {p1}
    Releases = {a1}
    Keys = {k1}
    Fingerprints = {f1}
    ErrorCodes = {"NONE", "OTHER"}
    LeaseIds = {l1}
    RunIds = {x1, x2}
    LeaseTTL = 2
    Retention = 1
    RunRetention = 1
    MaxTime = 1
    Flavors = {fa}
    FlavorOf <- MCFlavorOf
    Reuse = {fa}
    Workers = {w1}
    NoWorker = NoWorker
    Callers = {c1, c2}
    Reaper = reaper
    MaxCreating = 1
    MaxLive = 1
    MaxLivePerTenant = 1
    MaxInstalled = 1
    Faults = {"create", "install"}
    InvocationIds = {i1}
    RunResults <- MCRunResults
    ReusableCodes = {}
    NoThread = NoThread
    CallFaults = {"run"}
PROPERTIES KeySettles ExpiredGoes
CONSTRAINT LeasesKept
