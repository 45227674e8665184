\* Two tenants share max_live; two releases share sandboxes.  Creating, installing, renewing
\* (also because a cancel has taken the sandbox away) and deleting may fail.
SPECIFICATION Spec
CONSTANTS
    b1 = b1
    fa = fa
    fb = fb
    Tenants = {n1, n2}
    Releases = {a1, a2}
    Flavors = {fa}
    FlavorOf <- MCFlavorOf
    Reuse = {fa}
    Workers = {w1, w2}
    NoWorker = NoWorker
    Callers = {c1, c2}
    Reaper = reaper
    MaxCreating = 1
    MaxLive = 2
    MaxLivePerTenant = 2
    MaxInstalled = 2
    Faults = {"create", "install", "renew", "destroy"}
SYMMETRY Symmetry
INVARIANTS TypeOK QuotaExact Exclusive Isolation
PROPERTY LostOnlyByRaise
