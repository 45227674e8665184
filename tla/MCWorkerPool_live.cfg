\* The answer of a creation may be lost; every deletion succeeds.
SPECIFICATION Spec
CONSTANTS
    b1 = b1
    fa = fa
    fb = fb
    Tenants = {n1}
    Releases = {a1}
    Flavors = {fa}
    FlavorOf <- MCFlavorOf
    Reuse = {fa}
    Workers = {w1, w2, w3}
    NoWorker = NoWorker
    Callers = {c1, c2}
    Reaper = reaper
    MaxCreating = 1
    MaxLive = 2
    MaxLivePerTenant = 2
    MaxInstalled = 1
    Faults = {"create"}
SYMMETRY Symmetry
INVARIANT LiveBounded
