\* Liveness of a build: no crash, the store answers; no symmetry.
SPECIFICATION FairSpec
CONSTANTS
    sa = sa
    sb = sb
    sab = sab
    other = other
    Specs = {sa, sab}
    Packages = {"a", "b"}
    PackagesOf <- MCPackagesOf
    PlatformOf <- MCPlatformOf
    Superset = TRUE
    Callers = {c1, c2}
    JobIds = {j1, j2}
    Salts = {x1}
    NoImage = NoImage
    NoSpec = NoSpec
    BuildFaults = {"build", "verify", "verifying", "ready"}
INVARIANT JobsInStep
PROPERTY BuildsSettle
\* The job ids run out, which stops a retry at its claim.
CHECK_DEADLOCK FALSE
