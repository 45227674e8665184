\* Two tenants use the same idempotency key; two executions, two request contents, and a lease.
\* run_retention_ms is shorter than idempotency_retention_ms.
SPECIFICATION Spec
CONSTANTS
    Tenants = {t1, t2}
    Projects = {p1}
    Releases = {r1}
    Keys = {k1}
    Fingerprints = {f1, f2}
    ErrorCodes = {e1}
    LeaseIds = {l1}
    RunIds = {x1, x2}
    LeaseTTL = 1
    Retention = 3
    RunRetention = 1
    MaxTime = 5
SYMMETRY Symmetry
INVARIANTS TypeOK ClaimsInStep ReplayBacked
PROPERTIES LeasesNeverReturn TerminalRunsFrozen ReplayWindowKept KeepsPromise
