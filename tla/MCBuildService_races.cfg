\* Two requests race; builds and verifications fail; a digest may be taken; processes die.
SPECIFICATION Spec
CONSTANTS
    sa = sa
    sb = sb
    sab = sab
    other = other
    Specs = {sa, sab, other}
    Packages = {"a", "b"}
    PackagesOf <- MCPackagesOf
    PlatformOf <- MCPlatformOf
    Superset = TRUE
    Callers = {c1, c2}
    JobIds = {j1, j2, j3}
    Salts = {x1, x2}
    NoImage = NoImage
    NoSpec = NoSpec
    BuildFaults = {"build", "verify", "verifying", "claim", "failed", "crash"}
SYMMETRY Symmetry
INVARIANTS TypeOK JobsInStep RequestsServed ImagesOwn
PROPERTIES ServesAnswers
