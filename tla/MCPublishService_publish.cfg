\* Two request threads create, compile and publish one operator while its owner edits.
SPECIFICATION FairSpec
CONSTANTS
    sa = sa
    sab = sab
    Specs = {sa, sab}
    Packages = {"a", "b"}
    PackagesOf <- MCPackagesOf
    SpecOf <- MCSpecOf
    Salts = {x1}
    NoImage = NoImage
    FileOrder <- MCFileOrder
    MaxEdits = 1
    Bits = {z1, z2}
    NoDir = NoDir
    NoFile = NoFile
    Operators = {o1}
    Selected <- MCSelected
    Saved <- MCSaved
    Backends = {"runner", "nifi_native"}
    Callers = {c1, c2}
    MaxCalls = 3
    MaxJobs = 2
    PublishFaults = {"snapshot", "disk", "running", "ready", "failed", "crash"}
INVARIANTS TypeOK ContractsSourced CatalogWhole PublishedStands
PROPERTIES JobsSettle
