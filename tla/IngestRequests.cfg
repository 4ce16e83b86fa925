SPECIFICATION Spec
CONSTANTS
    up1 = up1  api1 = api1  api2 = api2  cli1 = cli1  cli2 = cli2
    shaA = shaA  shaB = shaB  k1 = k1  k2 = k2  k3 = k3
    None = None
    Sha = {shaA, shaB}
    Key = {k1, k2, k3}
    Manifest <- DisjointManifest
    BatchSize = 1
    Uploader = {up1}
    Processor = {api1, api2}
    Cli = {}
    MaxCandidate = 2
    MaxAttempt = 2
    MaxRevision = 2
SYMMETRY Requests
INVARIANTS
    TypeOK
    LeaseMatchesRecord
    NamedBytesExist
    GenerationsArePrivate
PROPERTIES
    OnlyTheHolderStages
    VerdictsAreFinal
    EndedRunHoldsNothing
