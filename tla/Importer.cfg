\* Imports of a live source, with a failure and a second run.
CONSTANTS
    d1 = d1
    d2 = d2
    u1 = u1
    h1 = h1
    h2 = h2
    Devices = {d1}
    Users = {u1}
    Parent <- UserParent
    Hashes = {h1, h2}
    Topics = {t1}
    SourceBindings <- Renewed
    MaxBad = 1
    MaxRuns = 2
    MaxCheckIns = 1
    MaxFaults = 1
SPECIFICATION Spec
CHECK_DEADLOCK FALSE
INVARIANTS
    TypeOK
    EvidenceHonest
    CleanRunsPass
