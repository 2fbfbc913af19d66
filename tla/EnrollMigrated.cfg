\* A server migrated from NanoMDM.
CONSTANTS
    Owners = {o1}
    Requests = {r1}
    Importers = {i1}
    Certs <- OneCert
    AllowOpen = FALSE
    Fraction = 1
    DefaultUses = 1
    DefaultHours = 2
    Hour = 1
    UsesInput = {1}
    HoursInput = {1}
    MaxTime = 0
    MaxGrants = 0
    MaxServes = 0
    MaxImports = 1
    MaxFaults = 0
    None = None
SYMMETRY Symmetry
SPECIFICATION Spec
CHECK_DEADLOCK FALSE
INVARIANTS
    LoadedMeansReady
