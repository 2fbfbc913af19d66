\* A link redeemed, revoked and expiring, and overlapping imports, with
\* certificates that expire meanwhile and a failure or crash anywhere.
CONSTANTS
    Owners = {o1}
    Requests = {r1, r2}
    Importers = {i1, i2}
    Certs <- AnyCerts
    AllowOpen = TRUE
    Fraction = 2
    DefaultUses = 1
    DefaultHours = 2
    Hour = 1
    UsesInput <- EnteredUses
    HoursInput = {0}
    MaxTime = 5
    MaxGrants = 1
    MaxServes = 2
    MaxImports = 2
    MaxFaults = 1
    None = None
SYMMETRY Symmetry
SPECIFICATION Spec
CHECK_DEADLOCK FALSE
INVARIANTS
    TypeOK
    NoDoubleSpend
    ProfilesAreAuthorized
    WorkingLinksAreActive
    TopicsArePushable
PROPERTIES
    StatusIsFinal
