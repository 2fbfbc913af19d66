\* Logins, sessions and commands around lockouts, expiries and a failure.
CONSTANTS
    Users = {u1, u2}
    Requests = {r1, r2}
    Commands = {c1, c2}
    Ttl = 1
    MaxLifetime = 2
    MaxAttempts = 2
    Window = 2
    Lockout = 1
    Fraction = 2
    MaxTime = 5
    MaxInputs = 3
    MaxFaults = 1
    None = None
SYMMETRY Symmetry
SPECIFICATION Spec
CHECK_DEADLOCK FALSE
INVARIANTS
    TypeOK
    LockoutServed
    RenewalsRespectCap
    OnlyLateLoginsOutlive
PROPERTIES
    LockoutsAreFixed
    PurgeSparesLive
    LastAdminFallsOnlyToOverlap
    ImplementsLeases
