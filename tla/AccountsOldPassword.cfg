\* A login under way while the password is changed.
CONSTANTS
    Users = {u1}
    Requests = {r1}
    Commands = {c1}
    Ttl = 1
    MaxLifetime = 2
    MaxAttempts = 1
    Window = 1
    Lockout = 2
    Fraction = 1
    MaxTime = 0
    MaxInputs = 3
    MaxFaults = 0
    None = None
SYMMETRY Symmetry
SPECIFICATION Spec
CHECK_DEADLOCK FALSE
INVARIANTS
    NoSessionOutlivesCredential
