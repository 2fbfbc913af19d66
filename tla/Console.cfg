SPECIFICATION Spec
CONSTANTS
    u1 = u1
    u2 = u2
    g1 = g1
    g2 = g2
    Requests = {r1, r2, r3}
    Browsers = {b1, b2}
    Users = {u1, u2}
    Groups = {g1, g2}
    LocalRole <- MCLocalRole
    Directory <- MCDirectory
    GroupRoles <- MCGroupRoles
    DefaultRole = "user"
    MinRoles = {"operator"}
    NumServers = 2
    None = None
SYMMETRY RequestSymmetry
INVARIANTS
    TypeOK
    NoImplicitPrivilege
    BreakGlass
    FlowsBound
    VouchedRowsNameTheActor
CHECK_DEADLOCK FALSE
