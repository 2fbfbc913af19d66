\* Commands, crashes, upgrades, rollbacks and a restore over one database.
CONSTANTS
    Procs = {p1, p2}
    Handlers = {s1, s2}
    Devices = {d1}
    Modes = {"import"}
    None = None
    MaxStarts = 1
    MaxFaults = 1
    MaxKeys = 2
SPECIFICATION Spec
CHECK_DEADLOCK FALSE
INVARIANTS
    TypeOK
    SchemaOnce
    OneAuthority
    ConfigLast
    SerialsUnique
    AuthKept
PROPERTIES
    ServerComesUp
