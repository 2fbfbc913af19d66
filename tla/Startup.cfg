CONSTANTS
    Files <- MCFiles
    Env = {"listen"}
    None = None
SPECIFICATION Spec
INVARIANTS
    TypeOK
    NothingMissing
PROPERTIES
    InitLeadsToServing
