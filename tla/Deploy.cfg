\* Either overlapping reconciles around a re-upload, with failed calls, crashes and
\* the retries that follow; or deletion and row-id reuse while goroutines hold the
\* old row, one of them for a one-off install or removal.
CONSTANTS
    Devices = {d1}
    Groups = {g1}
    Identifiers = {n1, n2}
    Workers = {w1, w2}
    Ticks = {1}
    Budgets <- MCSafety
    None = None
SYMMETRY NameSymmetry
SPECIFICATION Spec
CHECK_DEADLOCK FALSE
INVARIANTS
    TypeOK
    ReferentialIntegrity
    DeploysAreInHistory
    DeployRowsHonest
    UpToDateRowsCarryContent
    HistoryHonest
PROPERTIES
    ResultsAreFinal
