\* One reconcile, no faults: the result arrives before the mark.
CONSTANTS
    Devices = {d1}
    Groups = {g1}
    Identifiers = {n1}
    Workers = {w1}
    Ticks = {1}
    Budgets <- MCSetUp
    None = None
SPECIFICATION Spec
CHECK_DEADLOCK FALSE
INVARIANTS
    PendingMeansUnanswered
