\* One reconcile at a time, no faults: a device enrols a second time.
CONSTANTS
    Devices = {d1}
    Groups = {g1}
    Identifiers = {n1}
    Workers = {w1}
    Ticks = {1}
    Budgets <- MCReenroll
    None = None
SPECIFICATION Spec
CHECK_DEADLOCK FALSE
INVARIANTS
    MissingArePushed
