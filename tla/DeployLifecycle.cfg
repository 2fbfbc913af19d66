\* Liveness of the event-driven triggers under enrollment and assignment
\* changes.
CONSTANTS
    Devices = {d1}
    Groups = {g1}
    Identifiers = {n1}
    Workers = {w1, w2}
    Ticks = {1}
    Budgets <- MCLifecycle
    None = None
SPECIFICATION FairSpec
CHECK_DEADLOCK FALSE
PROPERTIES
    AssignmentsAreAttempted
