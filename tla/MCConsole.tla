------------------------------ MODULE MCConsole ------------------------------
EXTENDS Console, TLC

CONSTANTS u1, u2, g1, g2

\* u1 has a local account and an entry of no use; u2 only an entry.
MCLocalRole == u1 :> "admin" @@ u2 :> None
MCDirectory == u1 :> {g2} @@ u2 :> {g1}
MCGroupRoles == g1 :> "operator" @@ g2 :> None

RequestSymmetry == Permutations(Requests) \cup Permutations(Browsers)
=============================================================================
