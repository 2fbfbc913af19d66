---------------------------- MODULE MCEnrollment ----------------------------
(***************************************************************************)
(* Bounds for model checking Enrollment: the certificates, and symmetric     *)
(* handlers, commands and owners.                                          *)
(***************************************************************************)
EXTENDS Enrollment, TLC

\* Two fleets.  Old is the first fleet's certificate; Expiring, the second one's,
\* ends while a run goes on; Broken has another certificate's key.
Old      == [topic |-> "first",  from |-> 0, until |-> 5, usable |-> TRUE]
Expiring == [topic |-> "second", from |-> 0, until |-> 1, usable |-> TRUE]
Broken   == [topic |-> "second", from |-> 0, until |-> 9, usable |-> FALSE]

OneCert  == {Old}
AnyCerts == {Old, Expiring, Broken}

\* A number the form does not offer: the default is taken.
EnteredUses == {-1}

Symmetry == Permutations(Requests) \cup Permutations(Importers)
            \cup Permutations(Owners)
=============================================================================
