---------------------------- MODULE MCDeployment ----------------------------
(***************************************************************************)
(* Bounds for model checking Deployment.  A budget says how many requests  *)
(* of each kind a behaviour makes at most; most are variations of SetUp,   *)
(* one enrolled device, one uploaded profile, one membership, one           *)
(* assignment.                                                             *)
(***************************************************************************)
EXTENDS Deployment, TLC

NoEvents == [k \in EventKinds \cup {"fault"} |-> 0]
SetUp == [NoEvents EXCEPT !["authenticate"] = 1, !["token"] = 1, !["save"] = 1,
                          !["member"] = 1, !["assign"] = 1]

\* A second upload, so that overlapping reconciles see different versions of the
\* profile, while calls fail and the process crashes.
Reupload == [SetUp EXCEPT !["save"] = 2, !["fault"] = 1]

\* A deletion, an upload that reuses the row id and a one-off command; the device
\* need not be enrolled for the reconciles that "add device" starts.
RowidReuse == [NoEvents EXCEPT !["save"] = 2, !["delete"] = 1, !["member"] = 2,
                               !["assign"] = 2, !["withdraw"] = 1,
                               !["group"] = 2, !["manual"] = 1]

\* Enrolling again after leaving, and withdrawn assignments.
Lifecycle == [SetUp EXCEPT !["authenticate"] = 2, !["token"] = 2,
                           !["checkout"] = 1, !["withdraw"] = 1]

\* The device leaves and enrols again, nothing else.
Reenroll == [SetUp EXCEPT !["authenticate"] = 2, !["token"] = 2, !["checkout"] = 1]

MCSetUp     == {SetUp}
MCLifecycle == {Lifecycle}
MCReenroll  == {Reenroll}
MCSafety    == {Reupload, RowidReuse}

Symmetry == Permutations(Workers)
NameSymmetry == Symmetry \cup Permutations(Identifiers)
=============================================================================
