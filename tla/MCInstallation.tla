--------------------------- MODULE MCInstallation ---------------------------
(***************************************************************************)
(* Bounds for model checking Installation: commands and SCEP requests are  *)
(* interchangeable.  Symmetry is left out of runs with liveness.           *)
(***************************************************************************)
EXTENDS Installation

=============================================================================
