--------------------------- MODULE MCEventSession ---------------------------
(***************************************************************************)
(* Instances of EventSession for TLC.                                      *)
(***************************************************************************)
EXTENDS EventSession, TLC

CONSTANTS s1, s2

\* The second subscription wants the run's life cycle as well.
TwoFilters == s1 :> {"values", "lifecycle", "input"} @@ s2 :> {"lifecycle"}
=============================================================================
