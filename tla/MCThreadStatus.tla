--------------------------- MODULE MCThreadStatus ---------------------------
(***************************************************************************)
(* Instances of ThreadStatus for TLC.                                      *)
(***************************************************************************)
EXTENDS ThreadStatus, TLC

CONSTANTS r1, r2, r3

\* Runs take the same steps whatever their ids.
Interchangeable == Permutations(Runs)
=============================================================================
