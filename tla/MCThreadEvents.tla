--------------------------- MODULE MCThreadEvents ---------------------------
(***************************************************************************)
(* Instances of ThreadEvents for TLC.                                      *)
(***************************************************************************)
EXTENDS ThreadEvents

CONSTANTS p1, p2, f1

\* The first run publishes a chunk, then the done marker.
FirstOfFirst == {<<p1, 1>>}
TheFirst == [f \in {f1} |-> p1]
=============================================================================
