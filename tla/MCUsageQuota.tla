---------------------------- MODULE MCUsageQuota ----------------------------
(***************************************************************************)
(* Instances of UsageQuota for TLC.                                        *)
(***************************************************************************)
EXTENDS UsageQuota, TLC

CONSTANTS q1, q2, q3, q4, alice

OneOwner == [q \in Requests |-> alice]

NoLimits == {}
DayAndWeek == {[window |-> 1, limit |-> 1], [window |-> 3, limit |-> 2]}
OneADay == {[window |-> 2, limit |-> 1]}

\* Requests of one owner take the same steps.
Interchangeable == Permutations(Requests)
=============================================================================
