---------------------------- MODULE MCApprovals ----------------------------
(***************************************************************************)
(* Instances of Approvals for TLC.                                         *)
(***************************************************************************)
EXTENDS Approvals, TLC

CONSTANTS i1, i2, p1, p2

TwoThenOne == i1 :> 2 @@ i2 :> 1
=============================================================================
