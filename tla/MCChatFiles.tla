---------------------------- MODULE MCChatFiles ----------------------------
(***************************************************************************)
(* Instances of ChatFiles for TLC.                                         *)
(***************************************************************************)
EXTENDS ChatFiles, TLC

CONSTANTS f1, f2

Interchangeable == Permutations(Files)
=============================================================================
