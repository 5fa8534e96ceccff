----------------------------- MODULE MCRunQueue -----------------------------
(***************************************************************************)
(* Instances of RunQueue for TLC.  Runs and processes are model values;    *)
(* the cfg picks the strategies, faults and cancellers of each run.        *)
(***************************************************************************)
EXTENDS RunQueue, TLC

CONSTANTS r1, r2, t1, t2, w1, w2, s1, s2

OneThread == [r \in Runs |-> t1]
OwnThread == [r \in Runs |-> IF r = r1 THEN t1 ELSE t2]
OneEach == [s \in Slots |-> IF s = s1 THEN w1 ELSE w2]
AllOnOne == [s \in Slots |-> w1]

\* The slots of one process are interchangeable, in safety runs only.
Interchangeable == Permutations(Slots)

=============================================================================
