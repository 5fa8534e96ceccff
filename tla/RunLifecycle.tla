---------------------------- MODULE RunLifecycle ----------------------------
(***************************************************************************)
(* What the run queue promises about each run, with no word on how: the    *)
(* life of a run as its status and the set of executors that answer for it *)
(* go.  Runs live independently of each other, so a step of the system is  *)
(* a step, or none, of every run.                                          *)
(***************************************************************************)
CONSTANTS Runs, Executors

VARIABLES status, holders

Final == {"success", "error", "timeout", "interrupted"}

Init ==
  /\ status = [r \in Runs |-> "absent"]
  /\ holders = [r \in Runs |-> {}]

Submitted(r) ==
  /\ status[r] = "absent" /\ status'[r] = "pending"
  /\ holders'[r] = holders[r]

\* One executor takes a pending run nobody holds.
Claimed(r) ==
  /\ status[r] = "pending" /\ status'[r] = "running"
  /\ holders[r] = {} /\ \E x \in Executors : holders'[r] = {x}

\* Only the one executor of a running run writes its outcome ...
Ended(r) ==
  /\ \E x \in Executors : holders[r] = {x}
  /\ status[r] = "running" /\ status'[r] \in Final
  /\ holders'[r] = {}

\* ... or puts it back.
Retried(r) ==
  /\ \E x \in Executors : holders[r] = {x}
  /\ status[r] = "running" /\ status'[r] = "pending"
  /\ holders'[r] = {}

\* A run nobody has started can be interrupted.
Withdrawn(r) ==
  /\ status[r] = "pending" /\ status'[r] = "interrupted"
  /\ holders[r] = {} /\ holders'[r] = {}

\* Any run can be deleted at any time, under its executor too.
Deleted(r) ==
  /\ status[r] # "absent" /\ status'[r] = "deleted"
  /\ holders'[r] \subseteq holders[r]

\* An executor gives a run up and tells nobody.
Dropped(r) ==
  /\ status'[r] = status[r]
  /\ holders'[r] = {}

Lives(r) ==
  \/ status'[r] = status[r] /\ holders'[r] = holders[r]
  \/ Submitted(r) \/ Claimed(r) \/ Ended(r) \/ Retried(r)
  \/ Withdrawn(r) \/ Deleted(r) \/ Dropped(r)

Next == \A r \in Runs : Lives(r)

Spec == Init /\ [][Next]_<<status, holders>>
=============================================================================
