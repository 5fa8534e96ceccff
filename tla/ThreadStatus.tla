---------------------------- MODULE ThreadStatus ----------------------------
(***************************************************************************)
(* The status column of one thread, beside the runs of the thread.         *)
(*                                                                         *)
(* Postgres runs at READ COMMITTED: a statement decides on the rows that   *)
(* were committed when it began and writes when the row locks are free, so *)
(* every statement here that reads the thread or its runs has a step for   *)
(* its snapshot and one for its commit.  Three writers meet on the thread: *)
(* Runs.Create makes it busy, Threads.SetJointStatus ends a run and then   *)
(* derives the status, and Threads.SetStatus derives it after the API has  *)
(* written a state into the thread: after Threads.State.post only if the   *)
(* thread is not busy, after Threads.State.bulk whatever it is.            *)
(***************************************************************************)
EXTENDS FiniteSets

CONSTANTS
  Runs,      \* run ids, each created once on this thread
  Updaters,  \* concurrent state updates of the API
  Overlap,   \* which kinds of statements overlap: sets of two kinds, or of one
  Calls      \* which calls besides creation are made

\* Statements that decide on a snapshot.
Kinds == {"create", "joint", "update", "bulk"}

ASSUME ConstantsAssumption ==
  /\ Overlap \subseteq SUBSET Kinds
  /\ Calls \subseteq {"cancel", "delete run", "update", "bulk"}

VARIABLES
  status,  \* the thread's status column
  run,     \* each run: "absent", "pending", "running" or "ended" (or deleted)
  worker,  \* runs a worker executes, whatever became of their rows
  create,  \* the status a Runs.Create in flight read, or "none"
  joint,   \* per run, the SetJointStatus transaction in flight
  update,  \* per updater, the state update in flight
  stale    \* history: a run was ended from outside since a worker last looked

vars == <<status, run, worker, create, joint, update, stale>>

ThreadStates == {"idle", "busy", "interrupted", "error"}
Bases == ThreadStates \ {"busy"}
Active == {"pending", "running"}

NoJoint == [step |-> "none", active |-> FALSE]
NoUpdate == [step |-> "none", seen |-> "none", active |-> FALSE, bulk |-> FALSE]

\* What a statement that starts now sees of the thread's runs.
ActiveRuns == {r \in Runs : run[r] \in Active}

TypeOK ==
  /\ status \in ThreadStates
  /\ run \in [Runs -> {"absent", "ended"} \cup Active]
  /\ worker \subseteq Runs
  /\ create \in [Runs -> ThreadStates \cup {"none"}]
  /\ joint \in [Runs -> [step : {"none", "derive"}, active : BOOLEAN]]
  /\ update \in [Updaters -> [step : {"none", "checked", "written", "derive"},
                              seen : ThreadStates \cup {"none"},
                              active : BOOLEAN, bulk : BOOLEAN]]
  /\ stale \in BOOLEAN

\* Threads.Create.
Init ==
  /\ status = "idle"
  /\ run = [r \in Runs |-> "absent"]
  /\ worker = {}
  /\ create = [r \in Runs |-> "none"]
  /\ joint = [r \in Runs |-> NoJoint]
  /\ update = [u \in Updaters |-> NoUpdate]
  /\ stale = FALSE

UpdateKind(u) == IF update[u].bulk THEN "bulk" ELSE "update"

\* The kinds of statements that are between their snapshot and their commit.
InFlight ==
  (IF \E r \in Runs : create[r] # "none" THEN {"create"} ELSE {})
    \cup (IF \E r \in Runs : joint[r] # NoJoint THEN {"joint"} ELSE {})
    \cup {UpdateKind(u) : u \in {v \in Updaters : update[v].step = "derive"}}

MayBegin(kind) == \A other \in InFlight : {kind, other} \in Overlap

-----------------------------------------------------------------------------
(* Runs.Create *)

CreateReads(r) ==
  /\ MayBegin("create")
  /\ run[r] = "absent" /\ create[r] = "none"
  /\ create' = [create EXCEPT ![r] = status]
  /\ UNCHANGED <<status, run, worker, joint, update, stale>>

\* UPDATE thread SET status = 'busy' ... WHERE thread.status != 'busy': a thread
\* that was busy in the snapshot is not visited at all.
CreateCommits(r) ==
  /\ create[r] # "none"
  /\ create' = [create EXCEPT ![r] = "none"]
  /\ run' = [run EXCEPT ![r] = "pending"]
  /\ status' = IF create[r] = "busy" THEN status ELSE "busy"
  /\ UNCHANGED <<worker, joint, update, stale>>

-----------------------------------------------------------------------------
(* The worker *)

Claim(r) ==
  /\ run[r] = "pending"
  /\ run' = [run EXCEPT ![r] = "running"]
  /\ worker' = worker \cup {r}
  /\ UNCHANGED <<status, create, joint, update, stale>>

\* Mutant of Repend: a retry that writes the run's status to the thread as well.
RependJoint(r) ==
  /\ r \in worker /\ joint[r] = NoJoint
  /\ run' = [run EXCEPT ![r] = IF @ = "running" THEN "pending" ELSE @]
  /\ status' = "pending"
  /\ worker' = worker \ {r}
  /\ UNCHANGED <<create, joint, update, stale>>

\* A retriable failure: Runs.SetStatus(pending) leaves the thread alone.
Repend(r) ==
  /\ r \in worker /\ joint[r] = NoJoint
  /\ run' = [run EXCEPT ![r] = IF @ = "running" THEN "pending" ELSE @]
  /\ worker' = worker \ {r}
  /\ UNCHANGED <<status, create, joint, update, stale>>

\* Mutant of JointDerives: the run that ends counts as active.
JointDerivesItself(r) ==
  /\ MayBegin("joint")
  /\ r \in worker /\ joint[r] = NoJoint
  /\ joint' = [joint EXCEPT ![r] = [step |-> "derive", active |-> ActiveRuns # {}]]
  /\ stale' = FALSE
  /\ UNCHANGED <<status, run, worker, create, update>>

\* SetJointStatus: its first statement has written the run, seen by itself alone
\* until the commit; its second has looked for other active runs.
JointDerives(r) ==
  /\ MayBegin("joint")
  /\ r \in worker /\ joint[r] = NoJoint
  /\ joint' = [joint EXCEPT ![r] =
       [step |-> "derive", active |-> ActiveRuns \ {r} # {}]]
  /\ stale' = FALSE
  /\ UNCHANGED <<status, run, worker, create, update>>

\* Without active runs the thread is idle, or what the checkpoint or the
\* exception says.
JointCommits(r, base) ==
  /\ joint[r].step = "derive"
  /\ run' = [run EXCEPT ![r] = "ended"]
  /\ status' = IF joint[r].active THEN "busy" ELSE base
  /\ joint' = [joint EXCEPT ![r] = NoJoint]
  /\ worker' = worker \ {r}
  /\ UNCHANGED <<create, update, stale>>

-----------------------------------------------------------------------------
(* Calls that end runs from outside: the thread is left alone *)

\* Runs.Cancel interrupts or deletes a pending run.
CancelPending(r) ==
  /\ "cancel" \in Calls
  /\ run[r] = "pending"
  /\ run' = [run EXCEPT ![r] = "ended"]
  /\ stale' = TRUE
  /\ UNCHANGED <<status, worker, create, joint, update>>

\* Waits for a SetJointStatus that holds the row.
DeleteRun(r) ==
  /\ "delete run" \in Calls
  /\ run[r] \in Active /\ joint[r] = NoJoint
  /\ run' = [run EXCEPT ![r] = "ended"]
  /\ stale' = TRUE
  /\ UNCHANGED <<status, worker, create, joint, update>>

-----------------------------------------------------------------------------
(* Threads.State.post and bulk: write the state, set the status *)

\* post: 409 if a run of the thread is pending or running.
UpdateChecks(u) ==
  /\ "update" \in Calls
  /\ update[u] = NoUpdate
  /\ ActiveRuns = {}
  /\ update' = [update EXCEPT ![u].step = "checked"]
  /\ UNCHANGED <<status, run, worker, create, joint, stale>>

\* bulk (POST /threads with supersteps, if_exists = do_nothing) does not look for runs.
BulkBegins(u) ==
  /\ "bulk" \in Calls
  /\ update[u] = NoUpdate
  /\ update' = [update EXCEPT ![u] = [NoUpdate EXCEPT !.step = "checked", !.bulk = TRUE]]
  /\ UNCHANGED <<status, run, worker, create, joint, stale>>

\* graph.aupdate_state, abulk_update_state: checkpoints are added to the thread.
UpdateWrites(u) ==
  /\ update[u].step = "checked"
  /\ update' = [update EXCEPT ![u].step = "written"]
  /\ UNCHANGED <<status, run, worker, create, joint, stale>>

\* SetStatus looks at the thread and at its runs ...
UpdateDerives(u) ==
  /\ MayBegin(UpdateKind(u))
  /\ update[u].step = "written"
  /\ update' = [update EXCEPT ![u] =
       [step |-> "derive", seen |-> status, active |-> ActiveRuns # {}, bulk |-> @.bulk]]
  /\ UNCHANGED <<status, run, worker, create, joint, stale>>

\* Mutant of UpdateCommits: the condition is not looked at again.
UpdateCommitsOnSnapshot(u, base) ==
  /\ update[u].step = "derive"
  /\ status' = IF update[u].bulk \/ update[u].seen \in Bases
               THEN IF update[u].active THEN "busy" ELSE base
               ELSE status
  /\ update' = [update EXCEPT ![u] = NoUpdate]
  /\ UNCHANGED <<run, worker, create, joint, stale>>

\* ... and writes: for bulk, which gives no expected_status, in any case, for post if
\* the thread was not busy in its snapshot and still is not once the row is locked,
\* where the condition is looked at again and the runs are not.
UpdateCommits(u, base) ==
  /\ update[u].step = "derive"
  /\ status' = IF update[u].bulk \/ (update[u].seen \in Bases /\ status \in Bases)
               THEN IF update[u].active THEN "busy" ELSE base
               ELSE status
  /\ update' = [update EXCEPT ![u] = NoUpdate]
  /\ UNCHANGED <<run, worker, create, joint, stale>>

-----------------------------------------------------------------------------
Next ==
  \/ \E r \in Runs :
       \/ CreateReads(r) \/ CreateCommits(r)
       \/ Claim(r) \/ Repend(r) \/ JointDerives(r)
       \/ \E base \in Bases : JointCommits(r, base)
       \/ CancelPending(r) \/ DeleteRun(r)
  \/ \E u \in Updaters :
       \/ UpdateChecks(u) \/ BulkBegins(u) \/ UpdateWrites(u) \/ UpdateDerives(u)
       \/ \E base \in Bases : UpdateCommits(u, base)

Spec == Init /\ [][Next]_vars

-----------------------------------------------------------------------------
(* Properties *)

\* A thread with a pending or running run is busy, and stays busy through retries,
\* deletions of other runs, overlapping settlings and the state updates that race with
\* them (Runs.Create, SetJointStatus, SetStatus).  False where a creation overlaps with
\* a settling (the creation skips a thread it saw busy) or with a bulk update (which
\* writes what it derived before).
ActiveIsBusy == ActiveRuns # {} => status = "busy"

\* Between the statements of SetJointStatus the two columns agree: a busy thread has
\* an active run, or one was cancelled or deleted since a worker last derived the
\* status (those calls leave the thread alone, and it stays busy).  False where a
\* settling overlaps with another one or with a bulk update.
StatusAgrees ==
  "joint" \notin InFlight => (status = "busy" => ActiveRuns # {} \/ stale)
=============================================================================
