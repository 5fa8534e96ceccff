------------------------------ MODULE RunQueue ------------------------------
(***************************************************************************)
(* The background run queue of the agent server.                           *)
(*                                                                         *)
(* A run is a row of the Postgres table "run"; its status column is the    *)
(* queue.  The API (create_valid_run -> Runs.Create) inserts pending rows  *)
(* and rings a doorbell in Redis; each worker process (queue()) claims due *)
(* rows for its free slots with Runs.Next, runs the agent graph in a       *)
(* worker() task per row, and writes the outcome back.  Cancellation       *)
(* travels through Redis: a key with a time to live and a pub/sub message, *)
(* both read by the Enter stream each worker opens.                        *)
(*                                                                         *)
(* One SQL statement or transaction, one Redis command and one step of a   *)
(* task between two awaits are one action.  The statements that update run *)
(* rows lock them and are atomic here; the insert, which decides on a      *)
(* snapshot, has a step for the snapshot and one for the commit.  The      *)
(* status column of the thread is the subject of ThreadStatus.             *)
(*                                                                         *)
(* A definition called a mutant is the definition after it with a bug put  *)
(* in, kept to show that a property would notice.                          *)
(***************************************************************************)
EXTENDS Integers, FiniteSets

CONSTANTS
  Runs,        \* run ids the API hands out, each used once (uuid)
  Threads,     \* thread ids
  ThreadOf,    \* the thread each run is created on
  Temporary,   \* runs whose thread is deleted when they end
  Strategies,  \* multitask strategies the callers ask for
  Procs,       \* worker processes, each running one queue() loop
  Slots,       \* runner slots, N_JOBS_PER_WORKER per process
  ProcOf,      \* the process of each slot
  MaxRetries,  \* BG_JOB_MAX_RETRIES
  Cancellers,  \* concurrent calls of Runs.Cancel (bound)
  MaxWakeups,  \* length of the doorbell list that is modelled (bound)
  Calls,       \* which of the calls besides creation the callers make
  Faults,      \* which faults happen, and which Redis keys expire
  NoRun        \* marks a slot without a job

FaultKinds == {"redis", "bell", "rpc", "abort", "crash", "drain",
               "control expiry", "attempt expiry"}
CallKinds == {"delete run", "delete thread", "cancel", "cancel by status", "delay"}
Signals == {"interrupt", "rollback"}

ASSUME ConstantsAssumption ==
  /\ ThreadOf \in [Runs -> Threads]
  /\ Temporary \subseteq Runs
  /\ Strategies \subseteq {"enqueue", "reject"} \cup Signals
  /\ IsFiniteSet(Slots)
  /\ ProcOf \in [Slots -> Procs]
  /\ MaxRetries \in Nat
  /\ MaxWakeups \in Nat
  /\ Calls \subseteq CallKinds
  /\ Faults \subseteq FaultKinds
  /\ NoRun \notin Runs

VARIABLES
  row,      \* status column of each run, or "absent" / "deleted"
  due,      \* runs whose created_at has passed
  threads,  \* threads that have a row
  create,   \* the insert statement in flight for each run id, or NoCreate
  attempt,  \* Redis run:attempt counter, saturating at MaxRetries + 1
  control,  \* Redis run control key: a signal or "none"
  wakeups,  \* length of the Redis list the doorbell is
  proc,     \* "up", "draining" (SIGTERM received) or "down"
  asked,    \* limit of the parked Runs.Next call of a process, 0 if none
  pc,       \* where the task in each slot is
  job,      \* the run each slot holds
  tried,    \* the attempt number the slot was given with its run
  outcome,  \* how the graph ended, as worker() classifies it
  enter,    \* state of the Enter stream of the slot
  inbox,    \* first control message buffered in that stream
  signal,   \* value of the ValueEvent "done" handed to the graph
  cancel    \* one record per canceller: step, action, runs left to signal

rowVars == <<row, due, threads, create>>
redisVars == <<attempt, control, wakeups>>
slotVars == <<pc, job, tried, outcome>>
enterVars == <<enter, inbox, signal>>
procVars == <<proc, asked>>
vars == <<rowVars, redisVars, slotVars, enterVars, procVars, cancel>>

-----------------------------------------------------------------------------
(* Types and derived state *)

Final == {"success", "error", "timeout", "interrupted"}
Active == {"pending", "running"}
RowStates == {"absent", "deleted"} \cup Active \cup Final
Outcomes == {"success", "error", "timeout", "interrupted", "rollback",
             "retry", "cancelled"}
Stages == {"idle", "claimed", "executing", "settling", "marking", "leaving"}

CancelRecords ==
  [step : {"idle", "set", "publish", "write"},
   action : Signals, targets : SUBSET Runs, todo : SUBSET Runs,
   at : Runs \cup {NoRun}]

CreateRecords ==
  [strategy : Strategies \cup {"none"}, inflight : SUBSET Runs, fresh : BOOLEAN]

NoCreate == [strategy |-> "none", inflight |-> {}, fresh |-> FALSE]

NoCancel == [step |-> "idle", action |-> "interrupt", targets |-> {},
             todo |-> {}, at |-> NoRun]

\* A slot answers for its run from the claim until the outcome is committed.
Owns(s) == pc[s] \in {"claimed", "executing", "settling"}

\* ... and is busy with it until the done event is out.
Busy(s) == Owns(s) \/ pc[s] = "marking"

SlotsOf(p) == {s \in Slots : ProcOf[s] = p}
FreeSlots(p) == {s \in SlotsOf(p) : pc[s] = "idle"}
RunsOf(t) == {r \in Runs : ThreadOf[r] = t}
Inflight(t) == {r \in RunsOf(t) : row[r] = "pending"}

\* Mutant of Claimable: the claim forgets to look at the status.
ClaimableActive == {r \in Runs : row[r] \in Active /\ r \in due}
Claimable == {r \in Runs : row[r] = "pending" /\ r \in due}

Smaller(m, n) == IF m < n THEN m ELSE n

TypeOK ==
  /\ row \in [Runs -> RowStates]
  /\ due \subseteq Runs
  /\ threads \subseteq Threads
  /\ create \in [Runs -> CreateRecords]
  /\ attempt \in [Runs -> 0 .. MaxRetries + 1]
  /\ control \in [Runs -> Signals \cup {"none"}]
  /\ wakeups \in 0 .. MaxWakeups
  /\ proc \in [Procs -> {"up", "draining", "down"}]
  /\ asked \in [Procs -> Nat]
  /\ pc \in [Slots -> Stages]
  /\ job \in [Slots -> Runs \cup {NoRun}]
  /\ tried \in [Slots -> 0 .. MaxRetries + 1]
  /\ outcome \in [Slots -> Outcomes \cup {"none"}]
  /\ enter \in [Slots -> {"off", "opening", "subscribed", "listening", "closed"}]
  /\ inbox \in [Slots -> Signals \cup {"none"}]
  /\ signal \in [Slots -> Signals \cup {"none", "lost"}]
  /\ cancel \in [Cancellers -> CancelRecords]

Init ==
  /\ row = [r \in Runs |-> "absent"]
  /\ due = {}
  /\ threads = {}
  /\ create = [r \in Runs |-> NoCreate]
  /\ attempt = [r \in Runs |-> 0]
  /\ control = [r \in Runs |-> "none"]
  /\ wakeups = 0
  /\ proc = [p \in Procs |-> "up"]
  /\ asked = [p \in Procs |-> 0]
  /\ pc = [s \in Slots |-> "idle"]
  /\ job = [s \in Slots |-> NoRun]
  /\ tried = [s \in Slots |-> 0]
  /\ outcome = [s \in Slots |-> "none"]
  /\ enter = [s \in Slots |-> "off"]
  /\ inbox = [s \in Slots |-> "none"]
  /\ signal = [s \in Slots |-> "none"]
  /\ cancel = [c \in Cancellers |-> NoCancel]

-----------------------------------------------------------------------------
(* Creating and deleting runs *)

CreateThread(t) ==
  /\ t \notin threads
  /\ threads' = threads \cup {t}
  /\ UNCHANGED <<row, due, create, redisVars, slotVars, enterVars, procVars, cancel>>

\* The strategies "interrupt" and "rollback" go on to cancel the pending runs
\* the insert statement returned.
CancelInflight(strategy, inflight) ==
  IF strategy \in Signals /\ inflight # {}
  THEN \E c \in Cancellers :
         /\ cancel[c].step = "idle"
         /\ cancel' = [cancel EXCEPT ![c] =
              [step |-> "set", action |-> strategy, targets |-> inflight,
               todo |-> inflight, at |-> NoRun]]
  ELSE UNCHANGED cancel

\* create_valid_run is one INSERT statement: it reads the thread and its
\* pending runs in the snapshot it starts with, and what it inserts is seen
\* when it commits.  "reject" gives up on a pending run of the thread (409).
CreateReads(r, strategy) ==
  LET t == ThreadOf[r] IN
  /\ row[r] = "absent" /\ create[r] = NoCreate
  /\ r \in Temporary => t \notin threads      \* stateless runs: a new thread id
  /\ strategy = "reject" => Inflight(t) = {}
  /\ create' = [create EXCEPT ![r] =
       [strategy |-> strategy, inflight |-> Inflight(t), fresh |-> t \notin threads]]
  /\ UNCHANGED <<row, due, threads, redisVars, slotVars, enterVars, procVars, cancel>>

\* "bell" is the failure of the doorbell's commands alone.
BellFails == Faults \cap {"redis", "bell"} # {}

\* The commit, then the doorbell, whose failure is swallowed.
CreateCommits(r) ==
  LET t == ThreadOf[r] IN
  /\ create[r] # NoCreate
  /\ create[r].fresh => t \notin threads
  /\ create' = [create EXCEPT ![r] = NoCreate]
  /\ row' = [row EXCEPT ![r] = "pending"]
  /\ threads' = IF create[r].fresh THEN threads \cup {t} ELSE threads
  /\ \/ due' = due \cup {r}
     \/ "delay" \in Calls /\ UNCHANGED due    \* after_seconds > 0
  /\ \/ wakeups' = Smaller(wakeups + 1, MaxWakeups)
     \/ BellFails /\ UNCHANGED wakeups
  /\ CancelInflight(create[r].strategy, create[r].inflight)
  /\ UNCHANGED <<attempt, control, slotVars, enterVars, procVars>>

\* The thread was inserted by somebody else meanwhile: no row comes back (404).
CreateConflicts(r) ==
  /\ create[r].fresh /\ ThreadOf[r] \in threads
  /\ create' = [create EXCEPT ![r] = NoCreate]
  /\ UNCHANGED <<row, due, threads, redisVars, slotVars, enterVars, procVars, cancel>>

BecomesDue(r) ==
  /\ row[r] # "absent" /\ r \notin due
  /\ due' = due \cup {r}
  /\ UNCHANGED <<row, threads, create, redisVars, slotVars, enterVars, procVars, cancel>>

\* Runs.Delete removes the row whatever its status; nobody is told.
DeleteRun(r) ==
  /\ "delete run" \in Calls
  /\ row[r] \notin {"absent", "deleted"}
  /\ row' = [row EXCEPT ![r] = "deleted"]
  /\ UNCHANGED <<due, threads, create, redisVars, slotVars, enterVars, procVars, cancel>>

\* Rows after Threads.Delete(t), whose cascade is committed before it looks whether
\* there was a thread (404): runs of a thread that is gone are deleted as well.
WithoutThread(t) ==
  [r \in Runs |-> IF ThreadOf[r] = t /\ row[r] # "absent" THEN "deleted" ELSE row[r]]

DeleteThread(t) ==
  /\ "delete thread" \in Calls
  /\ threads' = threads \ {t}
  /\ row' = WithoutThread(t)
  /\ UNCHANGED <<due, create, redisVars, slotVars, enterVars, procVars, cancel>>

-----------------------------------------------------------------------------
(* Runs.Next: claim, park on the doorbell, claim again *)

\* queue() asks for more only when it has a free slot and has started every
\* run of the last reply.
MayAsk(p) ==
  /\ proc[p] = "up"
  /\ FreeSlots(p) # {}
  /\ \A s \in SlotsOf(p) : pc[s] # "claimed"

\* Mutant of Assign: the attempt is handed out and not counted.
AssignUncounted(take, pick, blind, lost) ==
  /\ row' = [r \in Runs |-> IF \E s \in take : pick[s] = r THEN "running" ELSE row[r]]
  /\ tried' = [s \in Slots |-> IF s \in take THEN 1 ELSE tried[s]]
  /\ pc' = [s \in Slots |-> IF s \in take THEN "claimed" ELSE pc[s]]
  /\ job' = [s \in Slots |-> IF s \in take THEN pick[s] ELSE job[s]]
  /\ UNCHANGED <<due, threads, create, attempt, control, outcome, enterVars, proc, cancel>>

\* The slots in "take" are given the due rows "pick" assigns them.  Each run gets
\* its attempt number from Redis (INCRBY, EXPIRE), or 1 when one of these fails
\* ("blind"); if INCRBY did, the attempt is not counted either ("lost").
Assign(take, pick, blind, lost) ==
  /\ row' = [r \in Runs |-> IF \E s \in take : pick[s] = r THEN "running" ELSE row[r]]
  /\ attempt' = [r \in Runs |->
       IF \E s \in take \ lost : pick[s] = r
       THEN Smaller(attempt[r] + 1, MaxRetries + 1) ELSE attempt[r]]
  /\ tried' = [s \in Slots |->
       IF s \in blind THEN 1
       ELSE IF s \in take THEN Smaller(attempt[pick[s]] + 1, MaxRetries + 1)
       ELSE tried[s]]
  /\ pc' = [s \in Slots |-> IF s \in take THEN "claimed" ELSE pc[s]]
  /\ job' = [s \in Slots |-> IF s \in take THEN pick[s] ELSE job[s]]
  /\ UNCHANGED <<due, threads, create, control, outcome, enterVars, proc, cancel>>

\* The claim takes as many due rows as the limit allows, locking each (SKIP
\* LOCKED), so no row is given twice.  Which ones, ORDER BY created_at, is left
\* open.
Claim(p, limit) ==
  \E take \in SUBSET FreeSlots(p) :
    /\ Cardinality(take) = Smaller(limit, Cardinality(Claimable))
    /\ \E pick \in [take -> Claimable], blind \in SUBSET take :
         /\ \A s1, s2 \in take : pick[s1] = pick[s2] => s1 = s2
         /\ "redis" \notin Faults => blind = {}
         /\ \E lost \in SUBSET blind : Assign(take, pick, blind, lost)

NextClaims(p) ==
  /\ MayAsk(p) /\ asked[p] = 0
  /\ Claimable # {}
  /\ Claim(p, Cardinality(FreeSlots(p)))
  /\ UNCHANGED <<asked, wakeups>>

\* Nothing to claim: the call blocks on BLPOP with its limit fixed.
NextParks(p) ==
  /\ MayAsk(p) /\ asked[p] = 0
  /\ Claimable = {}
  /\ asked' = [asked EXCEPT ![p] = Cardinality(FreeSlots(p))]
  /\ UNCHANGED <<rowVars, redisVars, slotVars, enterVars, proc, cancel>>

\* Mutant of NextWakes: BLPOP without a timeout, woken by the doorbell alone.
NextWakesByBell(p) ==
  /\ asked[p] > 0
  /\ wakeups > 0 /\ wakeups' = wakeups - 1
  /\ asked' = [asked EXCEPT ![p] = 0]
  /\ \/ Claimable # {} /\ Claim(p, asked[p])
     \/ Claimable = {} /\ UNCHANGED <<rowVars, attempt, control, slotVars, enterVars,
                                      proc, cancel>>

\* BLPOP returns on a wakeup, after its timeout, or because Redis failed; the
\* second claim may find nothing, and queue() then asks again.
NextWakes(p) ==
  /\ asked[p] > 0
  /\ \/ wakeups > 0 /\ wakeups' = wakeups - 1
     \/ wakeups = 0 /\ UNCHANGED wakeups
     \/ BellFails /\ UNCHANGED wakeups
  /\ asked' = [asked EXCEPT ![p] = 0]
  /\ \/ Claimable # {} /\ Claim(p, asked[p])
     \/ Claimable = {} /\ UNCHANGED <<rowVars, attempt, control, slotVars, enterVars,
                                      proc, cancel>>

\* queue() hands the next run of the reply to a slot: worker() starts and
\* opens its Enter stream.
Spawn(s) ==
  /\ pc[s] = "claimed" /\ proc[ProcOf[s]] = "up"
  /\ pc' = [pc EXCEPT ![s] = "executing"]
  /\ enter' = [enter EXCEPT ![s] = "opening"]
  /\ UNCHANGED <<rowVars, redisVars, job, tried, outcome, inbox, signal, procVars,
                 cancel>>

-----------------------------------------------------------------------------
(* The Enter stream of a slot: server handler and client listener *)

Subscribe(s) ==
  /\ enter[s] = "opening"
  /\ enter' = [enter EXCEPT ![s] = "subscribed"]
  /\ UNCHANGED <<rowVars, redisVars, slotVars, inbox, signal, procVars, cancel>>

\* Mutant of ReadKey: the stream relies on the subscription alone.
ReadNoKey(s) ==
  /\ enter[s] = "subscribed"
  /\ enter' = [enter EXCEPT ![s] = "listening"]
  /\ UNCHANGED <<rowVars, redisVars, slotVars, inbox, signal, procVars, cancel>>

\* After subscribing, GET the key: a stored signal is sent and ends the stream.
ReadKey(s) ==
  /\ enter[s] = "subscribed"
  /\ \/ /\ control[job[s]] # "none"
        /\ enter' = [enter EXCEPT ![s] = "closed"]
        /\ inbox' = [inbox EXCEPT ![s] = control[job[s]]]
     \/ /\ control[job[s]] = "none" \/ "redis" \in Faults
        /\ enter' = [enter EXCEPT ![s] = "listening"]
        /\ UNCHANGED inbox
  /\ UNCHANGED <<rowVars, redisVars, slotVars, signal, procVars, cancel>>

\* The message reaches the client, which sets the ValueEvent: first value wins.
Deliver(s) ==
  /\ enter[s] \in {"listening", "closed"} /\ inbox[s] # "none"
  /\ signal' = [signal EXCEPT ![s] = IF @ = "none" THEN inbox[s] ELSE @]
  /\ enter' = [enter EXCEPT ![s] = "closed"]
  /\ inbox' = [inbox EXCEPT ![s] = "none"]
  /\ UNCHANGED <<rowVars, redisVars, slotVars, procVars, cancel>>

\* A broken stream makes the attempt fail with a retriable error.
ListenerFails(s) ==
  /\ "rpc" \in Faults
  /\ enter[s] \in {"opening", "subscribed", "listening"}
  /\ signal' = [signal EXCEPT ![s] = IF @ = "none" THEN "lost" ELSE @]
  /\ enter' = [enter EXCEPT ![s] = "closed"]
  /\ inbox' = [inbox EXCEPT ![s] = "none"]
  /\ UNCHANGED <<rowVars, redisVars, slotVars, procVars, cancel>>

-----------------------------------------------------------------------------
(* worker(): the graph ends, the outcome is written, the run is left *)

\* What the body of worker() may end with.  A signal and the end of the graph
\* race, so a signalled run may still end by itself.
PossibleOutcomes(s) ==
  IF tried[s] > MaxRetries
  THEN {"error"}
  ELSE {"success", "error", "timeout", "retry"}
         \cup (IF signal[s] = "interrupt" THEN {"interrupted"} ELSE {})
         \cup (IF signal[s] = "rollback" THEN {"rollback"} ELSE {})

\* From here on nothing reads the attempt number or the ValueEvent; what the
\* listener does until Runs.enter cancels it is not told apart.
GraphEnds(s, o) ==
  /\ pc[s] = "executing"
  /\ \/ o \in PossibleOutcomes(s)
     \/ o = "cancelled" /\ proc[ProcOf[s]] = "draining"
  /\ pc' = [pc EXCEPT ![s] = "settling"]
  /\ outcome' = [outcome EXCEPT ![s] = o]
  /\ tried' = [tried EXCEPT ![s] = 0]
  /\ enter' = [enter EXCEPT ![s] = "off"]
  /\ inbox' = [inbox EXCEPT ![s] = "none"]
  /\ signal' = [signal EXCEPT ![s] = "none"]
  /\ UNCHANGED <<rowVars, redisVars, job, procVars, cancel>>

\* Mutant of Retriable: a task cancelled by the shutdown is not among the errors
\* the worker retries.
RetriableErrors(s) == outcome[s] = "retry"

Retriable(s) == outcome[s] \in {"retry", "cancelled"}

\* Mutant of Written: an upsert, which brings a deleted row back.
WrittenUpsert(r, v) == [row EXCEPT ![r] = v]

\* UPDATE run SET status = v WHERE run_id = r: no effect on a missing row.
Written(r, v) == [row EXCEPT ![r] = IF @ \in {"absent", "deleted"} THEN @ ELSE v]

\* The transaction that ends the run: Threads.SetJointStatus, or Threads.Delete
\* for a temporary run.
EndsRun(s) ==
  LET r == job[s] IN
  IF r \in Temporary
  THEN /\ row' = WithoutThread(ThreadOf[r])
       /\ threads' = threads \ {ThreadOf[r]}
  ELSE /\ row' = Written(r, IF outcome[s] = "rollback" THEN "deleted" ELSE outcome[s])
       /\ UNCHANGED threads

Settle(s) ==
  /\ pc[s] = "settling" /\ ~Retriable(s)
  /\ job[s] \in Temporary => ThreadOf[job[s]] \in threads
  /\ EndsRun(s)
  /\ pc' = [pc EXCEPT ![s] = "marking"]
  /\ UNCHANGED <<due, create, redisVars, job, tried, outcome, enterVars, procVars, cancel>>

\* Mutants of Repend: the row is left running, or the done event goes out anyway.
RependForgets(s) ==
  /\ pc[s] = "settling" /\ Retriable(s)
  /\ pc' = [pc EXCEPT ![s] = "leaving"]
  /\ UNCHANGED <<rowVars, redisVars, job, tried, outcome, enterVars, procVars, cancel>>

RependMarksDone(s) ==
  /\ pc[s] = "settling" /\ Retriable(s)
  /\ row' = Written(job[s], "pending")
  /\ pc' = [pc EXCEPT ![s] = "marking"]
  /\ UNCHANGED <<due, threads, create, redisVars, job, tried, outcome, enterVars, procVars,
                 cancel>>

\* A retriable failure puts the row back in the queue, whatever it held; the
\* done event is skipped.
Repend(s) ==
  /\ pc[s] = "settling" /\ Retriable(s)
  /\ row' = Written(job[s], "pending")
  /\ pc' = [pc EXCEPT ![s] = "leaving"]
  /\ UNCHANGED <<due, threads, create, redisVars, job, tried, outcome, enterVars, procVars,
                 cancel>>

\* Everything a slot forgets when its task is over and the runner is released.
Released(S) ==
  /\ pc' = [s \in Slots |-> IF s \in S THEN "idle" ELSE pc[s]]
  /\ job' = [s \in Slots |-> IF s \in S THEN NoRun ELSE job[s]]
  /\ tried' = [s \in Slots |-> IF s \in S THEN 0 ELSE tried[s]]
  /\ outcome' = [s \in Slots |-> IF s \in S THEN "none" ELSE outcome[s]]
  /\ enter' = [s \in Slots |-> IF s \in S THEN "off" ELSE enter[s]]
  /\ inbox' = [s \in Slots |-> IF s \in S THEN "none" ELSE inbox[s]]
  /\ signal' = [s \in Slots |-> IF s \in S THEN "none" ELSE signal[s]]

\* A write that fails, before or after its commit, ends the task with an
\* exception: no done event, no webhook.  So does the deletion of a temporary
\* thread that is already gone, after its commit.
SettleFails(s) ==
  /\ pc[s] = "settling"
  /\ \/ "rpc" \in Faults /\ UNCHANGED rowVars
     \/ /\ ~Retriable(s) /\ EndsRun(s) /\ UNCHANGED <<due, create>>
        /\ "rpc" \in Faults \/ (job[s] \in Temporary /\ ThreadOf[job[s]] \notin threads)
     \/ "rpc" \in Faults /\ Retriable(s) /\ row' = Written(job[s], "pending")
                         /\ UNCHANGED <<due, threads, create>>
  /\ Released({s})
  /\ UNCHANGED <<redisVars, procVars, cancel>>

\* Runs.enter publishes the done event after a body that did not raise;
\* publishing swallows Redis errors.
MarkDone(s) ==
  /\ pc[s] = "marking"
  /\ pc' = [pc EXCEPT ![s] = "leaving"]
  /\ UNCHANGED <<rowVars, redisVars, job, tried, outcome, enterVars, procVars, cancel>>

MarkDoneFails(s) ==
  /\ "rpc" \in Faults
  /\ pc[s] = "marking"
  /\ Released({s})
  /\ UNCHANGED <<rowVars, redisVars, procVars, cancel>>

\* cleanup: the slot is free again.
Leave(s) ==
  /\ pc[s] = "leaving"
  /\ Released({s})
  /\ UNCHANGED <<rowVars, redisVars, procVars, cancel>>

-----------------------------------------------------------------------------
(* Runs.Cancel *)

\* A call for a run that has ended only sets a key nobody reads: left out.
CancelByIds(c, r, action) ==
  /\ "cancel" \in Calls
  /\ cancel[c].step = "idle"
  /\ row[r] \in Active
  /\ cancel' = [cancel EXCEPT ![c] =
       [step |-> "set", action |-> action, targets |-> {r}, todo |-> {r}, at |-> NoRun]]
  /\ UNCHANGED <<rowVars, redisVars, slotVars, enterVars, procVars>>

CancelByStatus(c, statuses, action) ==
  LET targets == {r \in Runs : row[r] \in statuses} IN
  /\ "cancel by status" \in Calls
  /\ cancel[c].step = "idle" /\ targets # {}
  /\ cancel' = [cancel EXCEPT ![c] =
       [step |-> "set", action |-> action, targets |-> targets, todo |-> targets,
        at |-> NoRun]]
  /\ UNCHANGED <<rowVars, redisVars, slotVars, enterVars, procVars>>

\* After its last target the call goes on to its SQL statement.
Advanced(rec, r) ==
  [rec EXCEPT !.todo = @ \ {r}, !.at = NoRun,
              !.step = IF rec.todo = {r} THEN "write" ELSE "set"]

\* SET the key with a time to live; on failure this target's PUBLISH is skipped.
CancelSets(c, r) ==
  /\ cancel[c].step = "set" /\ r \in cancel[c].todo
  /\ \/ /\ control' = [control EXCEPT ![r] = cancel[c].action]
        /\ cancel' = [cancel EXCEPT ![c].step = "publish", ![c].at = r]
     \/ /\ "redis" \in Faults
        /\ cancel' = [cancel EXCEPT ![c] = Advanced(@, r)]
        /\ UNCHANGED control
  /\ UNCHANGED <<rowVars, attempt, wakeups, slotVars, enterVars, procVars>>

\* PUBLISH reaches the streams subscribed right now; the first message counts.
Hears(s, r) == job[s] = r /\ enter[s] \in {"subscribed", "listening"} /\ inbox[s] = "none"

CancelPublishes(c) ==
  LET r == cancel[c].at IN
  /\ cancel[c].step = "publish"
  /\ \/ inbox' = [s \in Slots |-> IF Hears(s, r) THEN cancel[c].action ELSE inbox[s]]
     \/ "redis" \in Faults /\ UNCHANGED inbox
  /\ cancel' = [cancel EXCEPT ![c] = Advanced(@, r)]
  /\ UNCHANGED <<rowVars, redisVars, slotVars, enter, signal, procVars>>

\* Mutant of CancelWrites: the statement takes running rows too.
CancelWritesActive(c) ==
  /\ cancel[c].step = "write"
  /\ row' = [r \in Runs |->
       IF r \in cancel[c].targets /\ row[r] \in Active
       THEN IF cancel[c].action = "rollback" THEN "deleted" ELSE "interrupted"
       ELSE row[r]]
  /\ cancel' = [cancel EXCEPT ![c] = NoCancel]
  /\ UNCHANGED <<due, threads, create, redisVars, slotVars, enterVars, procVars>>

\* One statement for all targets, on those still pending.
CancelWrites(c) ==
  /\ cancel[c].step = "write"
  /\ row' = [r \in Runs |->
       IF r \in cancel[c].targets /\ row[r] = "pending"
       THEN IF cancel[c].action = "rollback" THEN "deleted" ELSE "interrupted"
       ELSE row[r]]
  /\ cancel' = [cancel EXCEPT ![c] = NoCancel]
  /\ UNCHANGED <<due, threads, create, redisVars, slotVars, enterVars, procVars>>

\* The call dies half way (deadline, client gone, database error).
CancelAborts(c) ==
  /\ "abort" \in Faults
  /\ cancel[c].step # "idle"
  /\ cancel' = [cancel EXCEPT ![c] = NoCancel]
  /\ UNCHANGED <<rowVars, redisVars, slotVars, enterVars, procVars>>

-----------------------------------------------------------------------------
(* Faults of the environment *)

\* The keys live 60 seconds: a counter from the claim of the attempt it counts, so
\* that it is gone before an attempt that takes longer ends.
ControlExpires(r) ==
  /\ "control expiry" \in Faults /\ control[r] # "none"
  /\ control' = [control EXCEPT ![r] = "none"]
  /\ UNCHANGED <<rowVars, attempt, wakeups, slotVars, enterVars, procVars, cancel>>

AttemptExpires(r) ==
  /\ "attempt expiry" \in Faults /\ attempt[r] > 0
  /\ attempt' = [attempt EXCEPT ![r] = 0]
  /\ UNCHANGED <<rowVars, control, wakeups, slotVars, enterVars, procVars, cancel>>

\* The reply of Runs.Next is lost, or the loop over it raises: runs claimed for
\* this process and not yet started are dropped, their rows stay running.
FetchFails(p) ==
  /\ "rpc" \in Faults
  /\ \E s \in SlotsOf(p) : pc[s] = "claimed"
  /\ Released({s \in SlotsOf(p) : pc[s] = "claimed"})
  /\ UNCHANGED <<rowVars, redisVars, procVars, cancel>>

Crash(p) ==
  /\ "crash" \in Faults /\ proc[p] # "down"
  /\ proc' = [proc EXCEPT ![p] = "down"]
  /\ asked' = [asked EXCEPT ![p] = 0]
  /\ Released(SlotsOf(p))
  /\ UNCHANGED <<rowVars, redisVars, cancel>>

\* Mutant of Drain: the shutdown puts the rows of this process back in the queue
\* at once, with its tasks still going.
DrainRepends(p) ==
  /\ "drain" \in Faults /\ proc[p] = "up"
  /\ proc' = [proc EXCEPT ![p] = "draining"]
  /\ asked' = [asked EXCEPT ![p] = 0]
  /\ row' = [r \in Runs |->
       IF \E s \in SlotsOf(p) : pc[s] # "marking" /\ job[s] = r /\ row[r] = "running"
       THEN "pending" ELSE row[r]]
  /\ Released({s \in SlotsOf(p) : pc[s] = "claimed"})
  /\ UNCHANGED <<due, threads, create, redisVars, cancel>>

\* SIGTERM cancels queue(): it stops claiming and waits for its workers, which
\* are cancelled when the grace period ends.  Runs it had claimed and not yet
\* started are dropped.
Drain(p) ==
  /\ "drain" \in Faults /\ proc[p] = "up"
  /\ proc' = [proc EXCEPT ![p] = "draining"]
  /\ asked' = [asked EXCEPT ![p] = 0]
  /\ Released({s \in SlotsOf(p) : pc[s] = "claimed"})
  /\ UNCHANGED <<rowVars, redisVars, cancel>>

Exit(p) ==
  /\ proc[p] = "draining"
  /\ \A s \in SlotsOf(p) : pc[s] = "idle"
  /\ proc' = [proc EXCEPT ![p] = "down"]
  /\ UNCHANGED <<rowVars, redisVars, slotVars, enterVars, asked, cancel>>

Start(p) ==
  /\ proc[p] = "down"
  /\ proc' = [proc EXCEPT ![p] = "up"]
  /\ UNCHANGED <<rowVars, redisVars, slotVars, enterVars, asked, cancel>>

-----------------------------------------------------------------------------
Api ==
  \/ \E t \in Threads : CreateThread(t) \/ DeleteThread(t)
  \/ \E r \in Runs :
       \/ \E strategy \in Strategies : CreateReads(r, strategy)
       \/ CreateCommits(r) \/ CreateConflicts(r)
       \/ BecomesDue(r)
       \/ DeleteRun(r)

Queue == \E p \in Procs : NextClaims(p) \/ NextParks(p) \/ NextWakes(p)

Stream(s) == Subscribe(s) \/ ReadKey(s) \/ Deliver(s) \/ ListenerFails(s)

Worker(s) ==
  \/ Spawn(s)
  \/ \E o \in Outcomes : GraphEnds(s, o)
  \/ Settle(s) \/ Repend(s) \/ SettleFails(s)
  \/ MarkDone(s) \/ MarkDoneFails(s) \/ Leave(s)

Cancel(c) ==
  \/ \E r \in Runs, a \in Signals : CancelByIds(c, r, a)
  \/ \E a \in Signals, w \in {{"pending"}, {"running"}, Active} : CancelByStatus(c, w, a)
  \/ \E r \in Runs : CancelSets(c, r)
  \/ CancelPublishes(c) \/ CancelWrites(c) \/ CancelAborts(c)

Environment ==
  \/ \E r \in Runs : ControlExpires(r) \/ AttemptExpires(r)
  \/ \E p \in Procs : FetchFails(p) \/ Crash(p) \/ Drain(p) \/ Exit(p) \/ Start(p)

Next ==
  \/ Api
  \/ Queue
  \/ \E s \in Slots : Stream(s) \/ Worker(s)
  \/ \E c \in Cancellers : Cancel(c)
  \/ Environment

Spec == Init /\ [][Next]_vars

\* Every task of a live process is scheduled, a graph ends at the latest by
\* BG_JOB_TIMEOUT_SECS, created_at passes, and an INSERT that started commits.
\* Nothing is assumed of callers, cancellations and faults.
WorkerProceeds(s) ==
  \/ Spawn(s)
  \/ \E o \in Outcomes : GraphEnds(s, o)
  \/ Settle(s) \/ Repend(s) \/ SettleFails(s)
  \/ MarkDone(s) \/ Leave(s)

Fairness ==
  /\ \A r \in Runs : WF_vars(BecomesDue(r))
  /\ \A p \in Procs :
       WF_vars(NextClaims(p)) /\ WF_vars(NextParks(p)) /\ WF_vars(NextWakes(p))
  /\ \A s \in Slots : WF_vars(WorkerProceeds(s))

FairSpec == Spec /\ Fairness

-----------------------------------------------------------------------------
(* Properties *)

\* A run is in the hands of at most one worker task between its claim and its
\* done event, through crashes, retries, drains and lost replies ("exactly-one-
\* claimer from SKIP LOCKED").
OneExecutor ==
  \A s1, s2 \in Slots :
    Busy(s1) /\ Busy(s2) /\ job[s1] = job[s2] => s1 = s2

\* While a task answers for a run, its row says so: it is running, unless the
\* row was deleted under it.  Neither a cancellation nor another claim moves it.
ExecutorOwnsRow ==
  \A s \in Slots : Owns(s) => row[job[s]] \in {"running", "deleted"}

\* The done event is published after the outcome is committed: a subscriber
\* that sees it and reads the run finds it ended, never pending or running.
DoneAfterCommit ==
  \A s \in Slots : pc[s] = "marking" => row[job[s]] \in Final \cup {"deleted"}

\* Without failed calls, crashes and signals to stop, a running row always has a task that
\* answers for it, so no run is stuck (there is no orphan sweeper).
NoOrphans ==
  Faults \cap {"rpc", "crash", "drain"} = {} =>
    \A r \in Runs : row[r] = "running" => \E s \in Slots : Owns(s) /\ job[s] = r

\* Enter subscribes before it reads the key, and Cancel sets the key before it
\* publishes: once both are done, the executing task has the signal or a
\* message that carries it.
NoLostCancel ==
  Faults \cap {"redis", "rpc", "abort"} = {} =>
    \A s \in Slots :
      pc[s] = "executing" /\ enter[s] \in {"listening", "closed"}
      /\ control[job[s]] # "none"
      /\ (\A c \in Cancellers : cancel[c].step = "publish" => cancel[c].at # job[s])
      => inbox[s] # "none" \/ signal[s] # "none"

\* An outcome is never overwritten: not by a late cancel, a retry that puts the
\* row back without looking, or a second worker.  Only deletion follows.
TerminalIsFinal ==
  [][\A r \in Runs : row[r] \in Final \cup {"deleted"} =>
       row'[r] \in {row[r], "deleted"}]_vars

\* From some moment on no attempt counter expires: attempts take less than a minute.
CountersLast == <>[][\A r \in Runs : attempt'[r] >= attempt[r]]_vars

\* A due run is claimed even when its wakeup was lost, consumed by another
\* worker, or never rung (a retry, a delayed run): BLPOP has a timeout.  Without
\* CountersLast another run may be retried for ever and hold the only slot.
DueRunIsClaimed ==
  CountersLast => \A r \in Runs : row[r] = "pending" /\ r \in due ~> row[r] # "pending"

\* Every claimed run ends, whatever its attempts raise, if their counter lasts: it
\* counts claims, is compared by the next worker that gets the run, and a counter
\* that expired a few times only lets the run begin anew.
ClaimedRunEnds ==
  CountersLast => \A r \in Runs : row[r] = "running" ~> row[r] \in Final \cup {"deleted"}

\* The queue implements the life of a run that RunLifecycle promises.
Holders == [r \in Runs |-> {s \in Slots : Owns(s) /\ job[s] = r}]
Lifecycle == INSTANCE RunLifecycle WITH Executors <- Slots, status <- row,
                                        holders <- Holders
ImplementsLifecycle == Lifecycle!Spec

\* What the API says of "enqueue": the new run starts after the current run of its thread finishes.
EnqueueWaits ==
  \A s1, s2 \in Slots :
    pc[s1] = "executing" /\ pc[s2] = "executing"
    /\ ThreadOf[job[s1]] = ThreadOf[job[s2]] => s1 = s2
=============================================================================
