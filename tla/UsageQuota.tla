----------------------------- MODULE UsageQuota -----------------------------
(***************************************************************************)
(* Usage quotas of a shared deployment (agents/usage.py).                  *)
(*                                                                         *)
(* check_and_record_run gates a new run in one transaction: it takes the   *)
(* owner's advisory lock, reads the ledger and the run table, and adds a   *)
(* "run" row when every limit leaves room.  The run row of the agent       *)
(* server is inserted later, by another call on another connection, and    *)
(* each model call of the run adds an "llm" row when it has ended.  now()  *)
(* stands still in a transaction: it is when it began, which may be long   *)
(* before the lock was free.                                               *)
(***************************************************************************)
EXTENDS Integers, FiniteSets

CONSTANTS
  Requests,       \* attempts to create a run, in several tabs or one
  Owners, OwnerOf,
  RunLimits,      \* limits on the runs of an owner: [window, limit] records
  SpendLimits,    \* limits on what an owner spends
  GlobalLimits,   \* limits on what all owners spend together
  MaxConcurrent,  \* QUOTA_MAX_CONCURRENT_RUNS, 0 for none
  Hour,           \* age at which an active run is no longer counted
  RunCost,        \* the most a run spends, in units of one model call (bound)
  MaxTime         \* the clock stops here (bound)

Limits == [window : Nat \ {0}, limit : Nat \ {0}]   \* a limit of 0 is no limit

ASSUME ConstantsAssumption ==
  /\ OwnerOf \in [Requests -> Owners]
  /\ RunLimits \subseteq Limits /\ SpendLimits \subseteq Limits
  /\ GlobalLimits \subseteq Limits
  /\ MaxConcurrent \in Nat /\ Hour \in Nat /\ RunCost \in Nat /\ MaxTime \in Nat
  /\ IsFiniteSet(Requests)

VARIABLES
  now,     \* the clock of the database
  step,    \* where each request is
  stamp,   \* now() of its transaction, then created_at of its run
  ledger   \* usage_ledger: row n = 0 of a request is its run, the others model calls

vars == <<now, step, stamp, ledger>>

Steps == {"idle", "waiting", "granted", "refused", "allowed", "active", "over"}
LedgerRows == [of : Requests, n : 0 .. RunCost, at : 0 .. MaxTime]

TypeOK ==
  /\ now \in 0 .. MaxTime
  /\ step \in [Requests -> Steps]
  /\ stamp \in [Requests -> 0 .. MaxTime]
  /\ ledger \subseteq LedgerRows

Init ==
  /\ now = 0
  /\ step = [q \in Requests |-> "idle"]
  /\ stamp = [q \in Requests |-> 0]
  /\ ledger = {}

Tick ==
  /\ now < MaxTime
  /\ now' = now + 1
  /\ UNCHANGED <<step, stamp, ledger>>

-----------------------------------------------------------------------------
(* The gate *)

\* The transaction begins, and waits for the lock.
Begin(q) ==
  /\ step[q] = "idle"
  /\ step' = [step EXCEPT ![q] = "waiting"]
  /\ stamp' = [stamp EXCEPT ![q] = now]
  /\ UNCHANGED <<now, ledger>>

Runs(o) == {e \in ledger : e.n = 0 /\ OwnerOf[e.of] = o}
Spending(o) == {e \in ledger : e.n > 0 /\ OwnerOf[e.of] = o}
AllSpending == {e \in ledger : e.n > 0}

\* created_at > now() - interval
Since(rows, t, window) == {e \in rows : e.at > t - window}

Room(rows, t, limits) ==
  \A l \in limits : Cardinality(Since(rows, t, l.window)) < l.limit

\* Mutant of ActiveRuns: only the runs that have spent something.
ActiveSpenders(o, t) ==
  {q \in Requests : /\ OwnerOf[q] = o /\ step[q] = "active" /\ stamp[q] > t - Hour
                    /\ \E e \in ledger : e.of = q /\ e.n > 0}

\* Runs of the owner in the run table, the old ones taken for orphans.
ActiveRuns(o, t) ==
  {q \in Requests : OwnerOf[q] = o /\ step[q] = "active" /\ stamp[q] > t - Hour}

Allowed(q) ==
  LET o == OwnerOf[q] t == stamp[q] IN
  /\ Room(AllSpending, t, GlobalLimits)
  /\ Room(Runs(o), t, RunLimits)
  /\ Room(Spending(o), t, SpendLimits)
  /\ MaxConcurrent > 0 => Cardinality(ActiveRuns(o, t)) < MaxConcurrent

\* The lock is held from here to the commit.
Holds(q) == step[q] \in {"granted", "refused"}

\* Mutant of Decide: without the advisory lock.
DecideUnlocked(q) ==
  /\ step[q] = "waiting"
  /\ step' = [step EXCEPT ![q] = IF Allowed(q) THEN "granted" ELSE "refused"]
  /\ UNCHANGED <<now, stamp, ledger>>

Decide(q) ==
  /\ step[q] = "waiting"
  /\ \A p \in Requests : OwnerOf[p] = OwnerOf[q] => ~Holds(p)
  /\ step' = [step EXCEPT ![q] = IF Allowed(q) THEN "granted" ELSE "refused"]
  /\ UNCHANGED <<now, stamp, ledger>>

\* Mutant of Commit: the run is entered as one more model call.
CommitUncounted(q) ==
  /\ step[q] = "granted"
  /\ step' = [step EXCEPT ![q] = "allowed"]
  /\ ledger' = ledger \cup {[of |-> q, n |-> RunCost + 1, at |-> stamp[q]]}
  /\ UNCHANGED <<now, stamp>>

Commit(q) ==
  /\ step[q] = "granted"
  /\ step' = [step EXCEPT ![q] = "allowed"]
  /\ ledger' = ledger \cup {[of |-> q, n |-> 0, at |-> stamp[q]]}
  /\ UNCHANGED <<now, stamp>>

Refuse(q) ==
  /\ step[q] = "refused"
  /\ step' = [step EXCEPT ![q] = "over"]
  /\ UNCHANGED <<now, stamp, ledger>>

-----------------------------------------------------------------------------
(* The run *)

\* Runs.Create, after the gate has let the request through ...
Start(q) ==
  /\ step[q] = "allowed"
  /\ step' = [step EXCEPT ![q] = "active"]
  /\ stamp' = [stamp EXCEPT ![q] = now]
  /\ UNCHANGED <<now, ledger>>

\* ... or fails, and what was counted is not given back.
StartFails(q) ==
  /\ step[q] = "allowed"
  /\ step' = [step EXCEPT ![q] = "over"]
  /\ UNCHANGED <<now, stamp, ledger>>

\* UsageMeter: a model call has ended.  Nothing stops a run that has started.
Spend(q) ==
  /\ step[q] = "active"
  /\ \E n \in 1 .. RunCost :
       /\ \A e \in ledger : e.of = q => e.n < n
       /\ n > 1 => \E e \in ledger : e.of = q /\ e.n = n - 1
       /\ ledger' = ledger \cup {[of |-> q, n |-> n, at |-> now]}
  /\ UNCHANGED <<now, step, stamp>>

Finish(q) ==
  /\ step[q] = "active"
  /\ step' = [step EXCEPT ![q] = "over"]
  /\ UNCHANGED <<now, stamp, ledger>>

Next ==
  \/ Tick
  \/ \E q \in Requests :
       \/ Begin(q) \/ Decide(q) \/ Commit(q) \/ Refuse(q)
       \/ Start(q) \/ StartFails(q) \/ Spend(q) \/ Finish(q)

Spec == Init /\ [][Next]_vars

-----------------------------------------------------------------------------
(* Properties *)

InWindow(rows, t, window) == {e \in rows : t - window < e.at /\ e.at <= t}

\* No window of the length of a limit, wherever it begins, holds more runs of an
\* owner than the limit, whatever bursts of requests wait for the lock and for
\* how long.
RunLimitHolds ==
  \A o \in Owners, l \in RunLimits, t \in 0 .. MaxTime :
    Cardinality(InWindow(Runs(o), t, l.window)) <= l.limit

\* What several tabs can do to the limit of concurrent runs: those of an owner's runs
\* that were in the run table before a run asked to be let through, and are there still,
\* are fewer than the limit.  Only runs that overlapped at the gate exceed it, and
\* those that are taken for orphans.
Entered(q) == CHOOSE e \in ledger : e.of = q /\ e.n = 0

OnlyOverlapsExceed ==
  MaxConcurrent > 0 =>
    \A q \in Requests : step[q] = "active" =>
      Cardinality({p \in ActiveRuns(OwnerOf[q], Entered(q).at) :
                     stamp[p] < Entered(q).at}) < MaxConcurrent
=============================================================================
