------------------------------- MODULE Crons --------------------------------
(***************************************************************************)
(* Scheduled runs: the cron table, the calls that change it and the        *)
(* scheduler loop (cron_scheduler) that polls Crons.Next for due rows and  *)
(* creates a run for each, one after the other, from the reply it got.     *)
(* Time is a clock of ticks and a schedule fires every so many ticks; with *)
(* Postgres as the backend nothing ever moves next_run_date on.  Of a      *)
(* cron's payload it matters only whether it names an assistant, without   *)
(* which no run can be created.                                            *)
(***************************************************************************)
EXTENDS Integers, FiniteSets

CONSTANTS
  Ids,         \* cron ids
  Schedulers,  \* processes with FF_CRONS_ENABLED
  Periods,     \* schedules callers ask for: every so many ticks
  Ends,        \* end times callers give, Never for none
  Calls,       \* which calls besides creation are made
  MaxTime,     \* the clock stops here (bound)
  MaxFired     \* runs counted per cron (bound)

ASSUME ConstantsAssumption ==
  /\ Periods \subseteq Nat \ {0}
  /\ Ends \subseteq 1 .. MaxTime + 1
  /\ Calls \subseteq {"patch", "reassign", "delete"}
  /\ MaxTime \in Nat /\ MaxFired \in Nat
  /\ IsFiniteSet(Schedulers)

Never == MaxTime + 1

VARIABLES
  now,    \* the clock of the database
  used,   \* ids handed out, each once (uuid)
  cron,   \* rows of the cron table, or NoRow
  batch,  \* per scheduler, the crons of the last reply still to fire
  void,   \* those of them whose payload names no assistant
  fired,  \* runs created for each cron
  late    \* history: how many of them since the cron was stopped

vars == <<now, used, cron, batch, void, fired, late>>

NoRow == [period |-> 0, next |-> Never, until |-> Never,
          enabled |-> FALSE, named |-> FALSE]

Rows == [period : Periods \cup {0}, next : Nat,
         until : 0 .. Never, enabled : BOOLEAN, named : BOOLEAN]

TypeOK ==
  /\ now \in 0 .. MaxTime
  /\ used \subseteq Ids
  /\ cron \in [Ids -> Rows]
  /\ batch \in [Schedulers -> SUBSET Ids] /\ void \in [Schedulers -> SUBSET Ids]
  /\ fired \in [Ids -> 0 .. MaxFired]
  /\ late \in [Ids -> 0 .. MaxFired]

\* Mutant of NextDate: the instant before t.
PrevDate(period, t) == (t \div period - 1) * period

\* croniter.get_next: the first instant of the schedule after t.
NextDate(period, t) == (t \div period + 1) * period

Init ==
  /\ now = 0
  /\ used = {}
  /\ cron = [c \in Ids |-> NoRow]
  /\ batch = [s \in Schedulers |-> {}] /\ void = [s \in Schedulers |-> {}]
  /\ fired = [c \in Ids |-> 0] /\ late = [c \in Ids |-> 0]

Tick ==
  /\ now < MaxTime
  /\ now' = now + 1
  /\ UNCHANGED <<used, cron, batch, void, fired, late>>

-----------------------------------------------------------------------------
(* Calls of the API *)

Create(c, period, until, enabled) ==
  /\ c \notin used
  /\ used' = used \cup {c}
  /\ cron' = [cron EXCEPT ![c] =
       [period |-> period, next |-> NextDate(period, now),
        until |-> until, enabled |-> enabled, named |-> TRUE]]
  /\ UNCHANGED <<now, batch, void, fired, late>>

\* Patch writes the columns it is given; next_run_date is none of them.  The column
\* payload becomes the body of the request, which names an assistant only if the
\* caller put one in: the schema of the body (CronPatch) has no such field.
Patch(c, period, until, enabled, named) ==
  /\ (IF named THEN "reassign" ELSE "patch") \in Calls
  /\ cron[c] # NoRow
  /\ cron' = [cron EXCEPT ![c].period = period, ![c].until = until,
                          ![c].enabled = enabled, ![c].named = named]
  /\ late' = IF enabled THEN [late EXCEPT ![c] = 0] ELSE late
  /\ UNCHANGED <<now, used, batch, void, fired>>

Delete(c) ==
  /\ "delete" \in Calls
  /\ cron[c] # NoRow
  /\ cron' = [cron EXCEPT ![c] = NoRow]
  /\ UNCHANGED <<now, used, batch, void, fired, late>>

-----------------------------------------------------------------------------
(* The scheduler *)

\* Mutant of Due: a poll that does not look at enabled.
DueDisabled(c) == cron[c].next <= now /\ cron[c].until > now

\* Mutant of Due: a poll that finds only what is due at this very instant.
DueNow(c) == cron[c].enabled /\ cron[c].next = now /\ cron[c].until > now

Due(c) == cron[c].enabled /\ cron[c].next <= now /\ cron[c].until > now

\* Crons.Next is a SELECT: it locks and changes nothing.
Poll(s) ==
  /\ batch[s] = {}
  /\ batch' = [batch EXCEPT ![s] = {c \in Ids : Due(c)}]
  /\ void' = [void EXCEPT ![s] = {c \in Ids : Due(c) /\ ~cron[c].named}]
  /\ UNCHANGED <<now, used, cron, fired, late>>

\* create_valid_run for the next cron of the reply, not looked at again.  The
\* bound drops a run too many.
Fire(s, c) ==
  /\ c \in batch[s] \ void[s] /\ fired[c] < MaxFired
  /\ batch' = [batch EXCEPT ![s] = @ \ {c}]
  /\ fired' = [fired EXCEPT ![c] = @ + 1]
  /\ late' = IF cron[c].enabled THEN late ELSE [late EXCEPT ![c] = @ + 1]
  /\ UNCHANGED <<now, used, cron, void>>

\* create_valid_run raises (its assistant is gone, or the payload names none): logged,
\* the next cron follows, and this one is due again at the next poll.
FireFails(s, c) ==
  /\ c \in batch[s]
  /\ batch' = [batch EXCEPT ![s] = @ \ {c}]
  /\ void' = [void EXCEPT ![s] = @ \ {c}]
  /\ UNCHANGED <<now, used, cron, fired, late>>

\* An exception before create_valid_run (the payload cannot be read or decrypted) ends
\* the loop over the reply: the rest of it is dropped.
Abandons(s) ==
  /\ batch[s] # {}
  /\ batch' = [batch EXCEPT ![s] = {}]
  /\ void' = [void EXCEPT ![s] = {}]
  /\ UNCHANGED <<now, used, cron, fired, late>>

-----------------------------------------------------------------------------
Next ==
  \/ Tick
  \/ \E c \in Ids :
       \/ \E p \in Periods, u \in Ends, e \in BOOLEAN :
            Create(c, p, u, e) \/ \E n \in BOOLEAN : Patch(c, p, u, e, n)
       \/ Delete(c)
  \/ \E s \in Schedulers :
       Poll(s) \/ Abandons(s) \/ \E c \in Ids : Fire(s, c) \/ FireFails(s, c)

Spec == Init /\ [][Next]_vars

\* Time passes, a scheduler keeps polling and works through what it was given.  A cron
\* whose payload names an assistant is not for ever in replies that are abandoned
\* before it, nor does creating its run fail for ever; of other crons nothing is assumed.
Fairness ==
  /\ WF_vars(Tick)
  /\ \A s \in Schedulers, c \in Ids :
       /\ WF_vars(Poll(s)) /\ WF_vars(Fire(s, c) \/ FireFails(s, c) \/ Abandons(s))
       /\ SF_vars(Fire(s, c))

FairSpec == Spec /\ Fairness

-----------------------------------------------------------------------------
(* Properties *)

CameDue(c) == cron[c].next <= now /\ fired[c] = 0
Settled(c) == fired[c] > 0 \/ ~cron[c].enabled \/ cron[c].until <= now

\* A cron that is due is fired however long the scheduler slept, was busy with other
\* crons, abandoned its replies or failed to create the run: or it is deleted, disabled
\* or over, or was patched by a request that names no assistant.
DueCronFires == \A c \in Ids : CameDue(c) ~> (Settled(c) \/ ~cron[c].named)

\* A cron that was disabled or deleted (NoRow is disabled) may still be fired, from
\* replies that are older than that: by each scheduler once, however often they poll
\* and whatever they have to do first.
StopsFiring == \A c \in Ids : late[c] <= Cardinality(Schedulers)
=============================================================================
