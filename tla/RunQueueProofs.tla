--------------------------- MODULE RunQueueProofs ---------------------------
(***************************************************************************)
(* Safety of the run queue, for any number of runs, processes and slots.   *)
(* Under every fault: type correctness, one executor per run, the row of a *)
(* run in hand, outcomes committed before they are announced and never     *)
(* overwritten.  Without the faults their statements exclude: no run is    *)
(* orphaned, and no cancellation is lost.  And the queue implements the    *)
(* abstract life of a run.                                                 *)
(***************************************************************************)
EXTENDS RunQueue, FiniteSetTheorems, TLAPS

\* A slot holds a run while it is not idle, listens only while its graph
\* executes, and knows how the graph ended when it writes the outcome.
SlotsHoldRuns ==
  \A s \in Slots :
    /\ pc[s] # "idle" => job[s] \in Runs
    /\ enter[s] # "off" => pc[s] = "executing"
    /\ pc[s] = "settling" => outcome[s] \in Outcomes

\* An insert is in flight only for a run that has no row yet.
InsertsAreNew == \A r \in Runs : create[r] # NoCreate => row[r] = "absent"

Ownership ==
  /\ SlotsHoldRuns
  /\ InsertsAreNew
  /\ OneExecutor
  /\ ExecutorOwnsRow
  /\ DoneAfterCommit

\* The inductive invariant.  OneExecutor alone is not inductive: that a claim
\* cannot take a run somebody holds follows from ExecutorOwnsRow and
\* DoneAfterCommit, by which no row held by a task is pending.
IInv == TypeOK /\ Ownership

-----------------------------------------------------------------------------

\* A process has finitely many free slots.
LEMMA FreeSlotsFinite ==
  ASSUME NEW p \in Procs
  PROVE  Cardinality(FreeSlots(p)) \in Nat
<1>1. FreeSlots(p) \subseteq Slots
  BY DEF FreeSlots, SlotsOf
<1>2. IsFiniteSet(FreeSlots(p))
  BY <1>1, FS_Subset, ConstantsAssumption
<1> QED
  BY <1>2, FS_CardinalityType

\* The initial state satisfies the inductive invariant.
LEMMA InitInvariant == Init => IInv
<1> SUFFICES ASSUME Init PROVE IInv
  OBVIOUS
<1>1. TypeOK
  BY ConstantsAssumption DEF Init, TypeOK, RowStates, Stages, NoCreate, CreateRecords,
     NoCancel, CancelRecords, Signals
<1>2. Ownership
  BY DEF Init, Ownership, SlotsHoldRuns, InsertsAreNew, OneExecutor,
     ExecutorOwnsRow, DoneAfterCommit, Owns, Busy
<1> QED
  BY <1>1, <1>2 DEF IInv

\* Every step keeps the types.
LEMMA TypeStep == TypeOK /\ SlotsHoldRuns /\ [Next]_vars => TypeOK'
<1> SUFFICES ASSUME TypeOK, SlotsHoldRuns, [Next]_vars PROVE TypeOK'
  OBVIOUS
<1> USE ConstantsAssumption
    DEF TypeOK, rowVars, redisVars, slotVars, enterVars, procVars
<1>1. CASE UNCHANGED vars
  BY <1>1 DEF vars
<1>2. ASSUME NEW t \in Threads, CreateThread(t) \/ DeleteThread(t)
      PROVE  TypeOK'
  <2>1. CASE CreateThread(t)
    BY <2>1 DEF CreateThread
  <2>2. CASE DeleteThread(t)
    BY <2>2 DEF DeleteThread, WithoutThread, RowStates
  <2> QED
    BY <1>2, <2>1, <2>2
<1>3. ASSUME NEW r \in Runs, NEW strategy \in Strategies, CreateReads(r, strategy)
      PROVE  TypeOK'
  BY <1>3 DEF CreateReads, CreateRecords, Inflight, RunsOf
<1>4. ASSUME NEW r \in Runs, CreateCommits(r)
      PROVE  TypeOK'
  <2>1. cancel' \in [Cancellers -> CancelRecords]
    <3>1. create[r] \in CreateRecords
      OBVIOUS
    <3>2. CancelInflight(create[r].strategy, create[r].inflight)
      BY <1>4 DEF CreateCommits
    <3>3. ASSUME NEW c \in Cancellers,
                 create[r].strategy \in Signals,
                 cancel' = [cancel EXCEPT ![c] =
                   [step |-> "set", action |-> create[r].strategy,
                    targets |-> create[r].inflight, todo |-> create[r].inflight,
                    at |-> NoRun]]
          PROVE  cancel' \in [Cancellers -> CancelRecords]
      BY <3>1, <3>3 DEF CancelRecords, CreateRecords
    <3> QED
      BY <3>2, <3>3 DEF CancelInflight
  <2>2. wakeups' \in 0 .. MaxWakeups
    BY <1>4 DEF CreateCommits, Smaller
  <2>3. create' \in [Runs -> CreateRecords]
    BY <1>4 DEF CreateCommits, CreateRecords, NoCreate
  <2> QED
    BY <1>4, <2>1, <2>2, <2>3 DEF CreateCommits, RowStates, Active
<1>5. ASSUME NEW r \in Runs, CreateConflicts(r) \/ BecomesDue(r) \/ DeleteRun(r)
      PROVE  TypeOK'
  <2>1. CASE CreateConflicts(r)
    BY <2>1 DEF CreateConflicts, CreateRecords, NoCreate
  <2>2. CASE BecomesDue(r)
    BY <2>2 DEF BecomesDue
  <2>3. CASE DeleteRun(r)
    BY <2>3 DEF DeleteRun, RowStates
  <2> QED
    BY <1>5, <2>1, <2>2, <2>3
<1>6. ASSUME NEW p \in Procs, NEW limit \in Nat, Claim(p, limit),
             asked' \in [Procs -> Nat], wakeups' \in 0 .. MaxWakeups
      PROVE  TypeOK'
  <2>1. PICK take \in SUBSET FreeSlots(p) :
          \E pick \in [take -> Claimable], blind, lost \in SUBSET take :
            Assign(take, pick, blind, lost)
    BY <1>6 DEF Claim
  <2>2. PICK pick \in [take -> Claimable], blind, lost \in SUBSET take :
         Assign(take, pick, blind, lost)
    BY <2>1
  <2>3. take \subseteq Slots /\ \A s \in take : pick[s] \in Runs
    BY <2>2 DEF FreeSlots, SlotsOf, Claimable
  <2>4. attempt' \in [Runs -> 0 .. MaxRetries + 1] /\ tried' \in [Slots -> 0 .. MaxRetries + 1]
    BY <2>2, <2>3 DEF Assign, Smaller
  <2> QED
    BY <1>6, <2>2, <2>3, <2>4 DEF Assign, RowStates, Active, Stages
<1>7. ASSUME NEW p \in Procs, NextClaims(p) \/ NextParks(p) \/ NextWakes(p)
      PROVE  TypeOK'
  <2>1. Cardinality(FreeSlots(p)) \in Nat
    BY FreeSlotsFinite
  <2>2. CASE NextClaims(p)
    BY <1>6, <2>1, <2>2 DEF NextClaims
  <2>3. CASE NextParks(p)
    BY <2>1, <2>3 DEF NextParks
  <2>4. CASE NextWakes(p)
    <3>1. asked' \in [Procs -> Nat] /\ wakeups' \in 0 .. MaxWakeups
      BY <2>4 DEF NextWakes
    <3> QED
      BY <1>6, <2>4, <3>1 DEF NextWakes
  <2> QED
    BY <1>7, <2>2, <2>3, <2>4
<1>8. ASSUME NEW s \in Slots, Stream(s)
      PROVE  TypeOK'
  <2>1. CASE Subscribe(s)
    BY <2>1 DEF Subscribe
  <2>2. CASE ReadKey(s)
    <3>1. job[s] \in Runs
      BY <2>2 DEF ReadKey, SlotsHoldRuns
    <3> QED
      BY <2>2, <3>1 DEF ReadKey
  <2>3. CASE Deliver(s)
    BY <2>3 DEF Deliver
  <2>4. CASE ListenerFails(s)
    BY <2>4 DEF ListenerFails
  <2> QED
    BY <1>8, <2>1, <2>2, <2>3, <2>4 DEF Stream
<1>9. ASSUME NEW S \in SUBSET Slots, Released(S),
             row' \in [Runs -> RowStates], threads' \subseteq Threads,
             UNCHANGED <<due, create, redisVars, asked, cancel>>,
             proc' \in [Procs -> {"up", "draining", "down"}]
      PROVE  TypeOK'
  BY <1>9 DEF Released, Stages
<1>10. ASSUME NEW s \in Slots, Worker(s)
       PROVE  TypeOK'
  <2>1. CASE Spawn(s)
    BY <2>1 DEF Spawn, Stages
  <2>2. ASSUME NEW o \in Outcomes, GraphEnds(s, o)
        PROVE  TypeOK'
    BY <2>2 DEF GraphEnds, Stages
  <2>3. ASSUME pc[s] = "settling", ~Retriable(s), EndsRun(s)
        PROVE  row' \in [Runs -> RowStates] /\ threads' \subseteq Threads
    BY <2>3 DEF EndsRun, Retriable, SlotsHoldRuns, Outcomes, RowStates, Final,
       WithoutThread, Written
  <2>4. ASSUME row' = Written(job[s], "pending")
        PROVE  row' \in [Runs -> RowStates]
    BY <2>4 DEF Written, RowStates, Active
  <2>5. CASE Settle(s)
    BY <2>3, <2>5 DEF Settle, Stages
  <2>6. CASE Repend(s)
    BY <2>4, <2>6 DEF Repend, Stages
  <2>7. CASE SettleFails(s)
    <3>1. /\ row' \in [Runs -> RowStates] /\ threads' \subseteq Threads
          /\ UNCHANGED <<due, create>>
      BY <2>3, <2>4, <2>7 DEF SettleFails
    <3> QED
      BY <1>9, <2>7, <3>1 DEF SettleFails
  <2>8. CASE MarkDone(s)
    BY <2>8 DEF MarkDone, Stages
  <2>9. CASE MarkDoneFails(s) \/ Leave(s)
    BY <1>9, <2>9 DEF MarkDoneFails, Leave
  <2> QED
    BY <1>10, <2>1, <2>2, <2>5, <2>6, <2>7, <2>8, <2>9 DEF Worker
<1>11. ASSUME NEW c \in Cancellers, Cancel(c)
       PROVE  TypeOK'
  <2> USE DEF CancelRecords
  <2>1. ASSUME NEW r \in Runs, NEW a \in Signals, CancelByIds(c, r, a)
        PROVE  TypeOK'
    BY <2>1 DEF CancelByIds
  <2>2. ASSUME NEW a \in Signals, NEW w, CancelByStatus(c, w, a)
        PROVE  TypeOK'
    BY <2>2 DEF CancelByStatus
  <2>3. ASSUME NEW r \in Runs, CancelSets(c, r)
        PROVE  TypeOK'
    <3>1. cancel[c] \in CancelRecords
      OBVIOUS
    <3>2. Advanced(cancel[c], r) \in CancelRecords
      BY <3>1 DEF Advanced
    <3>3. [cancel[c] EXCEPT !.step = "publish", !.at = r] \in CancelRecords
      BY <3>1
    <3>4. cancel' \in [Cancellers -> CancelRecords]
      <4>1. CASE cancel' = [cancel EXCEPT ![c] = Advanced(@, r)]
        BY <3>2, <4>1
      <4>2. CASE cancel' = [cancel EXCEPT ![c].step = "publish", ![c].at = r]
        BY <3>1, <3>3, <4>2
      <4> QED
        BY <2>3, <4>1, <4>2 DEF CancelSets
    <3> QED
      BY <2>3, <3>4 DEF CancelSets
  <2>4. CASE CancelPublishes(c)
    <3>1. Advanced(cancel[c], cancel[c].at) \in CancelRecords
      BY cancel[c] \in CancelRecords DEF Advanced
    <3> QED
      BY <2>4, <3>1 DEF CancelPublishes
  <2>5. CASE CancelWrites(c)
    BY <2>5 DEF CancelWrites, NoCancel, Signals, RowStates, Final
  <2>6. CASE CancelAborts(c)
    BY <2>6 DEF CancelAborts, NoCancel, Signals
  <2> QED
    BY <1>11, <2>1, <2>2, <2>3, <2>4, <2>5, <2>6 DEF Cancel
<1>12. CASE Environment
  <2>1. ASSUME NEW r \in Runs, ControlExpires(r) \/ AttemptExpires(r)
        PROVE  TypeOK'
    <3>1. CASE ControlExpires(r)
      BY <3>1 DEF ControlExpires
    <3>2. CASE AttemptExpires(r)
      <4>1. attempt \in [Runs -> 0 .. MaxRetries + 1] /\ 0 \in 0 .. MaxRetries + 1
        OBVIOUS
      <4>2. attempt' \in [Runs -> 0 .. MaxRetries + 1]
        <5> HIDE DEF TypeOK
        <5> QED
          BY <3>2, <4>1 DEF AttemptExpires
      <4> QED
        BY <3>2, <4>2 DEF AttemptExpires
    <3> QED
      BY <2>1, <3>1, <3>2
  <2>2. ASSUME NEW p \in Procs, FetchFails(p) \/ Crash(p) \/ Drain(p)
        PROVE  TypeOK'
    <3>1. SlotsOf(p) \subseteq Slots
      BY DEF SlotsOf
    <3>2. CASE FetchFails(p)
      BY <1>9, <3>1, <3>2 DEF FetchFails
    <3>3. CASE Crash(p)
      BY <3>1, <3>3 DEF Crash, Released, Stages
    <3>4. CASE Drain(p)
      BY <3>1, <3>4 DEF Drain, Released, Stages
    <3> QED
      BY <2>2, <3>2, <3>3, <3>4
  <2>3. ASSUME NEW p \in Procs, Exit(p) \/ Start(p)
        PROVE  TypeOK'
    BY <2>3 DEF Exit, Start
  <2> QED
    BY <1>12, <2>1, <2>2, <2>3 DEF Environment
<1> QED
  BY <1>1, <1>2, <1>3, <1>4, <1>5, <1>7, <1>8, <1>10, <1>11, <1>12
     DEF Next, Api, Queue

-----------------------------------------------------------------------------

\* A step that gives no slot a new run keeps the ownership, provided every slot
\* that stays busy keeps its run and its run's row moves at most to "deleted".
LEMMA OwnershipKept ==
  ASSUME IInv, SlotsHoldRuns', InsertsAreNew',
         \A s \in Slots : Busy(s)' =>
           /\ Busy(s) /\ job'[s] = job[s]
           /\ Owns(s)' => row'[job[s]] \in {"running", "deleted"}
           /\ pc'[s] = "marking" => row'[job[s]] \in Final \cup {"deleted"}
  PROVE  Ownership'
BY DEF IInv, Ownership, OneExecutor, ExecutorOwnsRow, DoneAfterCommit, Busy, Owns

\* A step that leaves the slots alone keeps the ownership, provided held rows
\* move at most to "deleted".
LEMMA RowsMove ==
  ASSUME IInv, InsertsAreNew', UNCHANGED <<pc, job, outcome, enter>>,
         \A r \in Runs : row[r] \in Final \cup {"running", "deleted"} =>
                           row'[r] \in {row[r], "deleted"}
  PROVE  Ownership'
<1>1. SlotsHoldRuns'
  BY DEF IInv, Ownership, SlotsHoldRuns
<1>2. ASSUME NEW s \in Slots, Busy(s)'
      PROVE  /\ Busy(s) /\ job'[s] = job[s]
             /\ Owns(s)' => row'[job[s]] \in {"running", "deleted"}
             /\ pc'[s] = "marking" => row'[job[s]] \in Final \cup {"deleted"}
  BY <1>2 DEF IInv, Ownership, SlotsHoldRuns, ExecutorOwnsRow, DoneAfterCommit, Busy, Owns, Final
<1> QED
  BY <1>1, <1>2, OwnershipKept

\* Releasing slots keeps the ownership, under the same proviso for the others.
LEMMA ReleaseKeeps ==
  ASSUME IInv, NEW S \in SUBSET Slots, Released(S), InsertsAreNew',
         \A s \in Slots \ S : Busy(s) => row'[job[s]] \in {row[job[s]], "deleted"}
  PROVE  Ownership'
<1>1. SlotsHoldRuns'
  BY DEF IInv, TypeOK, Ownership, SlotsHoldRuns, Released
<1>2. ASSUME NEW s \in Slots, Busy(s)'
      PROVE  /\ Busy(s) /\ job'[s] = job[s]
             /\ Owns(s)' => row'[job[s]] \in {"running", "deleted"}
             /\ pc'[s] = "marking" => row'[job[s]] \in Final \cup {"deleted"}
  BY <1>2 DEF IInv, TypeOK, Ownership, ExecutorOwnsRow, DoneAfterCommit, Busy, Owns, Released
<1> QED
  BY <1>1, <1>2, OwnershipKept

\* A claim takes pending rows, which no task holds, each once.
LEMMA ClaimKeeps ==
  ASSUME IInv, NEW p \in Procs, NEW limit \in Nat, Claim(p, limit)
  PROVE  Ownership'
<1>1. PICK take \in SUBSET FreeSlots(p) :
        \E pick \in [take -> Claimable], blind, lost \in SUBSET take :
          /\ \A s1, s2 \in take : pick[s1] = pick[s2] => s1 = s2
          /\ Assign(take, pick, blind, lost)
  BY DEF Claim
<1>2. PICK pick \in [take -> Claimable], blind, lost \in SUBSET take :
        /\ \A s1, s2 \in take : pick[s1] = pick[s2] => s1 = s2
        /\ Assign(take, pick, blind, lost)
  BY <1>1
<1>3. take \subseteq Slots /\ \A s \in take : pc[s] = "idle"
  BY DEF FreeSlots, SlotsOf
<1>4. \A s \in take : pick[s] \in Runs /\ row[pick[s]] = "pending"
  BY <1>2 DEF Claimable
<1>5. \A s \in Slots : Busy(s) => job[s] \in Runs /\ row[job[s]] # "pending"
  BY DEF IInv, Ownership, SlotsHoldRuns, ExecutorOwnsRow, DoneAfterCommit, Busy, Owns, Final
<1>6. SlotsHoldRuns'
  BY <1>2, <1>3, <1>4 DEF Assign, IInv, TypeOK, Ownership, SlotsHoldRuns, enterVars
<1>7. InsertsAreNew'
  BY <1>2, <1>4 DEF Assign, IInv, TypeOK, Ownership, InsertsAreNew
<1>8. \A s \in Slots :
        /\ pc'[s] = IF s \in take THEN "claimed" ELSE pc[s]
        /\ job'[s] = IF s \in take THEN pick[s] ELSE job[s]
  BY <1>2 DEF Assign
<1>9. OneExecutor'
  BY <1>2, <1>3, <1>4, <1>5, <1>8 DEF IInv, Ownership, OneExecutor, Busy, Owns
<1>10. \A s \in Slots \ take : Busy(s) => row'[job[s]] = row[job[s]]
  BY <1>2, <1>4, <1>5 DEF Assign, IInv, TypeOK
<1>11. \A s \in take : row'[pick[s]] = "running"
  BY <1>2, <1>4 DEF Assign
<1>12. ExecutorOwnsRow' /\ DoneAfterCommit'
  BY <1>3, <1>8, <1>10, <1>11 DEF IInv, Ownership, ExecutorOwnsRow, DoneAfterCommit, Busy, Owns
<1> QED
  BY <1>6, <1>7, <1>9, <1>12 DEF Ownership

\* Every step keeps the ownership.
LEMMA OwnershipStep == IInv /\ [Next]_vars => Ownership'
<1> SUFFICES ASSUME IInv, [Next]_vars PROVE Ownership'
  OBVIOUS
<1> USE DEF rowVars, redisVars, slotVars, enterVars, procVars
<1>a. TypeOK /\ SlotsHoldRuns /\ InsertsAreNew /\ OneExecutor /\ ExecutorOwnsRow /\ DoneAfterCommit
  BY DEF IInv, Ownership
<1>b. ASSUME UNCHANGED <<row, create>>
      PROVE  InsertsAreNew'
  BY <1>a, <1>b DEF InsertsAreNew
<1>1. CASE UNCHANGED vars
  BY <1>1, <1>b, RowsMove DEF vars
<1>2. ASSUME NEW t \in Threads, CreateThread(t) \/ DeleteThread(t)
      PROVE  Ownership'
  <2>1. InsertsAreNew'
    <3>1. CASE CreateThread(t)
      BY <1>b, <3>1 DEF CreateThread
    <3>2. CASE DeleteThread(t)
      BY <3>2, <1>a DEF DeleteThread, WithoutThread, InsertsAreNew
    <3> QED
      BY <1>2, <3>1, <3>2
  <2>2. \A r \in Runs : row'[r] = row[r] \/ row'[r] = "deleted"
    BY <1>2, <1>a DEF CreateThread, DeleteThread, WithoutThread, TypeOK
  <2> QED
    BY <1>2, <2>1, <2>2, RowsMove DEF CreateThread, DeleteThread
<1>3. ASSUME NEW r \in Runs, NEW strategy \in Strategies, CreateReads(r, strategy)
      PROVE  Ownership'
  <2>1. InsertsAreNew'
    BY <1>3, <1>a DEF CreateReads, InsertsAreNew, TypeOK
  <2> QED
    BY <1>3, <2>1, RowsMove DEF CreateReads
<1>4. ASSUME NEW r \in Runs, CreateCommits(r)
      PROVE  Ownership'
  <2>1. row[r] = "absent"
    BY <1>4, <1>a DEF CreateCommits, InsertsAreNew
  <2>2. InsertsAreNew'
    BY <1>4, <1>a DEF CreateCommits, InsertsAreNew, TypeOK
  <2>3. \A q \in Runs : row[q] # "absent" => row'[q] = row[q]
    BY <1>4, <1>a, <2>1 DEF CreateCommits, TypeOK
  <2>4. "absent" \notin Final \cup {"running", "deleted"}
    BY DEF Final
  <2> QED
    BY <1>4, <2>2, <2>3, <2>4, RowsMove DEF CreateCommits
<1>5. ASSUME NEW r \in Runs, CreateConflicts(r) \/ BecomesDue(r) \/ DeleteRun(r)
      PROVE  Ownership'
  <2>1. InsertsAreNew'
    <3>1. CASE CreateConflicts(r)
      BY <1>a, <3>1 DEF CreateConflicts, InsertsAreNew, TypeOK
    <3>2. CASE BecomesDue(r)
      BY <1>b, <3>2 DEF BecomesDue
    <3>3. CASE DeleteRun(r)
      <4>1. row[r] \notin {"absent", "deleted"} /\ create' = create
        BY <3>3 DEF DeleteRun
      <4>2. \A q \in Runs : row[q] = "absent" => row'[q] = "absent"
        BY <1>a, <3>3, <4>1 DEF DeleteRun, TypeOK
      <4> QED
        BY <1>a, <4>1, <4>2 DEF InsertsAreNew
    <3> QED
      BY <1>5, <3>1, <3>2, <3>3
  <2>2. \A q \in Runs : row'[q] = row[q] \/ row'[q] = "deleted"
    BY <1>5, <1>a DEF CreateConflicts, BecomesDue, DeleteRun, TypeOK
  <2> QED
    BY <1>5, <2>1, <2>2, RowsMove DEF CreateConflicts, BecomesDue, DeleteRun
<1>6. ASSUME NEW p \in Procs, NextClaims(p) \/ NextParks(p) \/ NextWakes(p)
      PROVE  Ownership'
  <2>1. Cardinality(FreeSlots(p)) \in Nat
    BY FreeSlotsFinite
  <2>2. CASE NextClaims(p)
    BY <2>1, <2>2, ClaimKeeps DEF NextClaims
  <2>3. CASE NextParks(p)
    BY <2>3, <1>b, RowsMove DEF NextParks
  <2>4. CASE NextWakes(p) /\ Claim(p, asked[p])
    BY <1>a, <2>4, ClaimKeeps DEF TypeOK
  <2>5. CASE NextWakes(p) /\ ~Claim(p, asked[p])
    BY <2>5, <1>b, RowsMove DEF NextWakes
  <2> QED
    BY <1>6, <2>2, <2>3, <2>4, <2>5
<1>7. ASSUME NEW s \in Slots, Stream(s)
      PROVE  Ownership'
  <2>1. enter[s] # "off" /\ UNCHANGED <<row, create, pc, job, outcome>>
    BY <1>7 DEF Stream, Subscribe, ReadKey, Deliver, ListenerFails
  <2>2. \A s2 \in Slots \ {s} : enter'[s2] = enter[s2]
    BY <1>7, <1>a DEF Stream, Subscribe, ReadKey, Deliver, ListenerFails, TypeOK
  <2>3. SlotsHoldRuns'
    BY <1>a, <2>1, <2>2 DEF SlotsHoldRuns
  <2> QED
    BY <1>a, <1>b, <2>1, <2>3
       DEF Ownership, OneExecutor, ExecutorOwnsRow, DoneAfterCommit, Busy, Owns
<1>8. ASSUME NEW s \in Slots, Worker(s)
      PROVE  Ownership'
  <2>1. CASE Spawn(s)
    <3>1. SlotsHoldRuns'
      BY <1>a, <2>1 DEF Spawn, SlotsHoldRuns, TypeOK
    <3> QED
      BY <1>a, <1>b, <2>1, <3>1, OwnershipKept
         DEF Spawn, TypeOK, ExecutorOwnsRow, DoneAfterCommit, Busy, Owns
  <2>2. ASSUME NEW o \in Outcomes, GraphEnds(s, o)
        PROVE  Ownership'
    <3>1. SlotsHoldRuns'
      BY <1>a, <2>2 DEF GraphEnds, SlotsHoldRuns, TypeOK
    <3> QED
      BY <1>a, <1>b, <2>2, <3>1, OwnershipKept
         DEF GraphEnds, TypeOK, ExecutorOwnsRow, DoneAfterCommit, Busy, Owns
  <2>3. ASSUME pc[s] = "settling", ~Retriable(s), EndsRun(s), UNCHANGED create
        PROVE  /\ job[s] \in Runs
               /\ row'[job[s]] \in Final \cup {"deleted"}
               /\ \A r \in Runs \ {job[s]} : row'[r] \in {row[r], "deleted"}
               /\ InsertsAreNew'
    BY <1>a, <2>3 DEF EndsRun, Retriable, Outcomes, Written, WithoutThread, Final, TypeOK,
       SlotsHoldRuns, ExecutorOwnsRow, InsertsAreNew, Owns
  <2>4. ASSUME pc[s] = "settling", row' = Written(job[s], "pending"), UNCHANGED create
        PROVE  /\ job[s] \in Runs
               /\ \A r \in Runs \ {job[s]} : row'[r] = row[r]
               /\ InsertsAreNew'
    BY <1>a, <2>4 DEF Written, TypeOK, SlotsHoldRuns, InsertsAreNew
  <2>5. ASSUME pc[s] = "settling"
        PROVE  \A s2 \in Slots \ {s} : Busy(s2) => job[s2] # job[s] /\ job[s2] \in Runs
    BY <1>a, <2>5 DEF OneExecutor, SlotsHoldRuns, Busy, Owns
  <2>6. CASE Settle(s)
    <3>1. SlotsHoldRuns'
      BY <1>a, <2>6 DEF Settle, SlotsHoldRuns, TypeOK
    <3> QED
      BY <1>a, <2>3, <2>5, <2>6, <3>1, OwnershipKept
         DEF Settle, TypeOK, ExecutorOwnsRow, DoneAfterCommit, Busy, Owns
  <2>7. CASE Repend(s)
    <3>1. SlotsHoldRuns'
      BY <1>a, <2>7 DEF Repend, SlotsHoldRuns, TypeOK
    <3> QED
      BY <1>a, <2>4, <2>5, <2>7, <3>1, OwnershipKept
         DEF Repend, TypeOK, ExecutorOwnsRow, DoneAfterCommit, Busy, Owns
  <2>8. CASE SettleFails(s)
    <3>1. pc[s] = "settling" /\ Released({s})
      BY <2>8 DEF SettleFails
    <3>2. InsertsAreNew' /\ \A r \in Runs \ {job[s]} : row'[r] \in {row[r], "deleted"}
      BY <1>b, <2>3, <2>4, <2>8 DEF SettleFails
    <3> QED
      BY <2>5, <3>1, <3>2, ReleaseKeeps
  <2>9. CASE MarkDone(s)
    <3>1. SlotsHoldRuns'
      BY <1>a, <2>9 DEF MarkDone, SlotsHoldRuns, TypeOK
    <3> QED
      BY <1>a, <1>b, <2>9, <3>1, OwnershipKept
         DEF MarkDone, TypeOK, ExecutorOwnsRow, DoneAfterCommit, Busy, Owns
  <2>10. CASE MarkDoneFails(s) \/ Leave(s)
    BY <1>b, <2>10, ReleaseKeeps DEF MarkDoneFails, Leave
  <2> QED
    BY <1>8, <2>1, <2>2, <2>6, <2>7, <2>8, <2>9, <2>10 DEF Worker
<1>9. ASSUME NEW c \in Cancellers, Cancel(c)
      PROVE  Ownership'
  <2>1. CASE CancelWrites(c)
    <3>1. InsertsAreNew'
      BY <1>a, <2>1 DEF CancelWrites, InsertsAreNew, TypeOK
    <3>2. \A r \in Runs : row[r] # "pending" => row'[r] = row[r]
      BY <1>a, <2>1 DEF CancelWrites, TypeOK
    <3>3. "pending" \notin Final \cup {"running", "deleted"}
      BY DEF Final
    <3> QED
      BY <2>1, <3>1, <3>2, <3>3, RowsMove DEF CancelWrites
  <2>2. CASE ~CancelWrites(c)
    <3>1. UNCHANGED <<row, create, pc, job, outcome, enter>>
      BY <1>9, <2>2 DEF Cancel, CancelByIds, CancelByStatus, CancelSets, CancelPublishes,
         CancelAborts
    <3> QED
      BY <1>b, <3>1, RowsMove
  <2> QED
    BY <2>1, <2>2
<1>10. CASE Environment
  <2>1. ASSUME NEW r \in Runs, ControlExpires(r) \/ AttemptExpires(r)
        PROVE  Ownership'
    BY <1>b, <2>1, RowsMove DEF ControlExpires, AttemptExpires
  <2>2. ASSUME NEW p \in Procs, FetchFails(p) \/ Crash(p) \/ Drain(p)
        PROVE  Ownership'
    <3>1. \E S \in SUBSET Slots : Released(S)
      BY <2>2 DEF FetchFails, Crash, Drain, SlotsOf
    <3>2. UNCHANGED <<row, create>>
      BY <2>2 DEF FetchFails, Crash, Drain
    <3> QED
      BY <1>b, <3>1, <3>2, ReleaseKeeps
  <2>3. ASSUME NEW p \in Procs, Exit(p) \/ Start(p)
        PROVE  Ownership'
    BY <1>b, <2>3, RowsMove DEF Exit, Start
  <2> QED
    BY <1>10, <2>1, <2>2, <2>3 DEF Environment
<1> QED
  BY <1>1, <1>2, <1>3, <1>4, <1>5, <1>6, <1>7, <1>8, <1>9, <1>10 DEF Next, Api, Queue

-----------------------------------------------------------------------------

\* The inductive invariant holds throughout.
THEOREM Invariance == Spec => []IInv
<1>1. IInv /\ [Next]_vars => IInv'
  BY TypeStep, OwnershipStep DEF IInv, Ownership
<1> QED
  BY InitInvariant, <1>1, PTL DEF Spec

\* The variables keep their types (rows, counters, slots, streams, calls).
THEOREM TypeCorrect == Spec => []TypeOK
BY Invariance, PTL DEF IInv

\* Runs.Next hands a run to one worker task at a time, under every fault.
THEOREM OneExecutorHolds == Spec => []OneExecutor
BY Invariance, PTL DEF IInv, Ownership

\* Nobody else moves the row of a run a worker task answers for.
THEOREM ExecutorOwnsRowHolds == Spec => []ExecutorOwnsRow
BY Invariance, PTL DEF IInv, Ownership

\* The done event of a run is published only after its outcome is committed.
THEOREM DoneAfterCommitHolds == Spec => []DoneAfterCommit
BY Invariance, PTL DEF IInv, Ownership

\* A step of a state that satisfies the invariant overwrites no outcome.
LEMMA FinalStep ==
  IInv /\ [Next]_vars =>
    \A r \in Runs : row[r] \in Final \cup {"deleted"} => row'[r] \in {row[r], "deleted"}
<1> SUFFICES ASSUME IInv, [Next]_vars, NEW r \in Runs, row[r] \in Final \cup {"deleted"}
             PROVE  row'[r] \in {row[r], "deleted"}
  OBVIOUS
<1> USE DEF rowVars
<1>a. TypeOK /\ SlotsHoldRuns /\ InsertsAreNew /\ ExecutorOwnsRow
  BY DEF IInv, Ownership
<1>b. row[r] \notin {"absent", "pending", "running"}
  BY DEF Final
<1>1. CASE UNCHANGED vars
  BY <1>1 DEF vars
<1>2. CASE Api
  <2>1. ASSUME NEW q \in Runs, CreateCommits(q)
        PROVE  row'[r] = row[r]
    <3>1. row[q] = "absent"
      BY <2>1, <1>a DEF CreateCommits, InsertsAreNew
    <3> QED
      BY <2>1, <3>1, <1>a, <1>b DEF CreateCommits, TypeOK
  <2> QED
    BY <1>a, <1>2, <2>1 DEF Api, CreateThread, DeleteThread, WithoutThread, CreateReads,
       CreateConflicts, BecomesDue, DeleteRun, TypeOK
<1>3. ASSUME NEW p \in Procs, NextClaims(p) \/ NextParks(p) \/ NextWakes(p)
      PROVE  row'[r] = row[r]
  <2>1. ASSUME NEW limit, Claim(p, limit)
        PROVE  row'[r] = row[r]
    <3>1. PICK take \in SUBSET FreeSlots(p) :
            \E pick \in [take -> Claimable], blind, lost \in SUBSET take :
              Assign(take, pick, blind, lost)
      BY <2>1 DEF Claim
    <3>2. PICK pick \in [take -> Claimable], blind, lost \in SUBSET take :
           Assign(take, pick, blind, lost)
      BY <3>1
    <3>3. \A s \in take : pick[s] # r
      BY <3>2, <1>b DEF Claimable
    <3> QED
      BY <3>2, <3>3 DEF Assign
  <2> QED
    BY <1>3, <2>1 DEF NextClaims, NextParks, NextWakes
<1>4. ASSUME NEW s \in Slots, Stream(s)
      PROVE  row'[r] = row[r]
  BY <1>4 DEF Stream, Subscribe, ReadKey, Deliver, ListenerFails
<1>5. ASSUME NEW s \in Slots, Worker(s)
      PROVE  row'[r] \in {row[r], "deleted"}
  <2>1. pc[s] = "settling" => job[s] # r \/ row[r] = "deleted"
    BY <1>a, <1>b DEF ExecutorOwnsRow, Owns
  <2>2. ASSUME NEW v, pc[s] = "settling", row' = Written(job[s], v)
        PROVE  row'[r] = row[r]
    BY <2>1, <2>2, <1>a DEF Written, TypeOK
  <2>3. ASSUME pc[s] = "settling", EndsRun(s)
        PROVE  row'[r] \in {row[r], "deleted"}
    BY <2>2, <2>3 DEF EndsRun, WithoutThread
  <2> QED
    BY <1>5, <2>2, <2>3 DEF Worker, Spawn, GraphEnds, Settle, Repend, SettleFails, MarkDone,
       MarkDoneFails, Leave
<1>6. ASSUME NEW c \in Cancellers, Cancel(c)
      PROVE  row'[r] = row[r]
  BY <1>b, <1>6 DEF Cancel, CancelByIds, CancelByStatus, CancelSets, CancelPublishes,
     CancelWrites, CancelAborts
<1>7. CASE Environment
  BY <1>7 DEF Environment, ControlExpires, AttemptExpires, FetchFails, Crash, Drain, Exit, Start
<1> QED
  BY <1>1, <1>2, <1>3, <1>4, <1>5, <1>6, <1>7 DEF Next, Queue

\* No outcome is overwritten: not by a late cancel, an unconditional re-queue,
\* or a second worker.
THEOREM TerminalIsFinalHolds == Spec => TerminalIsFinal
<1>1. IInv /\ [Next]_vars =>
        [\A r \in Runs : row[r] \in Final \cup {"deleted"} => row'[r] \in {row[r], "deleted"}]_vars
  BY FinalStep
<1> QED
  BY Invariance, <1>1, PTL DEF Spec, TerminalIsFinal

-----------------------------------------------------------------------------
(* No run is orphaned *)

\* What the transaction that ends a run leaves behind.
LEMMA EndEffect ==
  ASSUME IInv, NEW s \in Slots, pc[s] = "settling", ~Retriable(s), EndsRun(s)
  PROVE  /\ job[s] \in Runs
         /\ row'[job[s]] \in Final \cup {"deleted"}
         /\ \A r \in Runs : /\ r # job[s] => row'[r] \in {row[r], "deleted"}
                            /\ row[r] \in {"absent", "deleted"} => row'[r] = row[r]
<1>1. /\ job[s] \in Runs /\ row[job[s]] \in {"running", "deleted"} /\ row \in [Runs -> RowStates]
      /\ outcome[s] \in {"success", "error", "timeout", "interrupted", "rollback"}
  BY DEF IInv, TypeOK, Ownership, SlotsHoldRuns, ExecutorOwnsRow, Owns, Retriable, Outcomes
<1>2. CASE job[s] \in Temporary
  BY <1>1, <1>2 DEF EndsRun, WithoutThread, Final
<1>3. CASE job[s] \notin Temporary
  BY <1>1, <1>3 DEF EndsRun, Written, Final
<1> QED
  BY <1>2, <1>3

\* What NoOrphans says where no call fails and no process ends.
Held == \A r \in Runs : row[r] = "running" => \E s \in Slots : Owns(s) /\ job[s] = r

\* A step that makes no run running keeps it, if a slot that gives a run up leaves the row
\* in another state.
LEMMA HeldKept ==
  ASSUME Held,
         \A r \in Runs : row'[r] = "running" => row[r] = "running",
         \A s \in Slots : Owns(s) => \/ Owns(s)' /\ job'[s] = job[s]
                                     \/ row'[job[s]] # "running"
  PROVE  Held'
BY DEF Held

LEMMA HeldStep ==
  ASSUME Faults \cap {"rpc", "crash", "drain"} = {}, IInv, Held, [Next]_vars
  PROVE  Held'
<1> USE DEF rowVars, slotVars
<1>a. TypeOK /\ SlotsHoldRuns /\ InsertsAreNew /\ ExecutorOwnsRow
  BY DEF IInv, Ownership
<1>b. ASSUME UNCHANGED <<pc, job>>, \A r \in Runs : row'[r] = "running" => row[r] = "running"
      PROVE  Held'
  BY <1>b, HeldKept DEF Owns
<1>c. ASSUME UNCHANGED row,
             \A s \in Slots : Owns(s) => Owns(s)' /\ job'[s] = job[s]
      PROVE  Held'
  BY <1>c, HeldKept
<1>1. CASE UNCHANGED vars
  BY <1>1, <1>b DEF vars
<1>2. ASSUME NEW t \in Threads, CreateThread(t) \/ DeleteThread(t)
      PROVE  Held'
  BY <1>2, <1>b DEF CreateThread, DeleteThread, WithoutThread
<1>3. ASSUME NEW r \in Runs, NEW strategy \in Strategies, CreateReads(r, strategy)
      PROVE  Held'
  BY <1>3, <1>b DEF CreateReads
<1>4. ASSUME NEW r \in Runs,
             CreateCommits(r) \/ CreateConflicts(r) \/ BecomesDue(r) \/ DeleteRun(r)
      PROVE  Held'
  BY <1>a, <1>4, <1>b DEF CreateCommits, CreateConflicts, BecomesDue, DeleteRun, TypeOK
<1>5. ASSUME NEW p \in Procs, NextClaims(p) \/ NextParks(p) \/ NextWakes(p)
      PROVE  Held'
  <2>1. ASSUME NEW limit, Claim(p, limit)
        PROVE  Held'
    <3>1. PICK take \in SUBSET FreeSlots(p) :
            \E pick \in [take -> Claimable], blind, lost \in SUBSET take :
              Assign(take, pick, blind, lost)
      BY <2>1 DEF Claim
    <3>2. PICK pick \in [take -> Claimable], blind, lost \in SUBSET take :
           Assign(take, pick, blind, lost)
      BY <3>1
    <3>3. take \subseteq Slots /\ \A s \in take : pc[s] = "idle"
      BY DEF FreeSlots, SlotsOf
    <3>4. \A s \in Slots : /\ s \in take => Owns(s)' /\ job'[s] = pick[s]
                           /\ Owns(s) => Owns(s)' /\ job'[s] = job[s]
      BY <3>2, <3>3 DEF Assign, Owns
    <3>5. \A r \in Runs : row'[r] = row[r] \/ \E s \in take : pick[s] = r
      BY <3>2 DEF Assign
    <3> QED
      BY <3>3, <3>4, <3>5 DEF Held
  <2> QED
    BY <1>5, <1>b, <2>1 DEF NextClaims, NextParks, NextWakes
<1>6. ASSUME NEW s \in Slots, Stream(s)
      PROVE  Held'
  BY <1>6, <1>b DEF Stream, Subscribe, ReadKey, Deliver, ListenerFails
<1>7. ASSUME NEW s \in Slots, Worker(s)
      PROVE  Held'
  <2>1. ASSUME NEW S \in SUBSET Slots, Released(S), UNCHANGED row, \A q \in S : ~Owns(q)
        PROVE  Held'
    BY <2>1, <1>c DEF Released, Owns
  <2>2. CASE Spawn(s) \/ \E o \in Outcomes : GraphEnds(s, o)
    BY <1>a, <2>2, <1>c DEF Spawn, GraphEnds, Owns, TypeOK
  <2>3. CASE Settle(s) \/ Repend(s)
    <3>1. /\ row'[job[s]] # "running"
          /\ \A r \in Runs : row'[r] = "running" => row[r] = "running"
      <4>1. CASE Settle(s)
        BY <4>1, EndEffect DEF Settle, Final
      <4>2. CASE Repend(s)
        BY <1>a, <4>2 DEF Repend, Written, TypeOK, SlotsHoldRuns
      <4> QED
        BY <2>3, <4>1, <4>2
    <3>2. \A q \in Slots : q # s => (Owns(q) => Owns(q)' /\ job'[q] = job[q])
      BY <1>a, <2>3 DEF Settle, Repend, Owns, TypeOK
    <3> QED
      BY <3>1, <3>2, HeldKept
  <2>4. CASE SettleFails(s)
    <3>1. pc[s] = "settling" /\ ~Retriable(s) /\ EndsRun(s) /\ Released({s})
      BY <2>4 DEF SettleFails
    <3>2. /\ row'[job[s]] # "running"
          /\ \A r \in Runs : row'[r] = "running" => row[r] = "running"
      BY <3>1, EndEffect DEF Final
    <3>3. \A q \in Slots : q # s => (Owns(q) => Owns(q)' /\ job'[q] = job[q])
      BY <3>1 DEF Released, Owns
    <3> QED
      BY <3>1, <3>2, <3>3, HeldKept
  <2>5. CASE MarkDone(s)
    BY <1>a, <2>5, <1>c DEF MarkDone, Owns, TypeOK
  <2>6. CASE MarkDoneFails(s) \/ Leave(s)
    BY <2>1, <2>6 DEF MarkDoneFails, Leave, Owns
  <2> QED
    BY <1>7, <2>2, <2>3, <2>4, <2>5, <2>6 DEF Worker
<1>8. ASSUME NEW c \in Cancellers, Cancel(c)
      PROVE  Held'
  BY <1>8, <1>b DEF Cancel, CancelByIds, CancelByStatus, CancelSets, CancelPublishes,
     CancelWrites, CancelAborts
<1>9. CASE Environment
  BY <1>9, <1>b DEF Environment, ControlExpires, AttemptExpires, FetchFails, Crash, Drain,
     Exit, Start
<1> QED
  BY <1>1, <1>2, <1>3, <1>4, <1>5, <1>6, <1>7, <1>8, <1>9 DEF Next, Api, Queue

\* The inductive invariant of NoOrphans, beside IInv.
HeldIfQuiet == Faults \cap {"rpc", "crash", "drain"} = {} => Held

\* Where no call fails and no process ends, every running row has a task: a claim that is
\* handed out is worked on until the row says something else.
THEOREM NoOrphansHolds == Spec => []NoOrphans
<1>1. Init => HeldIfQuiet
  BY ConstantsAssumption DEF Init, HeldIfQuiet, Held
<1>2. IInv /\ HeldIfQuiet /\ [Next]_vars => HeldIfQuiet'
  BY HeldStep DEF HeldIfQuiet
<1>3. HeldIfQuiet => NoOrphans
  BY DEF HeldIfQuiet, Held, NoOrphans
<1> QED
  BY <1>1, <1>2, <1>3, Invariance, PTL DEF Spec

-----------------------------------------------------------------------------
(* No cancellation is lost *)

Told(s) == inbox[s] # "none" \/ signal[s] # "none"

Publishing(r) == \E c \in Cancellers : cancel[c].step = "publish" /\ cancel[c].at = r

\* A stream that is closed has passed its signal on, and one that listens while a key is
\* set has heard the message, unless the call that set the key is still to publish it.
Heard(s) ==
  /\ enter[s] = "closed" => Told(s)
  /\ enter[s] = "listening" /\ control[job[s]] # "none" => Told(s) \/ Publishing(job[s])

\* ... if neither Redis nor a call fails and no cancellation is given up half way.
Signalled == Faults \cap {"redis", "rpc", "abort"} = {} => \A s \in Slots : Heard(s)

\* A publication is over when its message has reached every stream that listens.
LEMMA PublishReaches ==
  ASSUME IInv, NEW c \in Cancellers, CancelPublishes(c), "redis" \notin Faults,
         NEW s \in Slots
  PROVE  /\ Told(s) => Told(s)'
         /\ enter[s] = "listening" /\ job[s] = cancel[c].at => Told(s)'
<1>1. cancel[c].action \in Signals /\ inbox \in [Slots -> Signals \cup {"none"}]
  BY DEF IInv, TypeOK, CancelRecords
<1>2. inbox' = [q \in Slots |-> IF Hears(q, cancel[c].at) THEN cancel[c].action ELSE inbox[q]]
  BY DEF CancelPublishes
<1>3. signal' = signal
  BY DEF CancelPublishes
<1> QED
  BY <1>1, <1>2, <1>3 DEF Told, Hears, Signals

LEMMA SignalledStep ==
  ASSUME IInv, Signalled, [Next]_vars
  PROVE  Signalled'
<1> USE DEF rowVars, redisVars, slotVars, enterVars, procVars
<1> SUFFICES ASSUME Faults \cap {"redis", "rpc", "abort"} = {}, NEW s \in Slots
             PROVE  Heard(s)'
  BY DEF Signalled
<1>a. TypeOK /\ SlotsHoldRuns /\ Heard(s)
  BY DEF IInv, Ownership, Signalled
<1>b. ASSUME enter'[s] = enter[s], job'[s] = job[s], Told(s) => Told(s)',
             control'[job[s]] = control[job[s]] \/ control'[job[s]] = "none",
             Publishing(job[s]) => Publishing(job[s])'
      PROVE  Heard(s)'
  BY <1>a, <1>b DEF Heard, Publishing
<1>c. ASSUME enter'[s] \notin {"closed", "listening"}
      PROVE  Heard(s)'
  BY <1>c DEF Heard
<1>d. ASSUME UNCHANGED <<enterVars, control, cancel>>, enter'[s] = "off" \/ job'[s] = job[s]
      PROVE  Heard(s)'
  BY <1>b, <1>c, <1>d DEF Told, Publishing
<1>e. ASSUME NEW S \in SUBSET Slots, Released(S), UNCHANGED <<control, cancel>>
      PROVE  Heard(s)'
  BY <1>b, <1>c, <1>e DEF Released, Told, Publishing
<1>1. CASE UNCHANGED vars
  BY <1>1, <1>d DEF vars
<1>2. CASE \/ \E t \in Threads : CreateThread(t) \/ DeleteThread(t)
           \/ \E r \in Runs : \/ \E strategy \in Strategies : CreateReads(r, strategy)
                              \/ CreateConflicts(r) \/ BecomesDue(r) \/ DeleteRun(r)
  BY <1>2, <1>d DEF CreateThread, DeleteThread, CreateReads, CreateConflicts, BecomesDue,
     DeleteRun
<1>3. ASSUME NEW r \in Runs, CreateCommits(r)
      PROVE  Heard(s)'
  <2>1. UNCHANGED <<slotVars, enterVars, control>>
    BY <1>3 DEF CreateCommits
  <2>2. Publishing(job[s]) => Publishing(job[s])'
    BY <1>a, <1>3 DEF CreateCommits, CancelInflight, Publishing, TypeOK
  <2> QED
    BY <1>b, <2>1, <2>2 DEF Told
<1>4. ASSUME NEW p \in Procs, NextClaims(p) \/ NextParks(p) \/ NextWakes(p)
      PROVE  Heard(s)'
  <2>1. ASSUME NEW limit, Claim(p, limit)
        PROVE  Heard(s)'
    <3>1. PICK take \in SUBSET FreeSlots(p) :
            \E pick \in [take -> Claimable], blind, lost \in SUBSET take :
              Assign(take, pick, blind, lost)
      BY <2>1 DEF Claim
    <3>2. PICK pick \in [take -> Claimable], blind, lost \in SUBSET take :
           Assign(take, pick, blind, lost)
      BY <3>1
    <3>3. s \in take => enter[s] = "off"
      BY <1>a DEF FreeSlots, SlotsOf, SlotsHoldRuns
    <3> QED
      BY <3>2, <3>3, <1>b, <1>c DEF Assign, Told, Publishing
  <2> QED
    BY <1>4, <1>d, <2>1 DEF NextClaims, NextParks, NextWakes
<1>5. ASSUME NEW q \in Slots, Stream(q)
      PROVE  Heard(s)'
  <2>1. CASE q # s
    <3>1. /\ enter'[s] = enter[s] /\ inbox'[s] = inbox[s] /\ signal'[s] = signal[s]
          /\ UNCHANGED <<slotVars, control, cancel>>
      BY <1>a, <1>5, <2>1 DEF Stream, Subscribe, ReadKey, Deliver, ListenerFails, TypeOK
    <3> QED
      BY <1>b, <3>1 DEF Told, Publishing
  <2>2. CASE q = s
    <3>1. CASE Subscribe(s)
      BY <1>a, <1>c, <3>1 DEF Subscribe, TypeOK
    <3>2. CASE ReadKey(s)
      BY <1>a, <3>2 DEF ReadKey, TypeOK, Heard, Told
    <3>3. CASE Deliver(s)
      BY <1>a, <3>3 DEF Deliver, TypeOK, Heard, Told
    <3>4. ~ListenerFails(s)
      BY DEF ListenerFails
    <3> QED
      BY <1>5, <2>2, <3>1, <3>2, <3>3, <3>4 DEF Stream
  <2> QED
    BY <2>1, <2>2
<1>6. ASSUME NEW q \in Slots, Worker(q)
      PROVE  Heard(s)'
  <2>1. CASE Spawn(q)
    BY <1>a, <1>b, <1>c, <2>1 DEF Spawn, TypeOK, Told, Publishing
  <2>2. ASSUME NEW o \in Outcomes, GraphEnds(q, o)
        PROVE  Heard(s)'
    BY <1>a, <1>b, <1>c, <2>2 DEF GraphEnds, TypeOK, Told, Publishing
  <2>3. CASE Settle(q) \/ Repend(q) \/ MarkDone(q)
    BY <1>d, <2>3 DEF Settle, Repend, MarkDone
  <2>4. CASE SettleFails(q) \/ MarkDoneFails(q) \/ Leave(q)
    BY <1>e, <2>4 DEF SettleFails, MarkDoneFails, Leave
  <2> QED
    BY <1>6, <2>1, <2>2, <2>3, <2>4 DEF Worker
<1>7. ASSUME NEW c \in Cancellers, Cancel(c)
      PROVE  Heard(s)'
  <2>1. ASSUME cancel[c].step # "publish",
               \A d \in Cancellers : d # c => cancel'[d] = cancel[d],
               UNCHANGED <<slotVars, enterVars, control>>
        PROVE  Heard(s)'
    BY <1>b, <2>1 DEF Told, Publishing
  <2>2. CASE \/ \E r \in Runs, a \in Signals : CancelByIds(c, r, a)
             \/ \E a \in Signals, w \in {{"pending"}, {"running"}, Active} :
                  CancelByStatus(c, w, a)
             \/ CancelWrites(c)
    <3>1. ASSUME NEW r \in Runs, NEW a \in Signals, CancelByIds(c, r, a)
          PROVE  Heard(s)'
      BY <1>a, <2>1, <3>1 DEF CancelByIds, TypeOK
    <3>2. ASSUME NEW a \in Signals, NEW w, CancelByStatus(c, w, a)
          PROVE  Heard(s)'
      BY <1>a, <2>1, <3>2 DEF CancelByStatus, TypeOK
    <3>3. CASE CancelWrites(c)
      BY <1>a, <2>1, <3>3 DEF CancelWrites, TypeOK
    <3> QED
      BY <2>2, <3>1, <3>2, <3>3
  <2>3. ASSUME NEW r \in Runs, CancelSets(c, r)
        PROVE  Heard(s)'
    <3>1. /\ control' = [control EXCEPT ![r] = cancel[c].action]
          /\ cancel' = [cancel EXCEPT ![c].step = "publish", ![c].at = r]
          /\ cancel[c].step = "set" /\ UNCHANGED <<slotVars, enterVars>>
      BY <2>3 DEF CancelSets
    <3>2. cancel'[c].step = "publish" /\ cancel'[c].at = r
      BY <1>a, <3>1 DEF TypeOK, CancelRecords
    <3>3. \A d \in Cancellers : d # c => cancel'[d] = cancel[d]
      BY <1>a, <3>1 DEF TypeOK
    <3>4. CASE job[s] = r
      BY <1>a, <3>1, <3>2, <3>4 DEF Heard, Told, Publishing
    <3>5. CASE job[s] # r
      BY <1>a, <1>b, <3>1, <3>3, <3>5 DEF Told, Publishing, TypeOK
    <3> QED
      BY <3>4, <3>5
  <2>4. CASE CancelPublishes(c)
    <3>1. /\ \A d \in Cancellers : d # c => cancel'[d] = cancel[d]
          /\ UNCHANGED <<slotVars, enter, control>>
      BY <1>a, <2>4 DEF CancelPublishes, TypeOK
    <3>2. Told(s) => Told(s)'
      BY <2>4, PublishReaches
    <3>3. enter[s] = "listening" /\ job[s] = cancel[c].at => Told(s)'
      BY <2>4, PublishReaches
    <3>4. Publishing(job[s]) => job[s] = cancel[c].at \/ Publishing(job[s])'
      BY <3>1 DEF Publishing
    <3> QED
      BY <1>a, <3>1, <3>2, <3>3, <3>4 DEF Heard
  <2>5. ~CancelAborts(c)
    BY DEF CancelAborts
  <2> QED
    BY <1>7, <2>2, <2>3, <2>4, <2>5 DEF Cancel
<1>8. CASE Environment
  <2>1. ASSUME NEW r \in Runs, ControlExpires(r) \/ AttemptExpires(r)
        PROVE  Heard(s)'
    <3>1. UNCHANGED <<slotVars, enterVars, cancel>>
      BY <2>1 DEF ControlExpires, AttemptExpires
    <3>2. CASE job[s] \in Runs
      <4>1. control'[job[s]] = control[job[s]] \/ control'[job[s]] = "none"
        <5>1. control' = control \/ control' = [control EXCEPT ![r] = "none"]
          BY <2>1 DEF ControlExpires, AttemptExpires
        <5>2. control \in [Runs -> {"none"} \cup Signals]
          BY <1>a DEF TypeOK
        <5> QED
          BY <3>2, <5>1, <5>2
      <4> QED
        BY <1>b, <3>1, <4>1 DEF Told, Publishing
    <3>3. CASE job[s] \notin Runs
      BY <1>a, <1>c, <3>1, <3>3 DEF SlotsHoldRuns
    <3> QED
      BY <3>2, <3>3
  <2>2. ASSUME NEW p \in Procs, FetchFails(p) \/ Crash(p) \/ Drain(p) \/ Exit(p) \/ Start(p)
        PROVE  Heard(s)'
    BY <1>d, <1>e, <2>2 DEF FetchFails, Crash, Drain, Exit, Start, SlotsOf
  <2> QED
    BY <1>8, <2>1, <2>2 DEF Environment
<1> QED
  BY <1>1, <1>2, <1>3, <1>4, <1>5, <1>6, <1>7, <1>8 DEF Next, Api, Queue

\* Where Redis and calls do not fail and no cancellation is given up, a signal that is set
\* and published has reached the task that executes the run, whichever of the two came
\* first: the stream that subscribes, or the call that sets the key.
THEOREM NoLostCancelHolds == Spec => []NoLostCancel
<1>1. Init => Signalled
  BY DEF Init, Signalled, Heard
<1>2. IInv /\ Signalled /\ [Next]_vars => Signalled'
  BY SignalledStep
<1>3. Signalled => NoLostCancel
  BY DEF Signalled, Heard, Told, Publishing, NoLostCancel
<1> QED
  BY <1>1, <1>2, <1>3, Invariance, PTL DEF Spec

-----------------------------------------------------------------------------
(* The run queue implements RunLifecycle: every step of the queue is, for each
   run, one step of its life or none. *)

\* The executors of a run, and their set before and after a step.
HoldersOf(r) == {s \in Slots : Owns(s) /\ job[s] = r}

LEMMA HoldersAre == ASSUME NEW r \in Runs
                    PROVE  Holders[r] = HoldersOf(r) /\ Holders'[r] = HoldersOf(r)'
BY DEF Holders, HoldersOf

\* A slot that answers for a run is its only executor, and the row is running
\* or deleted; a pending run has none.
LEMMA HolderAlone ==
  ASSUME IInv, NEW r \in Runs
  PROVE  /\ \A s \in Slots : Owns(s) /\ job[s] = r =>
              HoldersOf(r) = {s} /\ row[r] \in {"running", "deleted"}
         /\ row[r] = "pending" => HoldersOf(r) = {}
BY DEF IInv, Ownership, OneExecutor, ExecutorOwnsRow, HoldersOf, Owns, Busy

\* Expanded form of a lifecycle step.
LEMMA LivesIs ==
  ASSUME NEW r \in Runs,
         \/ row'[r] = row[r] /\ HoldersOf(r)' \in {HoldersOf(r), {}}
         \/ row[r] = "absent" /\ row'[r] = "pending" /\ HoldersOf(r)' = HoldersOf(r)
         \/ row[r] = "pending" /\ row'[r] = "running" /\ HoldersOf(r) = {}
              /\ \E s \in Slots : HoldersOf(r)' = {s}
         \/ row[r] = "running" /\ row'[r] \in Final \cup {"pending"}
              /\ HoldersOf(r)' = {} /\ \E s \in Slots : HoldersOf(r) = {s}
         \/ row[r] = "pending" /\ row'[r] = "interrupted"
              /\ HoldersOf(r) = {} /\ HoldersOf(r)' = {}
         \/ row[r] # "absent" /\ row'[r] = "deleted" /\ HoldersOf(r)' \subseteq HoldersOf(r)
  PROVE  Lifecycle!Lives(r)
BY HoldersAre DEF Lifecycle!Lives, Lifecycle!Submitted, Lifecycle!Claimed, Lifecycle!Ended,
   Lifecycle!Retried, Lifecycle!Withdrawn, Lifecycle!Deleted, Lifecycle!Dropped,
   Lifecycle!Final, Final

\* A step that leaves the slots alone and moves rows like an API call does.
LEMMA SlotsAlone ==
  ASSUME IInv, UNCHANGED <<pc, job>>, NEW r \in Runs,
         \/ row'[r] = row[r]
         \/ row[r] = "absent" /\ row'[r] = "pending"
         \/ row[r] = "pending" /\ row'[r] = "interrupted"
         \/ row[r] # "absent" /\ row'[r] = "deleted"
  PROVE  Lifecycle!Lives(r)
<1>1. HoldersOf(r)' = HoldersOf(r)
  BY DEF HoldersOf, Owns
<1> QED
  BY <1>1, HolderAlone, LivesIs

\* Slots that are released give their runs up.
LEMMA ReleasedLives ==
  ASSUME IInv, NEW S \in SUBSET Slots, Released(S), NEW r \in Runs, row'[r] = row[r]
  PROVE  Lifecycle!Lives(r)
<1>1. \A s \in Slots : (Owns(s) /\ job[s] = r)' <=> (Owns(s) /\ job[s] = r /\ s \notin S)
  BY DEF Released, Owns, IInv, TypeOK
<1>2. HoldersOf(r)' \in {HoldersOf(r), {}}
  <2>1. CASE HoldersOf(r) = {}
    BY <1>1, <2>1 DEF HoldersOf
  <2>2. CASE \E s \in Slots : Owns(s) /\ job[s] = r
    BY <1>1, <2>2, HolderAlone DEF HoldersOf
  <2> QED
    BY <2>1, <2>2 DEF HoldersOf
<1> QED
  BY <1>2, LivesIs

\* A claim starts the runs it takes and leaves the others.
LEMMA ClaimLives ==
  ASSUME IInv, NEW p \in Procs, NEW limit, Claim(p, limit), NEW r \in Runs
  PROVE  Lifecycle!Lives(r)
<1>1. PICK take \in SUBSET FreeSlots(p) :
        \E pick \in [take -> Claimable], blind, lost \in SUBSET take :
          /\ \A s1, s2 \in take : pick[s1] = pick[s2] => s1 = s2
          /\ Assign(take, pick, blind, lost)
  BY DEF Claim
<1>2. PICK pick \in [take -> Claimable], blind, lost \in SUBSET take :
        /\ \A s1, s2 \in take : pick[s1] = pick[s2] => s1 = s2
        /\ Assign(take, pick, blind, lost)
  BY <1>1
<1>3. take \subseteq Slots /\ \A s \in take : pc[s] = "idle"
  BY DEF FreeSlots, SlotsOf
<1>4. \A s \in take : row[pick[s]] = "pending"
  BY <1>2 DEF Claimable
<1>5. \A s \in Slots :
        (Owns(s) /\ job[s] = r)' <=> IF s \in take THEN pick[s] = r ELSE Owns(s) /\ job[s] = r
  BY <1>2, <1>3 DEF Assign, Owns
<1>6. CASE \E s \in take : pick[s] = r
  <2>1. PICK s \in take : pick[s] = r
    BY <1>6
  <2>2. row[r] = "pending" /\ row'[r] = "running" /\ HoldersOf(r) = {}
    BY <1>2, <1>4, <2>1, HolderAlone DEF Assign
  <2>3. HoldersOf(r)' = {s}
    BY <1>2, <1>3, <1>5, <2>1, <2>2 DEF HoldersOf
  <2> QED
    BY <1>3, <2>2, <2>3, LivesIs
<1>7. CASE ~ \E s \in take : pick[s] = r
  <2>1. row'[r] = row[r]
    BY <1>2, <1>7 DEF Assign
  <2>2. HoldersOf(r)' = HoldersOf(r)
    BY <1>3, <1>5, <1>7 DEF HoldersOf, Owns
  <2> QED
    BY <2>1, <2>2, LivesIs
<1> QED
  BY <1>6, <1>7

\* The write of an outcome, or of "pending", ends the executor's hold.
LEMMA WriteLives ==
  ASSUME IInv, NEW s \in Slots, pc[s] = "settling", NEW r \in Runs,
         ~Owns(s)',
         \A s2 \in Slots \ {s} : pc'[s2] = pc[s2] /\ job'[s2] = job[s2],
         \/ ~Retriable(s) /\ EndsRun(s)
         \/ row' = Written(job[s], "pending")
  PROVE  Lifecycle!Lives(r)
<1>1. Owns(s) /\ job[s] \in Runs /\ outcome[s] \in Outcomes /\ row \in [Runs -> RowStates]
  BY DEF Owns, IInv, TypeOK, Ownership, SlotsHoldRuns
<1>2. CASE job[s] = r
  <2>1. HoldersOf(r) = {s} /\ row[r] \in {"running", "deleted"}
    BY <1>1, <1>2, HolderAlone
  <2>2. HoldersOf(r)' = {}
    BY <1>1, <1>2, <2>1 DEF HoldersOf, Owns
  <2>3. ASSUME row' = WithoutThread(ThreadOf[r])
        PROVE  row'[r] = "deleted"
    <3>1. row'[r] = IF ThreadOf[r] = ThreadOf[r] /\ row[r] # "absent" THEN "deleted" ELSE row[r]
      BY <2>3 DEF WithoutThread
    <3> QED
      BY <2>1, <3>1
  <2>4. ASSUME NEW v, row' = Written(r, v)
        PROVE  row'[r] = IF row[r] = "deleted" THEN "deleted" ELSE v
    BY <1>1, <2>1, <2>4 DEF Written
  <2>5. ASSUME ~Retriable(s), EndsRun(s)
        PROVE  \/ row'[r] = "deleted"
               \/ row[r] = "running" /\ row'[r] \in Final
    <3>1. CASE row' = WithoutThread(ThreadOf[r])
      BY <3>1, <2>3
    <3>2. CASE row' = Written(r, IF outcome[s] = "rollback" THEN "deleted" ELSE outcome[s])
      BY <1>1, <2>1, <2>4, <2>5, <3>2 DEF Retriable, Outcomes, Final
    <3> QED
      BY <1>2, <2>5, <3>1, <3>2 DEF EndsRun
  <2>6. \/ row'[r] = "deleted"
        \/ row[r] = "running" /\ row'[r] \in Final \cup {"pending"}
    BY <1>2, <2>1, <2>4, <2>5
  <2> QED
    BY <2>1, <2>2, <2>6, LivesIs
<1>3. CASE job[s] # r
  <2>1. HoldersOf(r)' = HoldersOf(r)
    BY <1>3 DEF HoldersOf, Owns
  <2>2. row'[r] = row[r] \/ (row[r] # "absent" /\ row'[r] = "deleted")
    <3>1. ASSUME row' = WithoutThread(ThreadOf[job[s]])
          PROVE  row'[r] = row[r] \/ (row[r] # "absent" /\ row'[r] = "deleted")
      <4>1. row'[r] = IF ThreadOf[r] = ThreadOf[job[s]] /\ row[r] # "absent"
                      THEN "deleted" ELSE row[r]
        BY <3>1 DEF WithoutThread
      <4> QED
        BY <4>1
    <3>2. ASSUME NEW v, row' = Written(job[s], v)
          PROVE  row'[r] = row[r]
      BY <1>1, <1>3, <3>2 DEF Written
    <3>3. \/ row' = WithoutThread(ThreadOf[job[s]])
          \/ row' = Written(job[s], "pending")
          \/ row' = Written(job[s], IF outcome[s] = "rollback" THEN "deleted" ELSE outcome[s])
      BY DEF EndsRun
    <3>4. CASE row' = Written(job[s], "pending")
      BY <3>2, <3>4
    <3>5. CASE row' = Written(job[s], IF outcome[s] = "rollback" THEN "deleted" ELSE outcome[s])
      BY <3>2, <3>5
    <3> QED
      BY <3>1, <3>3, <3>4, <3>5
  <2> QED
    BY <2>1, <2>2, LivesIs
<1> QED
  BY <1>2, <1>3

-----------------------------------------------------------------------------

\* Every step of the queue is a step of every run's life.
LEMMA StepLives == IInv /\ [Next]_vars => \A r \in Runs : Lifecycle!Lives(r)
<1> SUFFICES ASSUME IInv, [Next]_vars, NEW r \in Runs PROVE Lifecycle!Lives(r)
  OBVIOUS
<1> USE DEF rowVars, redisVars, slotVars, enterVars, procVars
<1>a. /\ row \in [Runs -> RowStates]
      /\ pc \in [Slots -> Stages]
      /\ job \in [Slots -> Runs \cup {NoRun}]
  BY DEF IInv, TypeOK
<1>1. CASE UNCHANGED vars
  BY <1>1, SlotsAlone DEF vars
<1>2. ASSUME NEW t \in Threads, CreateThread(t) \/ DeleteThread(t)
      PROVE  Lifecycle!Lives(r)
  <2>1. row'[r] = row[r] \/ (row[r] # "absent" /\ row'[r] = "deleted")
    <3>1. CASE CreateThread(t)
      BY <3>1 DEF CreateThread
    <3>2. CASE DeleteThread(t)
      <4>1. row'[r] = IF ThreadOf[r] = t /\ row[r] # "absent" THEN "deleted" ELSE row[r]
        BY <3>2 DEF DeleteThread, WithoutThread
      <4> QED
        BY <4>1
    <3> QED
      BY <1>2, <3>1, <3>2
  <2> QED
    BY <1>2, <2>1, SlotsAlone DEF CreateThread, DeleteThread
<1>3. ASSUME NEW q \in Runs, NEW strategy \in Strategies, CreateReads(q, strategy)
      PROVE  Lifecycle!Lives(r)
  BY <1>3, SlotsAlone DEF CreateReads
<1>4. ASSUME NEW q \in Runs, CreateCommits(q)
      PROVE  Lifecycle!Lives(r)
  <2>1. row[q] = "absent"
    BY <1>4 DEF CreateCommits, IInv, Ownership, InsertsAreNew
  <2>2. row'[r] = IF r = q THEN "pending" ELSE row[r]
    BY <1>a, <1>4 DEF CreateCommits
  <2> QED
    BY <1>4, <2>1, <2>2, SlotsAlone DEF CreateCommits
<1>5. ASSUME NEW q \in Runs, CreateConflicts(q) \/ BecomesDue(q) \/ DeleteRun(q)
      PROVE  Lifecycle!Lives(r)
  <2>1. row'[r] = row[r] \/ (row[r] # "absent" /\ row'[r] = "deleted")
    <3>1. CASE CreateConflicts(q) \/ BecomesDue(q)
      BY <3>1 DEF CreateConflicts, BecomesDue
    <3>2. CASE DeleteRun(q)
      BY <1>a, <3>2 DEF DeleteRun
    <3> QED
      BY <1>5, <3>1, <3>2
  <2> QED
    BY <1>5, <2>1, SlotsAlone DEF CreateConflicts, BecomesDue, DeleteRun
<1>6. ASSUME NEW p \in Procs, NextClaims(p) \/ NextParks(p) \/ NextWakes(p)
      PROVE  Lifecycle!Lives(r)
  <2>1. CASE \E limit : Claim(p, limit)
    BY <2>1, ClaimLives
  <2>2. CASE ~ \E limit : Claim(p, limit)
    BY <1>6, <2>2, SlotsAlone DEF NextClaims, NextParks, NextWakes
  <2> QED
    BY <2>1, <2>2
<1>7. ASSUME NEW s \in Slots, Stream(s)
      PROVE  Lifecycle!Lives(r)
  BY <1>7, SlotsAlone DEF Stream, Subscribe, ReadKey, Deliver, ListenerFails
<1>8. ASSUME NEW s \in Slots, Worker(s)
      PROVE  Lifecycle!Lives(r)
  <2>1. ASSUME row' = row, job' = job,
               \A s2 \in Slots : Owns(s2)' <=> Owns(s2)
        PROVE  Lifecycle!Lives(r)
    <3>1. HoldersOf(r)' = HoldersOf(r)
      BY <2>1 DEF HoldersOf
    <3> QED
      BY <2>1, <3>1, LivesIs
  <2>2. CASE Spawn(s) \/ (\E o \in Outcomes : GraphEnds(s, o)) \/ MarkDone(s)
    BY <1>a, <2>1, <2>2 DEF Spawn, GraphEnds, MarkDone, Owns
  <2>3. CASE Settle(s) \/ Repend(s)
    BY <1>a, <2>3, WriteLives DEF Settle, Repend, Owns
  <2>4. CASE SettleFails(s)
    <3>1. CASE UNCHANGED rowVars
      BY <2>4, <3>1, ReleasedLives DEF SettleFails
    <3>2. CASE ~UNCHANGED rowVars
      <4>1. /\ pc[s] = "settling" /\ Released({s})
            /\ \/ ~Retriable(s) /\ EndsRun(s)
               \/ row' = Written(job[s], "pending")
        BY <2>4, <3>2 DEF SettleFails
      <4>2. ~Owns(s)' /\ \A s2 \in Slots \ {s} : pc'[s2] = pc[s2] /\ job'[s2] = job[s2]
        BY <4>1 DEF Released, Owns
      <4> QED
        BY <4>1, <4>2, WriteLives
    <3> QED
      BY <3>1, <3>2
  <2>5. CASE MarkDoneFails(s) \/ Leave(s)
    BY <2>5, ReleasedLives DEF MarkDoneFails, Leave
  <2> QED
    BY <1>8, <2>2, <2>3, <2>4, <2>5 DEF Worker
<1>9. ASSUME NEW c \in Cancellers, Cancel(c)
      PROVE  Lifecycle!Lives(r)
  <2>1. CASE CancelWrites(c)
    <3>1. row'[r] = IF r \in cancel[c].targets /\ row[r] = "pending"
                    THEN IF cancel[c].action = "rollback" THEN "deleted" ELSE "interrupted"
                    ELSE row[r]
      BY <2>1 DEF CancelWrites
    <3>2. UNCHANGED <<pc, job>>
      BY <2>1 DEF CancelWrites
    <3> QED
      BY <3>1, <3>2, SlotsAlone
  <2>2. CASE ~CancelWrites(c)
    BY <1>9, <2>2, SlotsAlone DEF Cancel, CancelByIds, CancelByStatus, CancelSets,
       CancelPublishes, CancelAborts
  <2> QED
    BY <2>1, <2>2
<1>10. CASE Environment
  <2>1. ASSUME NEW q \in Runs, ControlExpires(q) \/ AttemptExpires(q)
        PROVE  Lifecycle!Lives(r)
    BY <2>1, SlotsAlone DEF ControlExpires, AttemptExpires
  <2>2. ASSUME NEW p \in Procs, FetchFails(p) \/ Crash(p) \/ Drain(p)
        PROVE  Lifecycle!Lives(r)
    <3>1. row' = row /\ \E S \in SUBSET Slots : Released(S)
      BY <2>2 DEF FetchFails, Crash, Drain, SlotsOf
    <3> QED
      BY <3>1, ReleasedLives
  <2>3. ASSUME NEW p \in Procs, Exit(p) \/ Start(p)
        PROVE  Lifecycle!Lives(r)
    BY <2>3, SlotsAlone DEF Exit, Start
  <2> QED
    BY <1>10, <2>1, <2>2, <2>3 DEF Environment
<1> QED
  BY <1>1, <1>2, <1>3, <1>4, <1>5, <1>6, <1>7, <1>8, <1>9, <1>10 DEF Next, Api, Queue

\* The run queue implements the abstract life of a run.
THEOREM Refinement == Spec => ImplementsLifecycle
<1>1. Init => Lifecycle!Init
  BY DEF Init, Lifecycle!Init, Holders, Owns
<1>2. IInv /\ [Next]_vars => [Lifecycle!Next]_<<row, Holders>>
  BY StepLives DEF Lifecycle!Next
<1> QED
  BY Invariance, <1>1, <1>2, PTL DEF Spec, ImplementsLifecycle, Lifecycle!Spec
=============================================================================
