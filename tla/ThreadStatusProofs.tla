------------------------- MODULE ThreadStatusProofs -------------------------
(***************************************************************************)
(* The status of a thread agrees with its runs for every set of runs and   *)
(* of state updates, as far as the code lets it: ActiveIsBusy as long as   *)
(* creations do not overlap with settlings or with bulk updates, and       *)
(* StatusAgrees if settlings overlap with neither of those nor with each   *)
(* other.  Without these hypotheses both are false.  The argument: what a  *)
(* statement read of the thread can only have moved, by the time it        *)
(* commits, in the direction that does no harm.  A thread a creation saw   *)
(* busy still is; of runs a settling or a bulk update did not see none has *)
(* come; and an update that saw runs saw the thread busy and is going to   *)
(* write nothing.                                                          *)
(***************************************************************************)
EXTENDS ThreadStatus, TLAPS

\* The overlaps excluded.
CreationsApart == \A kind \in {"joint", "bulk"} : {"create", kind} \notin Overlap
SettlingsApart == \A kind \in {"joint", "bulk"} : {"joint", kind} \notin Overlap

BulkInFlight(u) == update[u].step = "derive" /\ update[u].bulk

\* What the hypotheses exclude is not in flight together.
NoCreation == \A r \in Runs : create[r] = "none"

CreateAlone ==
  /\ \A r \in Runs : joint[r] # NoJoint => NoCreation
  /\ \A u \in Updaters : BulkInFlight(u) => NoCreation

JointAlone ==
  /\ \A r, s \in Runs : joint[r] # NoJoint /\ joint[s] # NoJoint => r = s
  /\ \A r \in Runs, u \in Updaters : ~(joint[r] # NoJoint /\ BulkInFlight(u))

\* The snapshots against what is committed now: what ActiveIsBusy needs of them ...
CreateSaw == \A r \in Runs : create[r] = "busy" => status = "busy"

JointSaw ==
  \A r \in Runs :
    /\ joint[r].step = "none" => joint[r] = NoJoint
    /\ joint[r].step = "derive" /\ ~joint[r].active => ActiveRuns \subseteq {r}

UpdateSaw ==
  \A u \in Updaters :
    /\ BulkInFlight(u) /\ ~update[u].active => ActiveRuns = {}
    /\ update[u].step = "derive" /\ ~update[u].bulk /\ update[u].active
         => update[u].seen = "busy"

\* ... and what StatusAgrees needs: the runs that were seen are there, or were ended
\* from outside.
JointLeaves ==
  \A r \in Runs :
    joint[r].step = "derive" /\ joint[r].active => stale \/ ActiveRuns \ {r} # {}

BulkLeaves ==
  \A u \in Updaters : BulkInFlight(u) /\ update[u].active => stale \/ ActiveRuns # {}

Occupied == CreateAlone /\ CreateSaw /\ JointSaw /\ UpdateSaw /\ ActiveIsBusy
Derived == JointAlone /\ JointLeaves /\ BulkLeaves /\ StatusAgrees

LEMMA TypeInit == Init => TypeOK
<1>1. NoJoint \in [step : {"none", "derive"}, active : BOOLEAN]
  BY DEF NoJoint
<1>2. NoUpdate \in [step : {"none", "checked", "written", "derive"},
                    seen : ThreadStates \cup {"none"},
                    active : BOOLEAN, bulk : BOOLEAN]
  BY DEF NoUpdate
<1> SUFFICES ASSUME Init PROVE TypeOK
  OBVIOUS
<1>3. status \in ThreadStates /\ create \in [Runs -> ThreadStates \cup {"none"}]
  BY DEF Init, ThreadStates
<1>4. /\ joint \in [Runs -> [step : {"none", "derive"}, active : BOOLEAN]]
      /\ update \in [Updaters -> [step : {"none", "checked", "written", "derive"},
                                  seen : ThreadStates \cup {"none"},
                                  active : BOOLEAN, bulk : BOOLEAN]]
  BY <1>1, <1>2 DEF Init
<1>5. run \in [Runs -> {"absent", "ended"} \cup Active] /\ worker \subseteq Runs
  BY DEF Init
<1> QED
  BY <1>3, <1>4, <1>5 DEF Init, TypeOK

LEMMA TypeStep == TypeOK /\ [Next]_vars => TypeOK'
<1> SUFFICES ASSUME TypeOK, [Next]_vars PROVE TypeOK'
  OBVIOUS
<1> USE DEF TypeOK, ThreadStates, Active
<1>1. CASE UNCHANGED vars
  BY <1>1 DEF vars
<1>2. ASSUME NEW r \in Runs, CreateReads(r) \/ CreateCommits(r)
      PROVE  TypeOK'
  BY <1>2 DEF CreateReads, CreateCommits
<1>3. ASSUME NEW r \in Runs, Claim(r) \/ Repend(r) \/ CancelPending(r) \/ DeleteRun(r)
      PROVE  TypeOK'
  BY <1>3 DEF Claim, Repend, CancelPending, DeleteRun
<1>4. ASSUME NEW r \in Runs, JointDerives(r)
      PROVE  TypeOK'
  BY <1>4 DEF JointDerives
<1>5. ASSUME NEW r \in Runs, NEW base \in Bases, JointCommits(r, base)
      PROVE  TypeOK'
  BY <1>5 DEF JointCommits, Bases, NoJoint
<1>6. ASSUME NEW u \in Updaters,
             UpdateChecks(u) \/ BulkBegins(u) \/ UpdateWrites(u) \/ UpdateDerives(u)
      PROVE  TypeOK'
  <2>1. CASE UpdateChecks(u) \/ UpdateWrites(u)
    <3>1. PICK to \in {"checked", "written"} : update' = [update EXCEPT ![u].step = to]
      BY <2>1 DEF UpdateChecks, UpdateWrites
    <3> QED
      BY <2>1, <3>1 DEF UpdateChecks, UpdateWrites
  <2>2. CASE BulkBegins(u)
    BY <2>2 DEF BulkBegins, NoUpdate
  <2>3. CASE UpdateDerives(u)
    <3> DEFINE active == ActiveRuns # {}
    <3>1. /\ active \in BOOLEAN
          /\ update' = [update EXCEPT ![u] = [step |-> "derive", seen |-> status,
                                              active |-> active, bulk |-> update[u].bulk]]
          /\ UNCHANGED <<status, run, worker, create, joint, stale>>
      BY <2>3 DEF UpdateDerives
    <3> HIDE DEF active
    <3>2. update[u].bulk \in BOOLEAN
      OBVIOUS
    <3> QED
      BY <3>1, <3>2
  <2> QED
    BY <1>6, <2>1, <2>2, <2>3
<1>7. ASSUME NEW u \in Updaters, NEW base \in Bases, UpdateCommits(u, base)
      PROVE  TypeOK'
  BY <1>7 DEF UpdateCommits, Bases, NoUpdate
<1> QED
  BY <1>1, <1>2, <1>3, <1>4, <1>5, <1>6, <1>7 DEF Next

LEMMA InitOccupied == Init => Occupied /\ Derived
BY DEF Init, Occupied, Derived, CreateAlone, NoCreation, JointAlone, BulkInFlight,
       CreateSaw, JointSaw, UpdateSaw, JointLeaves, BulkLeaves, ActiveIsBusy,
       StatusAgrees, ActiveRuns, Active, NoJoint, NoUpdate

\* What must not be in flight when a snapshot is taken.
LEMMA CreationWaits ==
  ASSUME CreationsApart, TypeOK, MayBegin("create")
  PROVE  /\ \A r \in Runs : joint[r] = NoJoint
         /\ \A u \in Updaters : ~BulkInFlight(u)
<1>1. "joint" \notin InFlight /\ "bulk" \notin InFlight
  BY DEF CreationsApart, MayBegin
<1> QED
  BY <1>1 DEF InFlight, UpdateKind, BulkInFlight

LEMMA OthersWait ==
  ASSUME CreationsApart, NEW kind \in {"joint", "bulk"}, MayBegin(kind)
  PROVE  NoCreation
<1>1. {kind, "create"} = {"create", kind}
  OBVIOUS
<1>2. "create" \notin InFlight
  BY <1>1 DEF CreationsApart, MayBegin
<1> QED
  BY <1>2 DEF InFlight, NoCreation

LEMMA SettlingWaits ==
  ASSUME SettlingsApart, TypeOK, MayBegin("joint")
  PROVE  /\ \A r \in Runs : joint[r] = NoJoint
         /\ \A u \in Updaters : ~BulkInFlight(u)
<1>1. "joint" \notin InFlight /\ "bulk" \notin InFlight
  BY DEF SettlingsApart, MayBegin
<1> QED
  BY <1>1 DEF InFlight, UpdateKind, BulkInFlight

LEMMA BulkWaits ==
  ASSUME SettlingsApart, MayBegin("bulk")
  PROVE  \A r \in Runs : joint[r] = NoJoint
<1>1. {"bulk", "joint"} = {"joint", "bulk"}
  OBVIOUS
<1>2. "joint" \notin InFlight
  BY <1>1 DEF SettlingsApart, MayBegin
<1> QED
  BY <1>2 DEF InFlight

\* A settling is in flight where its record is not empty, before a step and after it.
LEMMA JointFlies ==
  /\ "joint" \in InFlight <=> \E r \in Runs : joint[r] # NoJoint
  /\ ("joint" \in InFlight)' <=> \E r \in Runs : joint'[r] # NoJoint
<1>1. \A u : UpdateKind(u) # "joint" /\ UpdateKind(u)' # "joint"
  BY DEF UpdateKind
<1> QED
  BY <1>1 DEF InFlight

\* What a step may do to the runs without touching the status or a snapshot.
LEMMA RunsOnly ==
  ASSUME TypeOK, UNCHANGED <<status, create, joint, update>>,
         ActiveRuns' \subseteq ActiveRuns,
         stale' \/ (stale' = stale /\ ActiveRuns' = ActiveRuns)
  PROVE  (Occupied => Occupied') /\ (Derived => Derived')
<1>1. InFlight' = InFlight
  BY DEF InFlight, UpdateKind
<1>2. Occupied => Occupied'
  BY DEF Occupied, CreateAlone, NoCreation, BulkInFlight, CreateSaw, JointSaw, UpdateSaw,
         ActiveIsBusy
<1>3. Derived => Derived'
  BY <1>1 DEF Derived, JointAlone, BulkInFlight, JointLeaves, BulkLeaves, StatusAgrees
<1> QED
  BY <1>2, <1>3

-----------------------------------------------------------------------------
(* One lemma per writer: what it does to Occupied and to Derived *)

LEMMA CreateStep ==
  ASSUME CreationsApart, TypeOK, Occupied, NEW r \in Runs,
         CreateReads(r) \/ CreateCommits(r)
  PROVE  Occupied' /\ (Derived => Derived')
<1> USE DEF Occupied, CreateAlone, NoCreation, BulkInFlight, CreateSaw, JointSaw, UpdateSaw
<1>1. UNCHANGED <<joint, update, stale>>
  BY DEF CreateReads, CreateCommits
<1>2. InFlight' \ {"create"} = InFlight \ {"create"}
  BY <1>1 DEF InFlight, UpdateKind
<1>3. CASE CreateReads(r)
  <2>1. /\ \A s \in Runs : joint[s] = NoJoint
        /\ \A u \in Updaters : ~BulkInFlight(u)
    BY <1>3, CreationWaits DEF CreateReads
  <2>2. ActiveRuns' = ActiveRuns /\ status' = status
    BY <1>3 DEF CreateReads, ActiveRuns
  <2>3. CreateSaw'
    BY <1>3, <2>2 DEF CreateReads, TypeOK
  <2>4. Occupied'
    BY <1>1, <2>1, <2>2, <2>3 DEF ActiveIsBusy
  <2>5. Derived => Derived'
    BY <1>1, <1>2, <2>2 DEF Derived, JointAlone, JointLeaves, BulkLeaves, StatusAgrees
  <2> QED
    BY <2>4, <2>5
<1>4. CASE CreateCommits(r)
  <2>1. ActiveRuns' = ActiveRuns \cup {r}
    BY <1>4 DEF CreateCommits, ActiveRuns, Active, TypeOK
  <2>2. status' = "busy"
    BY <1>4 DEF CreateCommits
  <2>3. /\ \A s \in Runs : joint[s] = NoJoint
        /\ \A u \in Updaters : ~BulkInFlight(u)
    BY <1>4 DEF CreateCommits
  <2>4. Occupied'
    BY <1>1, <2>2, <2>3 DEF ActiveIsBusy, NoJoint
  <2>5. Derived => Derived'
    BY <1>1, <2>1, <2>3 DEF Derived, JointAlone, JointLeaves, BulkLeaves, StatusAgrees, NoJoint
  <2> QED
    BY <2>4, <2>5
<1> QED
  BY <1>3, <1>4

LEMMA JointBegins ==
  ASSUME CreationsApart, TypeOK, Occupied, NEW r \in Runs, JointDerives(r)
  PROVE  Occupied' /\ (SettlingsApart /\ Derived => Derived')
<1> USE DEF Occupied, CreateAlone, BulkInFlight, CreateSaw, JointSaw, UpdateSaw
<1> DEFINE active == ActiveRuns \ {r} # {}
<1>1. NoCreation
  BY OthersWait DEF JointDerives
<1>2. /\ ActiveRuns' = ActiveRuns
      /\ UNCHANGED <<status, create, update>>
      /\ NoCreation'
  BY <1>1 DEF JointDerives, ActiveRuns, NoCreation
<1>3. /\ joint' = [joint EXCEPT ![r] = [step |-> "derive", active |-> active]]
      /\ active => ActiveRuns' \ {r} # {}
      /\ ~active => ActiveRuns' \subseteq {r}
  BY <1>2 DEF JointDerives
<1>4. joint'[r].step = "derive" /\ joint'[r].active = active /\ joint'[r] # NoJoint
  BY <1>3 DEF TypeOK, NoJoint
<1>5. \A s \in Runs \ {r} : joint'[s] = joint[s]
  BY <1>3 DEF TypeOK
<1> HIDE DEF active
<1>6. JointSaw'
  <2> SUFFICES ASSUME NEW s \in Runs
               PROVE  /\ joint'[s].step = "none" => joint'[s] = NoJoint
                      /\ joint'[s].step = "derive" /\ ~joint'[s].active
                           => ActiveRuns' \subseteq {s}
    BY DEF JointSaw
  <2>1. CASE s = r
    BY <1>3, <1>4, <2>1
  <2>2. CASE s # r
    BY <1>2, <1>5, <2>2
  <2> QED
    BY <2>1, <2>2
<1>7. Occupied'
  BY <1>2, <1>6 DEF ActiveIsBusy, NoCreation
<1>8. ASSUME SettlingsApart, Derived PROVE Derived'
  <2>1. /\ \A s \in Runs : joint[s] = NoJoint
        /\ \A u \in Updaters : ~BulkInFlight(u)
    BY <1>8, SettlingWaits DEF JointDerives
  <2>2. JointAlone' /\ BulkLeaves'
    BY <1>2, <1>5, <2>1 DEF JointAlone, BulkLeaves
  <2>3. JointLeaves'
    BY <1>3, <1>4, <1>5, <2>1 DEF JointLeaves, NoJoint
  <2>4. ("joint" \in InFlight)'
    BY <1>4, JointFlies DEF InFlight
  <2> QED
    BY <2>2, <2>3, <2>4 DEF Derived, StatusAgrees
<1> QED
  BY <1>7, <1>8

LEMMA JointEnds ==
  ASSUME TypeOK, Occupied, NEW r \in Runs, NEW base \in Bases, JointCommits(r, base)
  PROVE  Occupied' /\ (Derived => Derived')
<1> USE DEF Occupied, CreateAlone, NoCreation, BulkInFlight, CreateSaw, JointSaw, UpdateSaw
<1>1. /\ ActiveRuns' = ActiveRuns \ {r}
      /\ UNCHANGED <<create, update, stale>>
  BY DEF JointCommits, ActiveRuns, Active, TypeOK
<1>2. joint[r] # NoJoint
  BY DEF JointCommits, NoJoint
<1>3. joint'[r] = NoJoint /\ \A s \in Runs \ {r} : joint'[s] = joint[s]
  BY DEF JointCommits, TypeOK
<1>4. NoCreation /\ NoCreation'
  BY <1>1, <1>2
<1>5. JointSaw' /\ UpdateSaw' /\ CreateSaw' /\ CreateAlone'
  BY <1>1, <1>3, <1>4 DEF NoJoint
<1>6. status' = IF joint[r].active THEN "busy" ELSE base
  BY DEF JointCommits
<1>7. ~joint[r].active => ActiveRuns' = {}
  BY <1>1 DEF JointCommits
<1>8. Occupied'
  BY <1>5, <1>6, <1>7 DEF ActiveIsBusy
<1>9. ASSUME Derived PROVE Derived'
  <2>1. \A s \in Runs : joint'[s] = NoJoint
    BY <1>2, <1>3, <1>9 DEF Derived, JointAlone
  <2>2. \A u \in Updaters : ~BulkInFlight(u)
    BY <1>2, <1>9 DEF Derived, JointAlone
  <2>3. JointAlone' /\ JointLeaves' /\ BulkLeaves'
    BY <1>1, <2>1, <2>2 DEF JointAlone, JointLeaves, BulkLeaves, NoJoint
  <2>4. joint[r].active => stale \/ ActiveRuns' # {}
    BY <1>1, <1>9 DEF Derived, JointLeaves, JointCommits
  <2>5. status' = "busy" => stale' \/ ActiveRuns' # {}
    BY <1>1, <1>6, <2>4 DEF Bases
  <2> QED
    BY <2>3, <2>5 DEF Derived, StatusAgrees
<1> QED
  BY <1>8, <1>9

LEMMA UpdateBegins ==
  ASSUME CreationsApart, TypeOK, Occupied, NEW u \in Updaters,
         UpdateChecks(u) \/ BulkBegins(u) \/ UpdateWrites(u) \/ UpdateDerives(u)
  PROVE  Occupied' /\ (SettlingsApart /\ Derived => Derived')
<1> USE DEF Occupied, CreateAlone, NoCreation, BulkInFlight, CreateSaw, JointSaw, UpdateSaw
<1>1. /\ ActiveRuns' = ActiveRuns
      /\ UNCHANGED <<status, create, joint, stale>>
  BY DEF UpdateChecks, BulkBegins, UpdateWrites, UpdateDerives, ActiveRuns
<1>2. \A v \in Updaters \ {u} : update'[v] = update[v]
  BY DEF UpdateChecks, BulkBegins, UpdateWrites, UpdateDerives, TypeOK
<1>3. CASE UpdateChecks(u) \/ BulkBegins(u) \/ UpdateWrites(u)
  <2>1. update'[u].step \in {"checked", "written"}
    <3>1. CASE UpdateChecks(u)
      BY <3>1 DEF UpdateChecks, TypeOK
    <3>2. CASE BulkBegins(u)
      BY <3>2 DEF BulkBegins, TypeOK, NoUpdate
    <3>3. CASE UpdateWrites(u)
      BY <3>3 DEF UpdateWrites, TypeOK
    <3> QED
      BY <1>3, <3>1, <3>2, <3>3
  <2>2. Occupied'
    BY <1>1, <1>2, <2>1 DEF ActiveIsBusy
  <2>3. Derived => Derived'
    BY <1>1, <1>2, <2>1, JointFlies
       DEF Derived, JointAlone, JointLeaves, BulkLeaves, StatusAgrees
  <2> QED
    BY <2>2, <2>3
<1>4. CASE UpdateDerives(u)
  <2> DEFINE active == ActiveRuns # {}
  <2>1. /\ update'[u].step = "derive" /\ update'[u].seen = status
        /\ update'[u].active = active /\ update'[u].bulk = update[u].bulk
    BY <1>4 DEF UpdateDerives, TypeOK
  <2>2. /\ active => status = "busy" /\ ActiveRuns' # {}
        /\ ~active => ActiveRuns' = {}
    BY <1>1 DEF ActiveIsBusy
  <2>3. update[u].bulk => MayBegin("bulk")
    BY <1>4 DEF UpdateDerives, UpdateKind
  <2> HIDE DEF active
  <2>4. update[u].bulk => NoCreation
    BY <2>3, OthersWait
  <2>5. UpdateSaw'
    <3> SUFFICES ASSUME NEW v \in Updaters
                 PROVE  /\ BulkInFlight(v)' /\ ~update'[v].active => ActiveRuns' = {}
                        /\ update'[v].step = "derive" /\ ~update'[v].bulk /\ update'[v].active
                             => update'[v].seen = "busy"
      BY DEF UpdateSaw
    <3>1. CASE v = u
      BY <2>1, <2>2, <3>1
    <3>2. CASE v # u
      BY <1>1, <1>2, <3>2
    <3> QED
      BY <3>1, <3>2
  <2>6. CreateAlone'
    <3>1. \A v \in Updaters : BulkInFlight(v)' => NoCreation
      BY <1>2, <2>1, <2>4
    <3> QED
      BY <1>1, <3>1
  <2>7. Occupied'
    BY <1>1, <2>5, <2>6 DEF ActiveIsBusy
  <2>8. ASSUME SettlingsApart, Derived PROVE Derived'
    <3>1. update[u].bulk => \A r \in Runs : joint[r] = NoJoint
      BY <2>3, <2>8, BulkWaits
    <3>2. JointAlone'
      BY <1>1, <1>2, <2>1, <2>8, <3>1 DEF Derived, JointAlone
    <3>3. BulkLeaves'
      BY <1>1, <1>2, <2>1, <2>2, <2>8 DEF Derived, BulkLeaves
    <3>4. JointLeaves' /\ StatusAgrees'
      BY <1>1, <2>8, JointFlies DEF Derived, JointLeaves, StatusAgrees
    <3> QED
      BY <3>2, <3>3, <3>4 DEF Derived
  <2> QED
    BY <2>7, <2>8
<1> QED
  BY <1>3, <1>4

LEMMA UpdateEnds ==
  ASSUME TypeOK, Occupied, NEW u \in Updaters, NEW base \in Bases, UpdateCommits(u, base)
  PROVE  Occupied' /\ (Derived => Derived')
<1> USE DEF Occupied, CreateAlone, NoCreation, BulkInFlight, CreateSaw, JointSaw, UpdateSaw
<1>1. /\ ActiveRuns' = ActiveRuns
      /\ UNCHANGED <<create, joint, stale>>
  BY DEF UpdateCommits, ActiveRuns
<1>2. update'[u] = NoUpdate /\ \A v \in Updaters \ {u} : update'[v] = update[v]
  BY DEF UpdateCommits, TypeOK
<1>3. CreateAlone' /\ JointSaw' /\ UpdateSaw'
  BY <1>1, <1>2 DEF NoUpdate
<1>4. CASE update[u].bulk
  <2>1. BulkInFlight(u) /\ status' = IF update[u].active THEN "busy" ELSE base
    BY <1>4 DEF UpdateCommits
  <2>2. NoCreation'
    BY <1>1, <2>1
  <2>3. Occupied'
    BY <1>1, <1>3, <2>1, <2>2 DEF ActiveIsBusy
  <2>4. ASSUME Derived PROVE Derived'
    <3>1. status' = "busy" => stale' \/ ActiveRuns' # {}
      BY <1>1, <2>1, <2>4 DEF Derived, BulkLeaves, Bases
    <3>2. JointAlone' /\ JointLeaves' /\ BulkLeaves'
      BY <1>1, <1>2, <2>4 DEF Derived, JointAlone, JointLeaves, BulkLeaves, NoUpdate
    <3> QED
      BY <3>1, <3>2 DEF Derived, StatusAgrees
  <2> QED
    BY <2>3, <2>4
<1>5. CASE ~update[u].bulk
  <2>1. (status' = "busy") <=> (status = "busy")
    BY <1>5 DEF UpdateCommits, Bases
  <2>2. Occupied'
    BY <1>1, <1>3, <2>1 DEF ActiveIsBusy
  <2>3. Derived => Derived'
    BY <1>1, <1>2, <2>1, JointFlies
       DEF Derived, JointAlone, JointLeaves, BulkLeaves, StatusAgrees, NoUpdate
  <2> QED
    BY <2>2, <2>3
<1> QED
  BY <1>4, <1>5

LEMMA AgreementStep ==
  ASSUME CreationsApart, TypeOK, Occupied, [Next]_vars
  PROVE  Occupied' /\ (SettlingsApart /\ Derived => Derived')
<1>1. CASE UNCHANGED vars
  BY <1>1, RunsOnly DEF vars, ActiveRuns
<1>2. ASSUME NEW r \in Runs, Claim(r) \/ Repend(r)
      PROVE  Occupied' /\ (Derived => Derived')
  <2>1. ActiveRuns' = ActiveRuns
    BY <1>2 DEF Claim, Repend, ActiveRuns, Active, TypeOK
  <2> QED
    BY <1>2, <2>1, RunsOnly DEF Claim, Repend
<1>3. ASSUME NEW r \in Runs, CancelPending(r) \/ DeleteRun(r)
      PROVE  Occupied' /\ (Derived => Derived')
  <2>1. ActiveRuns' \subseteq ActiveRuns
    BY <1>3 DEF CancelPending, DeleteRun, ActiveRuns, Active, TypeOK
  <2> QED
    BY <1>3, <2>1, RunsOnly DEF CancelPending, DeleteRun
<1> QED
  BY <1>1, <1>2, <1>3, CreateStep, JointBegins, JointEnds, UpdateBegins, UpdateEnds DEF Next

-----------------------------------------------------------------------------

\* The variables of the thread keep their types, whatever overlaps.
THEOREM TypeCorrect == Spec => []TypeOK
BY TypeInit, TypeStep, PTL DEF Spec

\* A thread with a pending or running run is busy: no retry, deletion, cancellation or
\* settling of its runs and no state update of either kind that races with them frees
\* it, however many there are (Runs.Create, Threads.SetJointStatus, Threads.SetStatus),
\* if its runs are created while no settling and no bulk update is between its snapshot
\* and its commit.
THEOREM BusyWhileActive == ASSUME CreationsApart PROVE Spec => []ActiveIsBusy
<1>1. Init => TypeOK /\ Occupied
  BY TypeInit, InitOccupied
<1>2. TypeOK /\ Occupied /\ [Next]_vars => (TypeOK /\ Occupied)'
  BY TypeStep, AgreementStep
<1>3. Occupied => ActiveIsBusy
  BY DEF Occupied
<1> QED
  BY <1>1, <1>2, <1>3, PTL DEF Spec

\* A thread is not left busy: without an active run it is busy only because a call
\* from outside ended one and left the thread alone, if moreover its settlings overlap
\* neither with each other nor with bulk updates.
THEOREM BusyOnlyWhileActive ==
  ASSUME CreationsApart, SettlingsApart PROVE Spec => []StatusAgrees
<1>1. Init => TypeOK /\ Occupied /\ Derived
  BY TypeInit, InitOccupied
<1>2. TypeOK /\ Occupied /\ Derived /\ [Next]_vars => (TypeOK /\ Occupied /\ Derived)'
  BY TypeStep, AgreementStep
<1>3. Derived => StatusAgrees
  BY DEF Derived
<1> QED
  BY <1>1, <1>2, <1>3, PTL DEF Spec
=============================================================================
