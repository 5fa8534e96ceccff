---------------------------- MODULE CronsProofs ----------------------------
(***************************************************************************)
(* A stopped cron comes to an end, for every set of crons and schedulers.  *)
(* The argument: a scheduler fires from a reply it holds, and the runs a   *)
(* stopped cron has been given, together with the replies that still name  *)
(* it, are at most one per scheduler.  A poll adds no reply that names a   *)
(* stopped cron, and each run takes a reply away.                          *)
(***************************************************************************)
EXTENDS Crons, FiniteSetTheorems, TLAPS

\* Schedulers whose reply still names the cron.
Holding(c) == {s \in Schedulers : c \in batch[s]}

\* An id that was not handed out has no row, and nobody has heard of it.
NewIsUnknown ==
  \A c \in Ids : c \notin used => cron[c] = NoRow /\ Holding(c) = {} /\ late[c] = 0

\* What is counted as late was fired, and while the cron was stopped.
LateIsFired == \A c \in Ids : late[c] <= fired[c] /\ (cron[c].enabled => late[c] = 0)

OneEach ==
  \A c \in Ids : ~cron[c].enabled =>
    late[c] + Cardinality(Holding(c)) <= Cardinality(Schedulers)

IInv == TypeOK /\ NewIsUnknown /\ LateIsFired /\ OneEach

\* The date a schedule gives is one.
LEMMA NextDateType ==
  ASSUME NEW period \in Nat \ {0}, NEW t \in Nat
  PROVE  NextDate(period, t) \in Nat
<1>1. t \div period \in Nat
  OBVIOUS
<1> QED
  BY <1>1 DEF NextDate

\* Replies that name a cron, counted.
LEMMA HoldingFinite ==
  ASSUME NEW c
  PROVE  /\ IsFiniteSet(Holding(c))
         /\ Cardinality(Holding(c)) \in Nat /\ Cardinality(Schedulers) \in Nat
         /\ Cardinality(Holding(c)) <= Cardinality(Schedulers)
BY ConstantsAssumption, FS_Subset, FS_CardinalityType DEF Holding

LEMMA InitInvariant == Init => IInv
<1> SUFFICES ASSUME Init PROVE IInv
  OBVIOUS
<1> USE ConstantsAssumption DEF Init
<1>1. NoRow \in Rows
  BY DEF NoRow, Rows, Never
<1>2. TypeOK
  BY <1>1 DEF TypeOK
<1>3. \A c \in Ids : Holding(c) = {}
  BY DEF Holding
<1>4. NewIsUnknown /\ LateIsFired
  BY <1>3 DEF NewIsUnknown, LateIsFired, NoRow
<1>5. OneEach
  BY <1>3, HoldingFinite DEF OneEach
<1> QED
  BY <1>2, <1>4, <1>5 DEF IInv

\* What a patch makes of the row: the date of the next run stays.
LEMMA PatchedRow ==
  ASSUME TypeOK, NEW c \in Ids, NEW p \in Periods, NEW u \in Ends, NEW e \in BOOLEAN,
         NEW n \in BOOLEAN, Patch(c, p, u, e, n)
  PROVE  /\ cron' \in [Ids -> Rows]
         /\ cron'[c].enabled = e
         /\ \A d \in Ids \ {c} : cron'[d] = cron[d]
<1> DEFINE a == [cron[c] EXCEPT !.period = p]
           b == [a EXCEPT !.until = u]
           g == [b EXCEPT !.enabled = e]
           d == [g EXCEPT !.named = n]
<1>1. cron[c] \in Rows /\ cron \in [Ids -> Rows]
  BY DEF TypeOK
<1>2. a \in Rows
  BY <1>1 DEF Rows
<1>3. b \in Rows
  <2>1. u \in 0 .. Never
    BY ConstantsAssumption DEF Never
  <2> HIDE DEF a
  <2> QED
    BY <1>2, <2>1 DEF Rows
<1>4. d \in Rows /\ d.enabled = e
  <2>1. g \in Rows /\ g.enabled = e
    <3> HIDE DEF b
    <3> QED
      BY <1>3 DEF Rows
  <2> HIDE DEF g
  <2> QED
    BY <2>1 DEF Rows
<1>5. cron' = [cron EXCEPT ![c] = d]
  BY <1>1 DEF Patch
<1> HIDE DEF d
<1> QED
  BY <1>1, <1>4, <1>5

LEMMA TypeStep == TypeOK /\ LateIsFired /\ [Next]_vars => TypeOK'
<1> SUFFICES ASSUME TypeOK, LateIsFired, [Next]_vars PROVE TypeOK'
  OBVIOUS
<1> USE ConstantsAssumption DEF TypeOK
<1>1. CASE UNCHANGED vars
  BY <1>1 DEF vars
<1>2. CASE Tick
  BY <1>2 DEF Tick
<1>3. ASSUME NEW c \in Ids, NEW p \in Periods, NEW u \in Ends, NEW e \in BOOLEAN,
             Create(c, p, u, e)
      PROVE  TypeOK'
  <2>1. NextDate(p, now) \in Nat
    BY NextDateType
  <2>2. [period |-> p, next |-> NextDate(p, now), until |-> u, enabled |-> e,
         named |-> TRUE] \in Rows
    BY <2>1 DEF Rows, Never
  <2> QED
    BY <1>3, <2>2 DEF Create
<1>4. ASSUME NEW c \in Ids, NEW p \in Periods, NEW u \in Ends, NEW e \in BOOLEAN,
             NEW n \in BOOLEAN, Patch(c, p, u, e, n)
      PROVE  TypeOK'
  <2>1. cron' \in [Ids -> Rows]
    BY <1>4, PatchedRow
  <2>2. late' \in [Ids -> 0 .. MaxFired]
    BY <1>4 DEF Patch
  <2> QED
    BY <1>4, <2>1, <2>2 DEF Patch
<1>5. ASSUME NEW c \in Ids, Delete(c)
      PROVE  TypeOK'
  <2>1. NoRow \in Rows
    BY DEF NoRow, Rows, Never
  <2> QED
    BY <1>5, <2>1 DEF Delete
<1>6. ASSUME NEW s \in Schedulers, Poll(s)
      PROVE  TypeOK'
  BY <1>6 DEF Poll
<1>7. ASSUME NEW s \in Schedulers, NEW c \in Ids, Fire(s, c)
      PROVE  TypeOK'
  <2>1. late[c] <= fired[c] /\ fired[c] < MaxFired
    BY <1>7 DEF LateIsFired, Fire
  <2>2. fired' \in [Ids -> 0 .. MaxFired] /\ late' \in [Ids -> 0 .. MaxFired]
    BY <1>7, <2>1 DEF Fire
  <2> QED
    BY <1>7, <2>2 DEF Fire
<1>8. ASSUME NEW s \in Schedulers, Abandons(s) \/ \E c \in Ids : FireFails(s, c)
      PROVE  TypeOK'
  BY <1>8 DEF FireFails, Abandons
<1> QED
  BY <1>1, <1>2, <1>3, <1>4, <1>5, <1>6, <1>7, <1>8 DEF Next

\* A step that adds to no count and lets no reply name a stopped or new cron.
LEMMA Fewer ==
  ASSUME IInv, used' = used, cron' = cron, UNCHANGED <<fired, late>>,
         \A c \in Ids : Holding(c)' \subseteq Holding(c) \/ (c \in used /\ cron[c].enabled)
  PROVE  NewIsUnknown' /\ LateIsFired' /\ OneEach'
<1> USE DEF IInv
<1>1. NewIsUnknown' /\ LateIsFired'
  BY DEF NewIsUnknown, LateIsFired
<1>2. ASSUME NEW c \in Ids, ~cron[c].enabled
      PROVE  late[c] + Cardinality(Holding(c)') <= Cardinality(Schedulers)
  <2>1. Holding(c)' \subseteq Holding(c)
    BY <1>2
  <2>2. Cardinality(Holding(c)') \in Nat /\ Cardinality(Holding(c)') <= Cardinality(Holding(c))
    BY <2>1, HoldingFinite, FS_Subset, FS_CardinalityType
  <2>3. late[c] + Cardinality(Holding(c)) <= Cardinality(Schedulers) /\ late[c] \in Nat
    BY <1>2 DEF OneEach, TypeOK
  <2> QED
    BY <2>2, <2>3, HoldingFinite
<1>3. OneEach'
  BY <1>2 DEF OneEach
<1> QED
  BY <1>1, <1>3

LEMMA CountStep == IInv /\ [Next]_vars => (NewIsUnknown /\ LateIsFired /\ OneEach)'
<1> SUFFICES ASSUME IInv, [Next]_vars PROVE (NewIsUnknown /\ LateIsFired /\ OneEach)'
  OBVIOUS
<1> USE ConstantsAssumption
<1>a. TypeOK /\ NewIsUnknown /\ LateIsFired /\ OneEach
  BY DEF IInv
<1>1. CASE UNCHANGED vars \/ Tick
  BY <1>1, Fewer DEF vars, Tick, Holding
<1>2. ASSUME NEW c \in Ids, NEW p \in Periods, NEW u \in Ends, NEW e \in BOOLEAN,
             Create(c, p, u, e)
      PROVE  (NewIsUnknown /\ LateIsFired /\ OneEach)'
  <2>1. \A d \in Ids : Holding(d)' = Holding(d)
    BY <1>2 DEF Create, Holding
  <2>2. late[c] = 0 /\ Holding(c) = {} /\ \A d \in Ids \ {c} : cron'[d] = cron[d]
    BY <1>2, <1>a DEF Create, NewIsUnknown, TypeOK
  <2>3. NewIsUnknown' /\ LateIsFired'
    BY <1>2, <1>a, <2>1, <2>2 DEF Create, NewIsUnknown, LateIsFired
  <2>4. OneEach'
    <3>1. late'[c] + Cardinality(Holding(c)') <= Cardinality(Schedulers)
      BY <1>2, <2>1, <2>2, HoldingFinite, FS_EmptySet DEF Create
    <3> QED
      BY <1>2, <1>a, <2>1, <2>2, <3>1 DEF Create, OneEach
  <2> QED
    BY <2>3, <2>4
<1>3. ASSUME NEW c \in Ids,
             \/ Delete(c)
             \/ \E p \in Periods, u \in Ends, e \in BOOLEAN, n \in BOOLEAN :
                  Patch(c, p, u, e, n)
      PROVE  (NewIsUnknown /\ LateIsFired /\ OneEach)'
  <2>1. \A d \in Ids : Holding(d)' = Holding(d)
    BY <1>3 DEF Delete, Patch, Holding
  <2>2. c \in used /\ used' = used /\ fired' = fired
    BY <1>3, <1>a DEF Delete, Patch, NewIsUnknown
  <2>3. \A d \in Ids \ {c} : cron'[d] = cron[d] /\ late'[d] = late[d]
    BY <1>3, <1>a DEF Delete, Patch, TypeOK
  <2>4. IF cron'[c].enabled THEN late'[c] = 0 ELSE late'[c] = late[c]
    <3>1. CASE Delete(c)
      BY <1>a, <3>1 DEF Delete, TypeOK, NoRow
    <3>2. ASSUME NEW p \in Periods, NEW u \in Ends, NEW e \in BOOLEAN,
                 NEW n \in BOOLEAN, Patch(c, p, u, e, n)
          PROVE  IF cron'[c].enabled THEN late'[c] = 0 ELSE late'[c] = late[c]
      <4>1. cron'[c].enabled = e
        BY <1>a, <3>2, PatchedRow
      <4> QED
        BY <1>a, <3>2, <4>1 DEF Patch, TypeOK
    <3> QED
      BY <1>3, <3>1, <3>2
  <2>5. late[c] + Cardinality(Holding(c)) <= Cardinality(Schedulers)
    BY <1>a, HoldingFinite DEF LateIsFired, OneEach
  <2>6. NewIsUnknown'
    BY <1>a, <2>1, <2>2, <2>3 DEF NewIsUnknown
  <2>7. LateIsFired'
    BY <1>a, <2>2, <2>3, <2>4 DEF LateIsFired, TypeOK
  <2>8. OneEach'
    BY <1>a, <2>1, <2>3, <2>4, <2>5 DEF OneEach
  <2> QED
    BY <2>6, <2>7, <2>8
<1>4. ASSUME NEW s \in Schedulers, Poll(s)
      PROVE  (NewIsUnknown /\ LateIsFired /\ OneEach)'
  <2>1. ASSUME NEW c \in Ids, c \notin used \/ ~cron[c].enabled
        PROVE  Holding(c)' \subseteq Holding(c)
    <3>1. ~cron[c].enabled
      BY <1>a, <2>1 DEF NewIsUnknown, NoRow
    <3>2. \A q \in Schedulers : c \in batch'[q] => c \in batch[q]
      BY <1>4, <1>a, <3>1 DEF Poll, Due, TypeOK
    <3> QED
      BY <3>2 DEF Holding
  <2> QED
    BY <1>4, <2>1, Fewer DEF Poll
<1>5. ASSUME NEW s \in Schedulers, Abandons(s) \/ \E c \in Ids : FireFails(s, c)
      PROVE  (NewIsUnknown /\ LateIsFired /\ OneEach)'
  <2>1. \A d \in Ids : Holding(d)' \subseteq Holding(d)
    BY <1>5, <1>a DEF FireFails, Abandons, Holding, TypeOK
  <2> QED
    BY <1>5, <2>1, Fewer DEF FireFails, Abandons
<1>6. ASSUME NEW s \in Schedulers, NEW c \in Ids, Fire(s, c)
      PROVE  (NewIsUnknown /\ LateIsFired /\ OneEach)'
  <2>1. Holding(c)' = Holding(c) \ {s} /\ s \in Holding(c)
    BY <1>6, <1>a DEF Fire, Holding, TypeOK
  <2>2. \A d \in Ids \ {c} : Holding(d)' = Holding(d)
    BY <1>6, <1>a DEF Fire, Holding, TypeOK
  <2>3. /\ Cardinality(Holding(c)') = Cardinality(Holding(c)) - 1
        /\ Cardinality(Holding(c)) \in Nat /\ Cardinality(Schedulers) \in Nat
    BY <2>1, HoldingFinite, FS_RemoveElement
  <2>4. c \in used
    BY <1>a, <2>1 DEF NewIsUnknown
  <2>5. /\ cron' = cron /\ used' = used
        /\ fired'[c] = fired[c] + 1
        /\ late'[c] = IF cron[c].enabled THEN late[c] ELSE late[c] + 1
        /\ \A d \in Ids \ {c} : late'[d] = late[d] /\ fired'[d] = fired[d]
    BY <1>6, <1>a DEF Fire, TypeOK
  <2>6. NewIsUnknown'
    BY <1>a, <2>2, <2>4, <2>5 DEF NewIsUnknown
  <2>7. LateIsFired'
    BY <1>a, <2>5 DEF LateIsFired, TypeOK
  <2>8. OneEach'
    BY <1>a, <2>2, <2>3, <2>5 DEF OneEach, TypeOK
  <2> QED
    BY <2>6, <2>7, <2>8
<1> QED
  BY <1>1, <1>2, <1>3, <1>4, <1>5, <1>6 DEF Next

-----------------------------------------------------------------------------

LEMMA Invariance == Spec => []IInv
<1>1. IInv /\ [Next]_vars => IInv'
  BY TypeStep, CountStep DEF IInv
<1> QED
  BY InitInvariant, <1>1, PTL DEF Spec

\* The rows and the counts keep their types.
THEOREM TypeCorrect == Spec => []TypeOK
BY Invariance, PTL DEF IInv

\* A cron that was disabled or deleted is fired at most once more by each scheduler
\* (cron_scheduler works through a reply without looking at the rows again).
THEOREM StoppedCronEnds == Spec => []StopsFiring
<1>1. IInv => StopsFiring
  <2> SUFFICES ASSUME IInv, NEW c \in Ids
               PROVE  late[c] <= Cardinality(Schedulers)
    BY DEF StopsFiring
  <2> QED
    BY HoldingFinite DEF IInv, LateIsFired, OneEach, TypeOK
<1> QED
  BY Invariance, <1>1, PTL
=============================================================================
