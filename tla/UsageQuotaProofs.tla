-------------------------- MODULE UsageQuotaProofs --------------------------
(***************************************************************************)
(* The run limits of UsageQuota hold for every set of owners, requests and *)
(* limits.  The argument: a run row enters the ledger with the time t its  *)
(* transaction began, and the gate counted every row younger than t minus  *)
(* the window, the ones younger than t itself included.  A window that     *)
(* contains t begins no earlier, so what it holds was counted; the lock    *)
(* keeps the count good until the row is in.                               *)
(***************************************************************************)
EXTENDS UsageQuota, FiniteSetTheorems, TLAPS

\* One transaction of an owner is past the lock.
OneHolder ==
  \A p, q \in Requests : OwnerOf[p] = OwnerOf[q] /\ Holds(p) /\ Holds(q) => p = q

\* What the gate counted for a granted request is still true.
GrantStands ==
  \A q \in Requests : step[q] = "granted" =>
    Room(Runs(OwnerOf[q]), stamp[q], RunLimits)

IInv ==
  /\ TypeOK
  /\ OneHolder
  /\ GrantStands
  /\ RunLimitHolds

\* The ledger is finite.
LEMMA LedgerFinite == ASSUME TypeOK PROVE IsFiniteSet(ledger)
<1> DEFINE N == 0 .. RunCost  T == 0 .. MaxTime
           f == [x \in (Requests \X N) \X T |-> [of |-> x[1][1], n |-> x[1][2], at |-> x[2]]]
<1>1. IsFiniteSet(N) /\ IsFiniteSet(T) /\ IsFiniteSet(Requests)
  BY ConstantsAssumption, FS_Interval
<1>2. IsFiniteSet((Requests \X N) \X T)
  BY <1>1, FS_Product
<1>3. \A e \in LedgerRows : \E x \in (Requests \X N) \X T : f[x] = e
  <2> SUFFICES ASSUME NEW e \in LedgerRows
               PROVE  \E x \in (Requests \X N) \X T : f[x] = e
    OBVIOUS
  <2>1. <<<<e.of, e.n>>, e.at>> \in (Requests \X N) \X T
    BY DEF LedgerRows
  <2>2. f[<<<<e.of, e.n>>, e.at>>] = e
    BY <2>1 DEF LedgerRows
  <2> QED
    BY <2>1, <2>2
<1>4. f \in Surjection((Requests \X N) \X T, LedgerRows)
  BY <1>3 DEF Surjection, LedgerRows
<1>5. IsFiniteSet(LedgerRows)
  BY <1>2, <1>4, FS_Surjection
<1> QED
  BY <1>5, FS_Subset DEF TypeOK

\* A set of run rows that is part of a window with room has room itself.
LEMMA Fewer ==
  ASSUME TypeOK, NEW A \in SUBSET ledger, NEW B \in SUBSET A
  PROVE  /\ IsFiniteSet(A) /\ IsFiniteSet(B)
         /\ Cardinality(A) \in Nat /\ Cardinality(B) \in Nat
         /\ Cardinality(B) <= Cardinality(A)
<1>1. IsFiniteSet(A)
  BY LedgerFinite, FS_Subset
<1> QED
  BY <1>1, FS_Subset, FS_CardinalityType

\* The run rows of an owner change with the commit of one of its requests alone.
LEMMA OtherRows ==
  ASSUME TypeOK, NEW e \in LedgerRows, ledger' = ledger \cup {e}, NEW o \in Owners
  PROVE  /\ e.n > 0 \/ OwnerOf[e.of] # o => Runs(o)' = Runs(o)
         /\ e.n = 0 /\ OwnerOf[e.of] = o => Runs(o)' = Runs(o) \cup {e}
BY DEF Runs, LedgerRows

LEMMA InitInvariant == Init => IInv
<1> SUFFICES ASSUME Init PROVE IInv
  OBVIOUS
<1> USE ConstantsAssumption DEF Init
<1>1. TypeOK
  BY DEF TypeOK, Steps
<1>2. OneHolder /\ GrantStands
  BY DEF OneHolder, Holds, GrantStands
<1>3. RunLimitHolds
  <2> SUFFICES ASSUME NEW o \in Owners, NEW l \in RunLimits, NEW t \in 0 .. MaxTime
               PROVE  Cardinality(InWindow(Runs(o), t, l.window)) <= l.limit
    BY DEF RunLimitHolds
  <2>1. InWindow(Runs(o), t, l.window) = {}
    BY DEF InWindow, Runs
  <2>2. l.limit \in Nat \ {0}
    BY DEF Limits
  <2> QED
    BY <2>1, <2>2, FS_EmptySet
<1> QED
  BY <1>1, <1>2, <1>3 DEF IInv

LEMMA TypeStep == TypeOK /\ [Next]_vars => TypeOK'
<1> SUFFICES ASSUME TypeOK, [Next]_vars PROVE TypeOK'
  OBVIOUS
<1> USE ConstantsAssumption DEF TypeOK, Steps
<1>1. CASE UNCHANGED vars
  BY <1>1 DEF vars
<1>2. CASE Tick
  BY <1>2 DEF Tick
<1>3. ASSUME NEW q \in Requests,
             Begin(q) \/ Decide(q) \/ Refuse(q) \/ Start(q) \/ StartFails(q) \/ Finish(q)
      PROVE  TypeOK'
  BY <1>3 DEF Begin, Decide, Refuse, Start, StartFails, Finish
<1>4. ASSUME NEW q \in Requests, Commit(q)
      PROVE  TypeOK'
  <2>1. [of |-> q, n |-> 0, at |-> stamp[q]] \in LedgerRows
    BY DEF LedgerRows
  <2> QED
    BY <1>4, <2>1 DEF Commit
<1>5. ASSUME NEW q \in Requests, Spend(q)
      PROVE  TypeOK'
  <2>1. PICK n \in 1 .. RunCost : ledger' = ledger \cup {[of |-> q, n |-> n, at |-> now]}
    BY <1>5 DEF Spend
  <2>2. [of |-> q, n |-> n, at |-> now] \in LedgerRows
    BY <2>1 DEF LedgerRows
  <2> QED
    BY <1>5, <2>1, <2>2 DEF Spend
<1> QED
  BY <1>1, <1>2, <1>3, <1>4, <1>5 DEF Next

\* The lock: whoever gets past it found nobody else of the owner there.
LEMMA LockStep == TypeOK /\ OneHolder /\ [Next]_vars => OneHolder'
<1> SUFFICES ASSUME TypeOK, OneHolder, [Next]_vars PROVE OneHolder'
  OBVIOUS
<1> USE DEF TypeOK, OneHolder, Holds
<1>1. CASE UNCHANGED vars \/ Tick
  BY <1>1 DEF vars, Tick
<1>2. ASSUME NEW q \in Requests, Decide(q)
      PROVE  OneHolder'
  BY <1>2 DEF Decide
<1>3. ASSUME NEW q \in Requests,
             \/ Begin(q) \/ Commit(q) \/ Refuse(q)
             \/ Start(q) \/ StartFails(q) \/ Spend(q) \/ Finish(q)
      PROVE  OneHolder'
  <2>1. \A p \in Requests : Holds(p)' => Holds(p)
    BY <1>3 DEF Begin, Commit, Refuse, Start, StartFails, Spend, Finish
  <2> QED
    BY <2>1
<1> QED
  BY <1>1, <1>2, <1>3 DEF Next

\* A row that enters is in no window its gate did not count.
LEMMA CommitKeepsLimit ==
  ASSUME TypeOK, TypeOK', GrantStands, RunLimitHolds, NEW q \in Requests, Commit(q)
  PROVE  RunLimitHolds'
<1> DEFINE e == [of |-> q, n |-> 0, at |-> stamp[q]]
<1>1. e \in LedgerRows /\ ledger' = ledger \cup {e} /\ step[q] = "granted"
  BY ConstantsAssumption DEF Commit, LedgerRows, TypeOK
<1> SUFFICES ASSUME NEW o \in Owners, NEW l \in RunLimits, NEW t \in 0 .. MaxTime
             PROVE  Cardinality(InWindow(Runs(o)', t, l.window)) <= l.limit
  BY DEF RunLimitHolds, InWindow
<1>2. l.window \in Nat /\ l.limit \in Nat
  BY ConstantsAssumption DEF Limits
<1>3. Cardinality(InWindow(Runs(o), t, l.window)) <= l.limit
  BY DEF RunLimitHolds
<1>4. CASE OwnerOf[q] # o
  BY <1>1, <1>3, <1>4, OtherRows
<1>5. CASE OwnerOf[q] = o /\ ~(t - l.window < stamp[q] /\ stamp[q] <= t)
  <2>1. InWindow(Runs(o)', t, l.window) = InWindow(Runs(o), t, l.window)
    BY <1>1, <1>5, OtherRows DEF InWindow
  <2> QED
    BY <1>3, <2>1
<1>6. CASE OwnerOf[q] = o /\ t - l.window < stamp[q] /\ stamp[q] <= t
  <2> DEFINE counted == Since(Runs(o), stamp[q], l.window)
             before == InWindow(Runs(o), t, l.window)
  <2>1. Cardinality(counted) < l.limit
    BY <1>1, <1>6 DEF GrantStands, Room
  <2>2. before \subseteq counted
    BY <1>2, <1>6 DEF Since, InWindow, Runs, TypeOK, LedgerRows
  <2>3. counted \in SUBSET ledger
    BY DEF Since, Runs
  <2>4. InWindow(Runs(o)', t, l.window) = before \cup {e}
    BY <1>1, <1>6, OtherRows DEF InWindow
  <2>5. /\ IsFiniteSet(before) /\ Cardinality(before) <= Cardinality(counted)
        /\ Cardinality(before) \in Nat /\ Cardinality(counted) \in Nat
    BY <2>2, <2>3, Fewer
  <2> HIDE DEF before, counted, e
  <2>6. Cardinality(before \cup {e}) \in {Cardinality(before), Cardinality(before) + 1}
    BY <2>5, FS_AddElement
  <2> QED
    BY <1>2, <2>1, <2>4, <2>5, <2>6
<1> QED
  BY <1>4, <1>5, <1>6

\* A step that leaves the run rows of every owner alone leaves the limits alone.
LEMMA SameRuns ==
  ASSUME RunLimitHolds, \A o \in Owners : Runs(o)' = Runs(o)
  PROVE  RunLimitHolds'
BY DEF RunLimitHolds, InWindow

LEMMA LimitStep == IInv /\ [Next]_vars => (GrantStands /\ RunLimitHolds)'
<1> SUFFICES ASSUME IInv, [Next]_vars PROVE (GrantStands /\ RunLimitHolds)'
  OBVIOUS
<1>a. TypeOK /\ TypeOK' /\ OneHolder /\ GrantStands /\ RunLimitHolds
  BY TypeStep DEF IInv
<1>b. ASSUME \A o \in Owners : Runs(o)' = Runs(o),
             \A p \in Requests : step'[p] = "granted" =>
               step[p] = "granted" /\ stamp'[p] = stamp[p]
      PROVE  (GrantStands /\ RunLimitHolds)'
  <2>1. RunLimitHolds'
    BY <1>a, <1>b, SameRuns
  <2>2. GrantStands'
    BY <1>a, <1>b, ConstantsAssumption DEF GrantStands, Room, Since
  <2> QED
    BY <2>1, <2>2
<1>1. CASE UNCHANGED vars \/ Tick
  BY <1>1, <1>b DEF vars, Tick, Runs
<1>2. ASSUME NEW q \in Requests, Decide(q)
      PROVE  (GrantStands /\ RunLimitHolds)'
  <2>1. \A o \in Owners : Runs(o)' = Runs(o)
    BY <1>2 DEF Decide, Runs
  <2>2. RunLimitHolds'
    BY <1>a, <2>1, SameRuns
  <2>3. step'[q] = "granted" => Room(Runs(OwnerOf[q]), stamp[q], RunLimits)
    BY <1>a, <1>2 DEF Decide, Allowed, TypeOK
  <2>4. \A p \in Requests \ {q} : step'[p] = step[p]
    BY <1>a, <1>2 DEF Decide, TypeOK
  <2>5. GrantStands'
    BY <1>a, <1>2, <2>1, <2>3, <2>4, ConstantsAssumption DEF GrantStands, Room, Since, Decide
  <2> QED
    BY <2>2, <2>5
<1>3. ASSUME NEW q \in Requests, Commit(q)
      PROVE  (GrantStands /\ RunLimitHolds)'
  <2> DEFINE e == [of |-> q, n |-> 0, at |-> stamp[q]]
  <2>1. e \in LedgerRows /\ ledger' = ledger \cup {e}
    BY <1>a, <1>3, ConstantsAssumption DEF Commit, LedgerRows, TypeOK
  <2>2. ASSUME NEW p \in Requests, step'[p] = "granted"
        PROVE  Room(Runs(OwnerOf[p])', stamp'[p], RunLimits)
    <3>1. step[p] = "granted" /\ stamp'[p] = stamp[p] /\ p # q
      BY <1>a, <1>3, <2>2 DEF Commit, TypeOK
    <3>2. OwnerOf[p] # OwnerOf[q]
      BY <1>a, <1>3, <3>1 DEF OneHolder, Holds, Commit
    <3>3. Runs(OwnerOf[p])' = Runs(OwnerOf[p])
      BY <1>a, <2>1, <3>2, OtherRows, ConstantsAssumption
    <3> QED
      BY <1>a, <3>1, <3>3 DEF GrantStands
  <2>3. GrantStands'
    BY <2>2 DEF GrantStands, Room, Since
  <2> QED
    BY <1>a, <1>3, <2>3, CommitKeepsLimit
<1>4. ASSUME NEW q \in Requests,
             Begin(q) \/ Refuse(q) \/ Start(q) \/ StartFails(q) \/ Finish(q)
      PROVE  (GrantStands /\ RunLimitHolds)'
  <2>1. ledger' = ledger
    BY <1>4 DEF Begin, Refuse, Start, StartFails, Finish
  <2>2. \A p \in Requests : step'[p] = "granted" =>
          step[p] = "granted" /\ stamp'[p] = stamp[p]
    BY <1>a, <1>4 DEF Begin, Refuse, Start, StartFails, Finish, TypeOK
  <2> QED
    BY <1>b, <2>1, <2>2 DEF Runs
<1>5. ASSUME NEW q \in Requests, Spend(q)
      PROVE  (GrantStands /\ RunLimitHolds)'
  <2>1. PICK n \in 1 .. RunCost : ledger' = ledger \cup {[of |-> q, n |-> n, at |-> now]}
    BY <1>5 DEF Spend
  <2>2. [of |-> q, n |-> n, at |-> now] \in LedgerRows /\ n > 0
    BY <1>a, <2>1, ConstantsAssumption DEF LedgerRows, TypeOK
  <2>3. \A o \in Owners : Runs(o)' = Runs(o)
    BY <1>a, <2>1, <2>2, OtherRows
  <2> QED
    BY <1>b, <1>5, <2>3 DEF Spend
<1> QED
  BY <1>1, <1>2, <1>3, <1>4, <1>5 DEF Next

-----------------------------------------------------------------------------

LEMMA Invariance == Spec => []IInv
<1>1. IInv /\ [Next]_vars => IInv'
  BY TypeStep, LockStep, LimitStep DEF IInv
<1> QED
  BY InitInvariant, <1>1, PTL DEF Spec

\* The variables of the quota keep their types.
THEOREM TypeCorrect == Spec => []TypeOK
BY Invariance, PTL DEF IInv

\* No rolling window ever holds more runs of an owner than its limit: a burst
\* cannot slip past the run limit together (check_and_record_run).
THEOREM RunLimit == Spec => []RunLimitHolds
BY Invariance, PTL DEF IInv
-----------------------------------------------------------------------------
(* The limit of concurrent runs.  What was in the run table before a request *)
(* asked can only get less: a run that starts is stamped no earlier.       *)

\* A request is in the ledger once it is let through, once, and never before.
RowOnce ==
  /\ \A d, e \in ledger : d.of = e.of /\ d.n = 0 /\ e.n = 0 => d = e
  /\ \A q \in Requests :
       /\ step[q] \in {"idle", "waiting", "granted", "refused"} =>
            \A e \in ledger : e.of # q
       /\ step[q] \in {"allowed", "active"} => \E e \in ledger : e.of = q /\ e.n = 0

\* Nothing is stamped with a time to come.
Past == /\ \A q \in Requests : stamp[q] <= now
        /\ \A e \in ledger : e.at <= now

\* Runs of the owner that were there at t, and are not taken for orphans.
Before(o, t) == {p \in ActiveRuns(o, t) : stamp[p] < t}

RoomBeside(o, t) == MaxConcurrent > 0 => Cardinality(Before(o, t)) < MaxConcurrent

GateStands ==
  \A q \in Requests :
    /\ step[q] = "granted" => RoomBeside(OwnerOf[q], stamp[q])
    /\ \A e \in ledger : e.of = q /\ e.n = 0 => RoomBeside(OwnerOf[q], e.at)

Overlaps == RowOnce /\ Past /\ GateStands

\* Runs that are gone, or have come since, leave room where there was room.
LEMMA RoomStays ==
  ASSUME NEW o, NEW t, RoomBeside(o, t), Before(o, t)' \subseteq Before(o, t)
  PROVE  RoomBeside(o, t)'
<1>1. IsFiniteSet(Before(o, t))
  BY ConstantsAssumption, FS_Subset DEF Before, ActiveRuns
<1>2. /\ Cardinality(Before(o, t)') <= Cardinality(Before(o, t))
      /\ Cardinality(Before(o, t)') \in Nat /\ Cardinality(Before(o, t)) \in Nat
  BY <1>1, FS_Subset, FS_CardinalityType
<1> QED
  BY <1>2, ConstantsAssumption DEF RoomBeside

\* No step adds to the runs that were there before a time that is past.
LEMMA BeforeShrinks ==
  ASSUME TypeOK, Past, [Next]_vars, NEW o, NEW t \in Nat, t <= now
  PROVE  Before(o, t)' \subseteq Before(o, t)
<1> USE ConstantsAssumption DEF TypeOK, Before, ActiveRuns
<1>1. CASE UNCHANGED vars \/ Tick
  BY <1>1 DEF vars, Tick
<1>2. ASSUME NEW q \in Requests, Start(q)
      PROVE  Before(o, t)' \subseteq Before(o, t)
  BY <1>2 DEF Start
<1>3. ASSUME NEW q \in Requests,
             \/ Begin(q) \/ Decide(q) \/ Commit(q) \/ Refuse(q)
             \/ StartFails(q) \/ Spend(q) \/ Finish(q)
      PROVE  Before(o, t)' \subseteq Before(o, t)
  <2>1. \A p \in Requests : step'[p] = "active" => step[p] = "active" /\ stamp'[p] = stamp[p]
    BY <1>3 DEF Begin, Decide, Commit, Refuse, StartFails, Spend, Finish
  <2> QED
    BY <2>1
<1> QED
  BY <1>1, <1>2, <1>3 DEF Next

LEMMA InitOverlaps == Init => Overlaps
BY ConstantsAssumption DEF Init, Overlaps, RowOnce, Past, GateStands

LEMMA RowStep == TypeOK /\ RowOnce /\ [Next]_vars => RowOnce'
<1> SUFFICES ASSUME TypeOK, RowOnce, [Next]_vars PROVE RowOnce'
  OBVIOUS
<1> USE DEF TypeOK, RowOnce
<1>1. CASE UNCHANGED vars \/ Tick
  BY <1>1 DEF vars, Tick
<1>2. ASSUME NEW q \in Requests,
             Begin(q) \/ Decide(q) \/ Refuse(q) \/ Start(q) \/ StartFails(q) \/ Finish(q)
      PROVE  RowOnce'
  BY <1>2 DEF Begin, Decide, Refuse, Start, StartFails, Finish
<1>3. ASSUME NEW q \in Requests, Commit(q)
      PROVE  RowOnce'
  <2> DEFINE e == [of |-> q, n |-> 0, at |-> stamp[q]]
  <2>1. e.of = q /\ e.n = 0 /\ ledger' = ledger \cup {e} /\ \A d \in ledger : d.of # q
    BY <1>3 DEF Commit
  <2>2. step'[q] = "allowed" /\ \A p \in Requests \ {q} : step'[p] = step[p]
    BY <1>3 DEF Commit
  <2> HIDE DEF e
  <2> QED
    BY <2>1, <2>2
<1>4. ASSUME NEW q \in Requests, Spend(q)
      PROVE  RowOnce'
  <2>1. PICK n \in 1 .. RunCost : ledger' = ledger \cup {[of |-> q, n |-> n, at |-> now]}
    BY <1>4 DEF Spend
  <2> DEFINE e == [of |-> q, n |-> n, at |-> now]
  <2>2. e.of = q /\ e.n # 0 /\ ledger' = ledger \cup {e}
    BY <2>1, ConstantsAssumption
  <2>3. step[q] = "active" /\ step' = step
    BY <1>4 DEF Spend
  <2> HIDE DEF e
  <2> QED
    BY <2>2, <2>3
<1> QED
  BY <1>1, <1>2, <1>3, <1>4 DEF Next

LEMMA PastStep == TypeOK /\ Past /\ [Next]_vars => Past'
<1> SUFFICES ASSUME TypeOK, Past, [Next]_vars PROVE Past'
  OBVIOUS
<1> USE ConstantsAssumption DEF TypeOK, Past, LedgerRows
<1>1. CASE UNCHANGED vars \/ Tick
  BY <1>1 DEF vars, Tick
<1>2. ASSUME NEW q \in Requests,
             Begin(q) \/ Decide(q) \/ Refuse(q) \/ Start(q) \/ StartFails(q) \/ Finish(q)
      PROVE  Past'
  BY <1>2 DEF Begin, Decide, Refuse, Start, StartFails, Finish
<1>3. ASSUME NEW q \in Requests, Commit(q) \/ Spend(q)
      PROVE  Past'
  BY <1>3 DEF Commit, Spend
<1> QED
  BY <1>1, <1>2, <1>3 DEF Next

\* The gate has counted the runs that were there, and those that came while it waited.
LEMMA DecideCounts ==
  ASSUME TypeOK, NEW q \in Requests, Allowed(q)
  PROVE  RoomBeside(OwnerOf[q], stamp[q])
<1> DEFINE t == stamp[q]  o == OwnerOf[q]
<1>1. Before(o, t) \subseteq ActiveRuns(o, t) /\ IsFiniteSet(ActiveRuns(o, t))
  BY ConstantsAssumption, FS_Subset DEF Before, ActiveRuns
<1>2. /\ Cardinality(Before(o, t)) <= Cardinality(ActiveRuns(o, t))
      /\ Cardinality(Before(o, t)) \in Nat /\ Cardinality(ActiveRuns(o, t)) \in Nat
  BY <1>1, FS_Subset, FS_CardinalityType
<1>3. MaxConcurrent > 0 => Cardinality(ActiveRuns(o, t)) < MaxConcurrent
  BY DEF Allowed
<1> QED
  BY <1>2, <1>3, ConstantsAssumption DEF RoomBeside

LEMMA GateStep == TypeOK /\ Overlaps /\ [Next]_vars => GateStands'
<1> SUFFICES ASSUME TypeOK, Overlaps, [Next]_vars PROVE GateStands'
  OBVIOUS
<1>a. /\ RowOnce /\ Past /\ GateStands
      /\ \A q \in Requests : stamp[q] \in Nat /\ \A e \in ledger : e.at \in Nat
  BY ConstantsAssumption DEF Overlaps, TypeOK, LedgerRows
<1>b. \A o, t : t \in Nat /\ t <= now /\ RoomBeside(o, t) => RoomBeside(o, t)'
  BY <1>a, BeforeShrinks, RoomStays
<1>c. \A q \in Requests : \A e \in ledger :
        e.of = q /\ e.n = 0 => RoomBeside(OwnerOf[q], e.at)'
  BY <1>a, <1>b DEF GateStands, Past
<1>d. \A q \in Requests : step[q] = "granted" => RoomBeside(OwnerOf[q], stamp[q])
  BY <1>a DEF GateStands
<1>1. ASSUME NEW q \in Requests, step'[q] = "granted"
      PROVE  RoomBeside(OwnerOf[q], stamp[q])' /\ stamp'[q] = stamp[q]
  <2>1. stamp'[q] = stamp[q] /\ (step[q] = "granted" \/ Allowed(q))
    <3>1. CASE UNCHANGED vars \/ Tick
      BY <1>1, <3>1 DEF vars, Tick
    <3>2. ASSUME NEW p \in Requests, Decide(p)
          PROVE  stamp'[q] = stamp[q] /\ (step[q] = "granted" \/ Allowed(q))
      BY <1>1, <3>2 DEF Decide, TypeOK
    <3>3. ASSUME NEW p \in Requests,
                 \/ Begin(p) \/ Commit(p) \/ Refuse(p)
                 \/ Start(p) \/ StartFails(p) \/ Spend(p) \/ Finish(p)
          PROVE  stamp'[q] = stamp[q] /\ step[q] = "granted"
      BY <1>1, <3>3 DEF Begin, Commit, Refuse, Start, StartFails, Spend, Finish, TypeOK
    <3> QED
      BY <3>1, <3>2, <3>3 DEF Next
  <2>2. RoomBeside(OwnerOf[q], stamp[q])
    BY <1>d, <2>1, DecideCounts
  <2>3. stamp[q] \in Nat /\ stamp[q] <= now
    BY <1>a DEF Past
  <2>4. RoomBeside(OwnerOf[q], stamp[q])'
    BY <1>b, <2>1, <2>2, <2>3
  <2> QED
    BY <2>1, <2>4
<1>2. ASSUME NEW q \in Requests, NEW e \in ledger', e.of = q, e.n = 0
      PROVE  RoomBeside(OwnerOf[q], e.at)'
  <2>1. e \in ledger \/ (step[q] = "granted" /\ e.at = stamp[q])
    BY <1>2, ConstantsAssumption
       DEF Next, vars, Tick, Begin, Decide, Commit, Refuse, Start, StartFails, Spend, Finish
  <2>2. CASE e \in ledger
    BY <1>c, <1>2, <2>2
  <2>3. CASE step[q] = "granted" /\ e.at = stamp[q]
    <3>1. stamp[q] \in Nat /\ stamp[q] <= now /\ RoomBeside(OwnerOf[q], stamp[q])
      BY <1>a, <1>d, <2>3 DEF Past
    <3> QED
      BY <1>b, <2>3, <3>1
  <2> QED
    BY <2>1, <2>2, <2>3
<1> QED
  BY <1>1, <1>2 DEF GateStands

LEMMA OverlapsInvariance == Spec => [](TypeOK /\ Overlaps)
<1>1. Init => TypeOK /\ Overlaps
  BY InitInvariant, InitOverlaps DEF IInv
<1>2. TypeOK /\ Overlaps /\ [Next]_vars => (TypeOK /\ Overlaps)'
  BY TypeStep, RowStep, PastStep, GateStep DEF Overlaps
<1> QED
  BY <1>1, <1>2, PTL DEF Spec

\* Of an owner's runs that were in the run table before one of them asked, and are
\* there still, there are fewer than the limit of concurrent runs: only runs that
\* met at the gate exceed it (check_and_record_run counts the run table, which
\* Runs.Create fills later).
THEOREM ConcurrentLimit == Spec => []OnlyOverlapsExceed
<1>1. TypeOK /\ Overlaps => OnlyOverlapsExceed
  <2> SUFFICES ASSUME TypeOK, Overlaps, MaxConcurrent > 0,
                      NEW q \in Requests, step[q] = "active"
               PROVE  Cardinality({p \in ActiveRuns(OwnerOf[q], Entered(q).at) :
                                     stamp[p] < Entered(q).at}) < MaxConcurrent
    BY DEF OnlyOverlapsExceed
  <2>1. Entered(q) \in ledger /\ Entered(q).of = q /\ Entered(q).n = 0
    BY DEF Overlaps, RowOnce, Entered
  <2>2. RoomBeside(OwnerOf[q], Entered(q).at)
    BY <2>1 DEF Overlaps, GateStands
  <2> QED
    BY <2>2 DEF RoomBeside, Before
<1> QED
  BY OverlapsInvariance, <1>1, PTL
=============================================================================
