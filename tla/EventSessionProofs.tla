------------------------- MODULE EventSessionProofs -------------------------
(***************************************************************************)
(* Safety of an event streaming session, for any number of runs, events,   *)
(* subscriptions and commands: what a subscription was promised has been   *)
(* sent, in the order of its numbers, and the end of a run is told as its  *)
(* row has it.                                                             *)
(***************************************************************************)
EXTENDS EventSession, TLAPS

\* The worker's account of a run, which the end that a session tells relies on: the
\* row is final before the done marker, which is the last entry of the run; the one
\* attempt of a run that ended left an error where its row says so, and after it
\* nothing but the marker.
LastOfRun(i) == \A j \in DOMAIN tape : tape[j].run = tape[i].run => j <= i
EndedAtOnce(r) == tries[r] = 1 /\ row[r] \in Final

TapeTells ==
  /\ \A i \in DOMAIN tape :
       tape[i].kind = "done" => row[tape[i].run] \in Final /\ LastOfRun(i)
  /\ \A r \in 1 .. Runs :
       /\ row[r] = "pending" => tries[r] < MaxAttempts
       /\ tries[r] = 0 => row[r] = "pending" /\ ~Out(r, "error")
       /\ EndedAtOnce(r) => (Out(r, "error") <=> row[r] \in {"error", "interrupted", "gone"})
  /\ \A i, j \in DOMAIN tape :
       /\ tape[i].kind = "error" /\ EndedAtOnce(tape[i].run)
       /\ i < j /\ tape[j].run = tape[i].run
       => tape[j].kind = "done"

\* The session that is bound has numbered everything, and between the parts of an
\* item the reader is at an item of its run.
ReaderIsBound ==
  /\ sessions = <<>> => made = <<>> /\ wire = <<>> /\ reader.step = "next" /\ ~replay.on
  /\ sessions # <<>> => Bound.hi = Len(made)
  /\ reader.step # "next" =>
       /\ reader.at < Len(tape) /\ sessions # <<>> /\ Item.run = Bound.run
       /\ Item.kind = IF reader.step = "asked" THEN "input" ELSE "done"

\* What is on the wire was numbered by the session it is sent in.
WireIsNumbered ==
  \A i \in DOMAIN wire :
    wire[i].k \in DOMAIN sessions /\ wire[i].n <= sessions[wire[i].k].hi

\* A subscription is silent exactly while its replay goes on.
ReplayIsSilent ==
  /\ replay.on =>
       /\ replay.k \in DOMAIN sessions
       /\ replay.upto <= sessions[replay.k].hi
       /\ replay.todo \subseteq 1 .. replay.upto
       /\ sessions[replay.k].subs[replay.x].mode = "silent"
  /\ \A k \in DOMAIN sessions : \A x \in Subs :
       sessions[k].subs[x].mode = "silent" => replay.on /\ k = replay.k /\ x = replay.x

Structure == TypeOK /\ ReaderIsBound /\ WireIsNumbered /\ ReplayIsSilent

\* What has been sent for a subscription since it was installed.
Mine(k, x) ==
  {i \in DOMAIN wire : /\ wire[i].k = k /\ x \in wire[i].to
                       /\ i > sessions[k].subs[x].since}

\* A replay has sent what is below all it has yet to send.
ReplayAscends ==
  replay.on => \A i \in Mine(replay.k, replay.x) :
    wire[i].n <= replay.upto /\ \A m \in replay.todo : wire[i].n < m

\* What a subscription wants is sent, or was pushed out of the buffer, or the replay
\* under way owes it; what is owed to a silent subscription may be owed still when the
\* next session has made it active.
Covered(x, n) == Delivered(n) \/ n \in spilt \/ Owed(x, n)

Covers ==
  sessions # <<>> =>
    \A x \in Subs : Bound.subs[x].mode # "none" =>
      \A n \in Bound.subs[x].floor + 1 .. Bound.hi : Wants(x, made[n]) => Covered(x, n)

\* What the reader has left behind of the run it is bound to.
Seen(r, kind) == \E i \in 1 .. reader.at : tape[i] = [run |-> r, kind |-> kind]
Past == Seen(Bound.run, "done")
ErrorBefore == Seen(Bound.run, "error")

\* What a latched session has told before the marker.
LatchTells ==
  sessions # <<>> /\ Bound.latched /\ reader.step \in {"next", "asked"} /\ ~Past =>
    /\ Bound.root = "interrupted" \/ (Bound.root = "failed" /\ Out(Bound.run, "error"))
    /\ EndedAtOnce(Bound.run) /\ ErrorBefore => Bound.root = "failed"

\* A status that may be told of a row.
Fits(status, told) ==
  CASE status = "success" -> told \in {"completed", "interrupted"}
    [] status = "error" -> told = "failed"
    [] status = "interrupted" -> told \in {"interrupted", "failed"}
    [] OTHER -> TRUE

\* Between the read of the row and its telling the row has not moved.
EndIsRead ==
  /\ reader.step = "state" => row[Bound.run] = "success"
  /\ reader.step = "flush" => Fits(row[Bound.run], reader.told)

TellingEnd == TerminalTold /\ LatchTells /\ EndIsRead

IInv ==
  /\ Structure /\ TapeTells
  /\ InOrder /\ ReplayAscends
  /\ Covers
  /\ TellingEnd

-----------------------------------------------------------------------------
(* What a step of the reader does to the sessions *)

\* A session that differs from the one bound in what it has told alone.
SameSession(s) ==
  /\ sessions # <<>> /\ s \in Session
  /\ s.run = Bound.run /\ s.lo = Bound.lo /\ s.hi = Bound.hi /\ s.subs = Bound.subs

LEMMA BoundIsSession ==
  ASSUME TypeOK, sessions # <<>>
  PROVE  /\ Now \in Nat \ {0} /\ Now \in DOMAIN sessions
         /\ Bound \in Session /\ SameSession(Bound)
         /\ Bound.lo <= Bound.hi /\ Bound.hi <= Len(made)
         /\ Bound.hi - Bound.lo <= MaxBuffer
<1>1. sessions \in Seq(Session)
  BY DEF TypeOK
<1>2. Now \in Nat \ {0} /\ Now \in DOMAIN sessions
  BY <1>1 DEF Now
<1>3. Bound \in Session
  BY <1>1, <1>2 DEF Bound
<1> QED
  BY <1>2, <1>3 DEF TypeOK, Bound, SameSession

\* A subscription of the session that is bound, and what it was promised.
Promised(x, floor) ==
  sessions # <<>> /\ Bound.subs[x].mode # "none" /\ floor = Bound.subs[x].floor

\* The session for another run is a session, continues the numbers, and keeps what
\* its subscriptions were promised.
LEMMA NewIsSession ==
  ASSUME Structure, NEW run \in 1 .. Runs
  PROVE  /\ NewSession(run) \in Session /\ NewSession(run).run = run
         /\ NewSession(run).lo = Len(made) /\ NewSession(run).hi = Len(made)
         /\ ~NewSession(run).latched /\ NewSession(run).root = "running"
         /\ \A x \in Subs :
              LET sub == NewSession(run).subs[x] IN
              \/ sub = NoSub
              \/ /\ sub.mode = "active" /\ sub.since = Len(wire)
                 /\ sub.floor = Len(made) \/ Promised(x, sub.floor)
<1>1. Len(made) \in Nat /\ Len(wire) \in Nat
  BY DEF Structure, TypeOK
<1>2. LastSeq = Len(made)
  BY DEF Structure, ReaderIsBound, LastSeq
<1> DEFINE Taken(floor) == [mode |-> "active", floor |-> floor, since |-> Len(wire)]
           kept == Installed({"active", "silent"})
           subs == [x \in Subs |->
                      IF x \in kept THEN Taken(Bound.subs[x].floor)
                      ELSE IF x \in parked THEN Taken(LastSeq) ELSE NoSub]
<1>3. NoSub \in Subscription /\ \A floor \in Nat : Taken(floor) \in Subscription
  BY <1>1 DEF NoSub, Subscription
<1>4. ASSUME NEW x \in kept
      PROVE  Bound.subs[x].floor \in Nat /\ Promised(x, Bound.subs[x].floor)
  <2>1. x \in Subs /\ sessions # <<>> /\ Bound.subs[x].mode # "none"
    BY DEF Installed
  <2>2. Bound \in Session
    BY <2>1, BoundIsSession DEF Structure
  <2>3. Bound.subs[x] \in Subscription
    BY <2>1, <2>2 DEF Session
  <2> QED
    BY <2>1, <2>3 DEF Subscription, Promised
<1>5. subs \in [Subs -> Subscription]
  BY <1>1, <1>2, <1>3, <1>4
<1>6. NewSession(run) =
        [run |-> run, lo |-> Len(made), hi |-> Len(made), root |-> "running",
         child |-> "none", opened |-> FALSE, asked |-> FALSE, latched |-> FALSE,
         lost |-> FALSE, subs |-> subs]
  BY <1>2 DEF NewSession, Fresh
<1>7. \A x \in Subs :
        \/ subs[x] = NoSub
        \/ /\ subs[x].mode = "active" /\ subs[x].since = Len(wire)
           /\ subs[x].floor = Len(made) \/ Promised(x, subs[x].floor)
  BY <1>2, <1>4
<1> HIDE DEF subs
<1> QED
  BY <1>1, <1>5, <1>6, <1>7 DEF Session, Statuses

\* The effect of an event on the state, in which the session is s and its number k.
Pushes(k, s, e) ==
  LET n == Len(made) + 1 heard == Hearing(s, e, {"active"}) IN
  /\ made' \in Seq(SessionEvent) /\ Len(made') = n /\ made'[n] = e
  /\ \A i \in 1 .. Len(made) : made'[i] = made[i]
  /\ sessions' \in Seq(Session) /\ Len(sessions') = k
  /\ \A j \in 1 .. k - 1 : sessions'[j] = sessions[j]
  /\ sessions'[k] = [s EXCEPT !.hi = n, !.lo = Held(s.lo, n)]
  /\ wire' = Sent(e, n, heard, k)
  /\ spilt' = IF replay.on /\ replay.k = k
              THEN spilt \cup {m \in replay.upto + 1 .. Held(s.lo, n) : Wants(replay.x, made'[m])}
              ELSE spilt

LEMMA PushedPushes ==
  ASSUME TypeOK, NEW k \in 1 .. Now + 1, NEW s \in Session, s.hi = Len(made),
         NEW e \in SessionEvent, Pushed(k, s, e)
  PROVE  Pushes(k, s, e)
<1>1. /\ made \in Seq(SessionEvent) /\ Len(made) \in Nat
      /\ sessions \in Seq(Session) /\ Len(sessions) \in Nat
  BY DEF TypeOK
<1> DEFINE n == Len(made) + 1
           t == [s EXCEPT !.hi = n, !.lo = Held(s.lo, n)]
<1>2. t \in Session
  <2> DEFINE lo == Held(s.lo, n)
  <2>1. lo \in Nat
    BY <1>1, ConstantsAssumption DEF Session, Held
  <2> HIDE DEF lo
  <2>2. [s EXCEPT !.hi = n] \in Session
    BY <1>1 DEF Session
  <2>3. [s EXCEPT !.hi = n, !.lo = lo] \in Session
    BY <2>1, <2>2 DEF Session
  <2> QED
    BY <2>3 DEF lo
<1>3. made' = Append(made, e)
  BY DEF Pushed, PushedTo
<1>4. sessions' = SubSeq(sessions, 1, k - 1) \o <<t>>
  BY DEF Pushed, PushedTo
<1> HIDE DEF t
<1>5. /\ sessions' \in Seq(Session) /\ Len(sessions') = k /\ sessions'[k] = t
      /\ \A j \in 1 .. k - 1 : sessions'[j] = sessions[j]
  <2> DEFINE old == SubSeq(sessions, 1, k - 1)
  <2>1. old \in Seq(Session) /\ Len(old) = k - 1 /\ \A j \in 1 .. k - 1 : old[j] = sessions[j]
    BY <1>1 DEF Now
  <2> HIDE DEF old
  <2>2. sessions' = old \o <<t>>
    BY <1>4 DEF old
  <2>3. <<t>> \in Seq(Session) /\ Len(<<t>>) = 1 /\ <<t>>[1] = t
    BY <1>2
  <2> QED
    BY <2>1, <2>2, <2>3
<1>6. wire' = Sent(e, n, Hearing(s, e, {"active"}), k)
  BY DEF Pushed, PushedTo
<1>7. spilt' = IF replay.on /\ replay.k = k
               THEN spilt \cup {m \in replay.upto + 1 .. Held(s.lo, n) : Wants(replay.x, made'[m])}
               ELSE spilt
  BY DEF Pushed, PushedTo
<1> QED
  BY <1>1, <1>3, <1>5, <1>6, <1>7 DEF Pushes, t

LEMMA EmitsPushes ==
  ASSUME Structure, NEW s, SameSession(s), NEW e \in SessionEvent, Emits(s, e)
  PROVE  Pushes(Now, s, e)
<1>1. TypeOK /\ sessions # <<>> /\ s \in Session /\ s.hi = Len(made)
  BY DEF Structure, ReaderIsBound, SameSession
<1> QED
  BY <1>1, BoundIsSession, PushedPushes DEF Emits

\* The events a session makes are events.
LEMMA EventIs ==
  ASSUME NEW run \in 1 .. Runs, NEW ch \in Channels, NEW ns \in {"root", "child"},
         NEW what \in Statuses \cup AllKinds \cup {"started", "requested"}, NEW src \in Nat
  PROVE  Event(run, ch, ns, what, src) \in SessionEvent
BY DEF Event, SessionEvent

LEMMA RootEventIs ==
  ASSUME NEW s \in Session, NEW status \in Statuses
  PROVE  RootEvent(s, status) \in SessionEvent
<1>1. s.run \in 1 .. Runs /\ "lifecycle" \in Channels
  BY DEF Session, Channels
<1> QED
  BY <1>1, EventIs DEF RootEvent

\* Said twice or not, a status leaves its session with it.
LEMMA SaysIs ==
  ASSUME Structure, NEW s, SameSession(s), NEW status \in Statuses, Says(s, status)
  PROVE  LET t == [s EXCEPT !.root = status] IN
           /\ SameSession(t)
           /\ Quietly(t) \/ Pushes(Now, t, RootEvent(s, status))
<1>1. s \in Session
  BY DEF SameSession
<1> DEFINE t == [s EXCEPT !.root = status]
<1>2. SameSession(t)
  BY DEF SameSession, Session
<1>3. CASE s.root = status
  <2>1. t = s
    BY <1>1, <1>3 DEF Session
  <2> QED
    BY <1>2, <1>3, <2>1 DEF Says
<1>4. CASE s.root # status
  <2>1. Emits(t, RootEvent(s, status))
    BY <1>4 DEF Says
  <2> HIDE DEF t
  <2>2. Pushes(Now, t, RootEvent(s, status))
    BY <1>1, <1>2, <2>1, RootEventIs, EmitsPushes
  <2> QED
    BY <1>2, <2>2 DEF t
<1> QED
  BY <1>3, <1>4

LEMMA ChildCompletedIs ==
  ASSUME Structure, NEW s, SameSession(s), ChildCompleted(s)
  PROVE  \E t, e : SameSession(t) /\ e \in SessionEvent /\ Pushes(Now, t, e)
                   /\ t = [s EXCEPT !.child = "completed"]
<1>1. s \in Session
  BY DEF SameSession
<1> DEFINE t == [s EXCEPT !.child = "completed"]
           e == Event(s.run, "lifecycle", "child", "completed", 0)
<1>2. SameSession(t)
  BY DEF SameSession, Session
<1>3. e \in SessionEvent
  <2>1. s.run \in 1 .. Runs /\ "lifecycle" \in Channels /\ "completed" \in Statuses /\ 0 \in Nat
    BY <1>1 DEF Session, Channels, Statuses
  <2> QED
    BY <2>1, EventIs
<1>4. Emits(t, e)
  BY DEF ChildCompleted
<1> HIDE DEF t, e
<1>5. Pushes(Now, t, e)
  BY <1>2, <1>3, <1>4, EmitsPushes
<1> QED
  BY <1>2, <1>3, <1>5 DEF t

\* A step of the reader that does not bind the next session leaves the sessions, notes
\* something in the one that is bound, or pushes an event of it.
SessionStep ==
  \/ UNCHANGED <<made, sessions, wire, spilt>>
  \/ \E s : SameSession(s) /\ Quietly(s)
  \/ \E s, e : SameSession(s) /\ e \in SessionEvent /\ Pushes(Now, s, e)

LEMMA ItemIs ==
  ASSUME TypeOK, reader.at < Len(tape)
  PROVE  /\ Item \in Entry /\ Item.run \in 1 .. Runs
         /\ reader.at \in Nat /\ reader.at + 1 \in DOMAIN tape
<1>1. tape \in Seq(Entry) /\ reader.at \in 0 .. Len(tape)
  BY DEF TypeOK
<1>2. reader.at + 1 \in 1 .. Len(tape) /\ tape[reader.at + 1] \in Entry
  BY <1>1
<1>3. Item \in Entry
  BY <1>2 DEF Item
<1> QED
  BY <1>1, <1>2, <1>3 DEF Entry

LEMMA RebindsIs ==
  ASSUME Structure, Rebinds
  PROVE  /\ Item.run \in 1 .. Runs
         /\ \E e \in SessionEvent : Pushes(Now + 1, NewSession(Item.run), e)
<1>1. Item.run \in 1 .. Runs
  BY ItemIs DEF Structure, Rebinds, More
<1> DEFINE s == NewSession(Item.run)
<1>2. s \in Session /\ s.hi = Len(made)
  BY <1>1, NewIsSession
<1>3. Pushed(Now + 1, s, RootEvent(s, "running"))
  BY DEF Rebinds
<1> HIDE DEF s
<1>4. RootEvent(s, "running") \in SessionEvent
  BY <1>2, RootEventIs DEF Statuses
<1>5. Now + 1 \in 1 .. Now + 1
  BY DEF Now, Structure, TypeOK
<1>6. Pushes(Now + 1, s, RootEvent(s, "running"))
  BY <1>2, <1>3, <1>4, <1>5, PushedPushes DEF Structure
<1> QED
  BY <1>1, <1>4, <1>6 DEF s

LEMMA EmittingSteps ==
  ASSUME Structure, NEW s, SameSession(s), NEW e \in SessionEvent, Emits(s, e)
  PROVE  SessionStep
BY EmitsPushes DEF SessionStep

LEMMA ReadsSteps ==
  ASSUME Structure, Reads, ~Rebinds
  PROVE  SessionStep
<1> USE DEF Structure
<1>1. CASE SkipsMissed \/ SkipsUnknown
  BY <1>1 DEF SkipsMissed, SkipsUnknown, SessionStep
<1>3. ASSUME sessions # <<>>, reader.at < Len(tape)
      PROVE  /\ SameSession(Bound) /\ Bound \in Session /\ Bound.run \in 1 .. Runs
             /\ reader.at + 1 \in Nat
  <2>1. SameSession(Bound) /\ Bound \in Session
    BY <1>3, BoundIsSession
  <2> QED
    BY <1>3, <2>1, ItemIs DEF Session
<1>4. CASE Forwards
  <2>1. PICK kind \in {"values", "chunk", "works"} :
          /\ Ingesting(kind)
          /\ Emits([Bound EXCEPT !.child = IF kind = "works" THEN "started" ELSE @],
                   Event(Bound.run, IF kind = "chunk" THEN "messages" ELSE "values",
                         IF kind = "works" THEN "child" ELSE "root", kind, reader.at + 1))
    BY <1>4 DEF Forwards
  <2>2. sessions # <<>> /\ reader.at < Len(tape)
    BY <2>1 DEF Ingesting, More, IsBound
  <2> DEFINE s == [Bound EXCEPT !.child = IF kind = "works" THEN "started" ELSE @]
             e == Event(Bound.run, IF kind = "chunk" THEN "messages" ELSE "values",
                        IF kind = "works" THEN "child" ELSE "root", kind, reader.at + 1)
  <2>3. SameSession(s)
    BY <1>3, <2>2 DEF SameSession, Session
  <2>4. e \in SessionEvent
    BY <1>3, <2>2, EventIs DEF Channels, AllKinds
  <2> QED
    BY <2>1, <2>3, <2>4, EmittingSteps
<1>5. CASE OpensChild \/ ClosesChild
  <2>1. sessions # <<>> /\ reader.at < Len(tape)
    BY <1>5 DEF OpensChild, ClosesChild, Ingesting, More, IsBound
  <2> DEFINE s == [Bound EXCEPT !.opened = TRUE, !.child = "started"]
             e == Event(Bound.run, "lifecycle", "child", "started", reader.at + 1)
  <2>2. SameSession(s)
    BY <1>3, <2>1 DEF SameSession, Session
  <2>3. e \in SessionEvent
    BY <1>3, <2>1, EventIs DEF Channels
  <2>4. Quietly(Bound) \/ Emits(s, e) \/ ChildCompleted(Bound)
    BY <1>5 DEF OpensChild, ClosesChild
  <2> HIDE DEF s, e
  <2>5. CASE Quietly(Bound)
    BY <1>3, <2>1, <2>5 DEF SessionStep
  <2>6. CASE Emits(s, e)
    BY <2>2, <2>3, <2>6, EmittingSteps
  <2>7. CASE ChildCompleted(Bound)
    BY <1>3, <2>1, <2>7, ChildCompletedIs DEF SessionStep
  <2> QED
    BY <2>4, <2>5, <2>6, <2>7
<1>6. CASE Fails
  <2>1. sessions # <<>> /\ reader.at < Len(tape)
    BY <1>6 DEF Fails, Ingesting, More, IsBound
  <2> DEFINE s == [Bound EXCEPT !.latched = TRUE, !.root = "failed"]
  <2>2. SameSession(s)
    BY <1>3, <2>1 DEF SameSession, Session, Statuses
  <2>3. RootEvent(Bound, "failed") \in SessionEvent
    BY <1>3, <2>1, RootEventIs DEF Statuses
  <2>4. Emits(s, RootEvent(Bound, "failed"))
    BY <1>6 DEF Fails
  <2> QED
    BY <2>2, <2>3, <2>4, EmittingSteps
<1>7. CASE AsksInput
  <2>1. sessions # <<>> /\ reader.at < Len(tape)
    BY <1>7 DEF AsksInput, Ingesting, More, IsBound
  <2> DEFINE s == [Bound EXCEPT !.asked = TRUE]
             e == Event(Bound.run, "input", "root", "requested", 0)
  <2>2. SameSession(s)
    BY <1>3, <2>1 DEF SameSession, Session
  <2>3. e \in SessionEvent
    BY <1>3, <2>1, EventIs DEF Channels
  <2>4. Quietly(Bound) \/ Emits(s, e)
    BY <1>7 DEF AsksInput
  <2> HIDE DEF s, e
  <2>5. CASE Quietly(Bound)
    BY <1>3, <2>1, <2>5 DEF SessionStep
  <2> QED
    BY <2>2, <2>3, <2>4, <2>5, EmittingSteps
<1>8. ASSUME NEW s, SameSession(s), NEW status \in Statuses, Says(s, status)
      PROVE  SessionStep
  <2>1. s \in Session
    BY <1>8 DEF SameSession
  <2>2. RootEvent(s, status) \in SessionEvent
    BY <1>8, <2>1, RootEventIs
  <2> QED
    BY <1>8, <2>2, SaysIs DEF SessionStep
<1>9. ASSUME reader.step # "next"
      PROVE  /\ SameSession(Bound) /\ SameSession([Bound EXCEPT !.latched = TRUE])
             /\ SameSession([Bound EXCEPT !.latched = TRUE, !.lost = TRUE])
  <2>1. SameSession(Bound)
    BY <1>3, <1>9 DEF ReaderIsBound
  <2> QED
    BY <2>1 DEF SameSession, Session
<1>10. CASE SaysInterrupted
  <2>1. reader.step # "next" /\ Says([Bound EXCEPT !.latched = TRUE], "interrupted")
    BY <1>10 DEF SaysInterrupted
  <2> QED
    BY <1>8, <1>9, <2>1 DEF Statuses
<1>11. CASE StartsTerminal
  BY <1>3, <1>11 DEF StartsTerminal, Ingesting, More, IsBound, SessionStep
<1>12. CASE ReadsRow \/ ReadsState
  <2>1. reader.step # "next"
    BY <1>12 DEF ReadsRow, ReadsState
  <2>2. \/ Quietly(Bound) \/ Quietly([Bound EXCEPT !.latched = TRUE])
        \/ Quietly([Bound EXCEPT !.latched = TRUE, !.lost = TRUE])
    BY <1>12 DEF ReadsRow, ReadsState, Tells
  <2> QED
    BY <1>9, <2>1, <2>2 DEF SessionStep
<1>13. CASE Flushes
  <2>1. reader.step # "next" /\ reader.told \in Statuses
    BY <1>13 DEF Flushes, TypeOK
  <2>2. CASE ChildCompleted(Bound)
    BY <1>9, <2>1, <2>2, ChildCompletedIs DEF SessionStep
  <2>3. CASE Says(Bound, reader.told)
    BY <1>8, <1>9, <2>1, <2>3
  <2> QED
    BY <1>13, <2>2, <2>3 DEF Flushes
<1> QED
  BY <1>1, <1>4, <1>5, <1>6, <1>7, <1>10, <1>11, <1>12, <1>13 DEF Reads

-----------------------------------------------------------------------------
(* The structure of the sessions *)

LEMMA SeqWidens ==
  ASSUME NEW S, NEW T, S \subseteq T, NEW q \in Seq(S)
  PROVE  q \in Seq(T)
<1>1. Len(q) \in Nat /\ q \in [1 .. Len(q) -> S]
  OBVIOUS
<1>2. q \in [1 .. Len(q) -> T]
  BY <1>1
<1> QED
  BY <1>1, <1>2

Sends(top) == [n : 1 .. top, to : SUBSET Subs, k : Nat]

\* A session as it is before it numbers its next event.
Ready(k, s) ==
  /\ s \in Session /\ s.hi = Len(made) /\ s.lo <= s.hi /\ s.hi - s.lo <= MaxBuffer
  /\ \/ k = Now /\ sessions # <<>> /\ s.subs = Bound.subs
     \/ k = Now + 1 /\ \A x \in Subs : s.subs[x].mode # "silent"

LEMMA SameIsReady ==
  ASSUME Structure, NEW s, SameSession(s)
  PROVE  Ready(Now, s)
BY BoundIsSession DEF Structure, ReaderIsBound, SameSession, Ready

LEMMA NewIsReady ==
  ASSUME Structure, NEW run \in 1 .. Runs
  PROVE  Ready(Now + 1, NewSession(run))
<1> DEFINE s == NewSession(run)
<1>1. /\ s \in Session /\ s.lo = Len(made) /\ s.hi = Len(made)
      /\ \A x \in Subs : s.subs[x] = NoSub \/ s.subs[x].mode = "active"
  BY NewIsSession
<1> HIDE DEF s
<1>2. Len(made) \in Nat /\ MaxBuffer \in Nat
  BY ConstantsAssumption DEF Structure, TypeOK
<1>3. \A x \in Subs : s.subs[x].mode # "silent"
  BY <1>1 DEF NoSub
<1> QED
  BY <1>1, <1>2, <1>3 DEF Ready, s

\* What the sessions, the wire and the replay are like, the reader aside.
SessionsHold ==
  /\ made \in Seq(SessionEvent) /\ sessions \in Seq(Session)
  /\ \A k \in DOMAIN sessions :
       /\ sessions[k].lo <= sessions[k].hi /\ sessions[k].hi <= Len(made)
       /\ sessions[k].hi - sessions[k].lo <= MaxBuffer
  /\ wire \in Seq(Sends(Len(made)))
  /\ spilt \subseteq 1 .. Len(made)
  /\ replay \in [on : BOOLEAN, x : Subs, k : Nat, todo : SUBSET Nat, upto : Nat]
  /\ sessions = <<>> => made = <<>> /\ wire = <<>> /\ ~replay.on
  /\ sessions # <<>> => Bound.hi = Len(made)
  /\ WireIsNumbered /\ ReplayIsSilent

LEMMA Appended ==
  ASSUME NEW T, NEW q \in Seq(T), NEW r \in T
  PROVE  /\ Append(q, r) \in Seq(T) /\ Len(Append(q, r)) = Len(q) + 1
         /\ Append(q, r)[Len(q) + 1] = r
         /\ \A i \in 1 .. Len(q) : Append(q, r)[i] = q[i]
OBVIOUS

LEMMA StructureHolds == Structure => SessionsHold
BY DEF Structure, SessionsHold, TypeOK, ReaderIsBound, Sends

\* An event is sent once, or not at all.
LEMMA PushSends ==
  ASSUME SessionsHold, NEW k \in Nat, NEW s, Pushes(k, s, made'[Len(made) + 1])
  PROVE  /\ wire' \in Seq(Sends(Len(made) + 1)) /\ wire \in Seq(Sends(Len(made) + 1))
         /\ \A i \in 1 .. Len(wire) : wire'[i] = wire[i]
         /\ \/ wire' = wire
            \/ /\ Len(wire') = Len(wire) + 1
               /\ wire'[Len(wire) + 1] =
                    [n |-> Len(made) + 1,
                     to |-> Hearing(s, made'[Len(made) + 1], {"active"}), k |-> k]
<1> DEFINE top == Len(made) + 1
           heard == Hearing(s, made'[top], {"active"})
<1>1. Len(made) \in Nat /\ wire \in Seq(Sends(Len(made)))
  BY DEF SessionsHold
<1>2. Sends(Len(made)) \subseteq Sends(top)
  BY <1>1 DEF Sends
<1>3. wire \in Seq(Sends(top))
  BY <1>1, <1>2, SeqWidens
<1>4. heard \in SUBSET Subs
  BY DEF Hearing
<1>5. wire' = wire \/ wire' = Append(wire, [n |-> top, to |-> heard, k |-> k])
  BY DEF Pushes, Sent
<1>6. top \in Nat /\ top \in 1 .. top
  BY <1>1
<1> HIDE DEF heard, top
<1>7. CASE wire' = wire
  BY <1>3, <1>7 DEF top
<1>8. CASE wire' = Append(wire, [n |-> top, to |-> heard, k |-> k])
  <2>1. /\ wire' \in Seq(Sends(top)) /\ Len(wire') = Len(wire) + 1
        /\ wire'[Len(wire) + 1] = [n |-> top, to |-> heard, k |-> k]
        /\ \A i \in 1 .. Len(wire) : wire'[i] = wire[i]
    <3> DEFINE r == [n |-> top, to |-> heard, k |-> k]
    <3>1. r \in Sends(top)
      BY <1>4, <1>6 DEF Sends
    <3>2. wire' = Append(wire, r)
      BY <1>8
    <3> HIDE DEF r
    <3>3. /\ wire' \in Seq(Sends(top)) /\ Len(wire') = Len(wire) + 1
          /\ wire'[Len(wire) + 1] = r
          /\ \A i \in 1 .. Len(wire) : wire'[i] = wire[i]
      BY <1>3, <3>1, <3>2, Appended
    <3> QED
      BY <3>3 DEF r
  <2> QED
    BY <1>3, <2>1 DEF top, heard
<1> QED
  BY <1>5, <1>7, <1>8

LEMMA PushKeeps ==
  ASSUME SessionsHold, NEW k, NEW s, Ready(k, s), NEW e \in SessionEvent, Pushes(k, s, e),
         UNCHANGED replay
  PROVE  SessionsHold'
<1> DEFINE top == Len(made) + 1
           t == [s EXCEPT !.hi = top, !.lo = Held(s.lo, top)]
<1>1. /\ Len(made) \in Nat /\ Now \in Nat /\ Now = Len(sessions) /\ sessions \in Seq(Session)
      /\ (sessions # <<>> => Now > 0) /\ MaxBuffer \in Nat \ {0}
  BY ConstantsAssumption DEF SessionsHold, Now
<1>2. /\ made' \in Seq(SessionEvent) /\ Len(made') = top /\ made'[top] = e
      /\ sessions' \in Seq(Session) /\ Len(sessions') = k /\ sessions'[k] = t
      /\ \A j \in 1 .. k - 1 : sessions'[j] = sessions[j]
  BY DEF Pushes
<1>3. k \in Nat \ {0} /\ k <= Now + 1 /\ Now <= k
  BY <1>1 DEF Ready
<1>4. Held(s.lo, top) \in Nat /\ s.lo <= Held(s.lo, top) /\ Held(s.lo, top) <= top
      /\ top - Held(s.lo, top) <= MaxBuffer
  BY <1>1 DEF Ready, Session, Held
<1>5. t \in Session /\ t.hi = top /\ t.lo = Held(s.lo, top) /\ t.subs = s.subs
  <2> DEFINE lo == Held(s.lo, top)
  <2>1. lo \in Nat /\ top \in Nat
    BY <1>1, <1>4
  <2> HIDE DEF lo, top
  <2> QED
    BY <2>1 DEF Ready, Session, lo
<1>6. Pushes(k, s, made'[Len(made) + 1])
  BY <1>2
<1>7. /\ wire' \in Seq(Sends(top)) /\ \A i \in 1 .. Len(wire) : wire'[i] = wire[i]
      /\ \/ wire' = wire
         \/ /\ Len(wire') = Len(wire) + 1 /\ wire'[Len(wire) + 1].n = top
            /\ wire'[Len(wire) + 1].k = k
  <2>1. k \in Nat
    BY <1>3
  <2>2. /\ wire' \in Seq(Sends(Len(made) + 1)) /\ wire \in Seq(Sends(Len(made) + 1))
        /\ \A i \in 1 .. Len(wire) : wire'[i] = wire[i]
        /\ \/ wire' = wire
           \/ /\ Len(wire') = Len(wire) + 1
              /\ wire'[Len(wire) + 1] =
                   [n |-> Len(made) + 1,
                    to |-> Hearing(s, made'[Len(made) + 1], {"active"}), k |-> k]
    BY <1>6, <2>1, PushSends
  <2> QED
    BY <2>2
<1>8. spilt' \subseteq 1 .. top
  <2>1. spilt' \subseteq spilt \cup (replay.upto + 1 .. Held(s.lo, top))
    BY DEF Pushes
  <2>2. replay.upto \in Nat /\ spilt \subseteq 1 .. Len(made)
    BY DEF SessionsHold
  <2> DEFINE lo == Held(s.lo, top)
  <2>3. lo \in Nat /\ lo <= top
    BY <1>4
  <2> HIDE DEF lo
  <2> QED
    BY <1>1, <2>1, <2>2, <2>3 DEF lo
<1> HIDE DEF t
<1>9. Now' = k /\ sessions' # <<>> /\ Bound' = t
  BY <1>2, <1>3 DEF Now, Bound
<1>10. \A j \in 1 .. k - 1 : j \in DOMAIN sessions /\ sessions'[j] = sessions[j]
  BY <1>1, <1>2, <1>3
<1>11. \A j \in DOMAIN sessions' :
         /\ sessions'[j].lo <= sessions'[j].hi /\ sessions'[j].hi <= top
         /\ sessions'[j].hi - sessions'[j].lo <= MaxBuffer
  <2>1. \A j \in 1 .. k - 1 :
         /\ sessions[j].lo <= sessions[j].hi /\ sessions[j].hi <= top
         /\ sessions[j].hi - sessions[j].lo <= MaxBuffer
    <3>1. ASSUME NEW j \in 1 .. k - 1 PROVE sessions[j] \in Session
      BY <1>1, <1>10
    <3> QED
      BY <1>1, <1>10, <3>1 DEF SessionsHold, Session
  <2> QED
    BY <1>2, <1>3, <1>4, <1>5, <2>1
<1>12. WireIsNumbered'
  <2>1. ASSUME NEW i \in 1 .. Len(wire)
        PROVE  wire[i].k \in 1 .. k /\ wire[i].n <= sessions'[wire[i].k].hi
    <3>1. /\ wire[i].k \in 1 .. Now /\ wire[i].n <= sessions[wire[i].k].hi
          /\ wire[i].n \in 1 .. Len(made)
      <4>1. wire[i] \in Sends(Len(made)) /\ i \in DOMAIN wire
        BY DEF SessionsHold
      <4> QED
        BY <1>1, <4>1 DEF SessionsHold, WireIsNumbered, Sends
    <3>2. CASE wire[i].k = k
      BY <1>1, <1>2, <1>3, <1>5, <3>1, <3>2
    <3>3. CASE wire[i].k # k
      BY <1>1, <1>3, <1>10, <3>1, <3>3
    <3> QED
      BY <3>2, <3>3
  <2>2. Len(wire) \in Nat /\ DOMAIN wire' = 1 .. Len(wire') /\ DOMAIN sessions' = 1 .. k
    BY <1>2, <1>7 DEF SessionsHold
  <2>3. CASE wire' = wire
    BY <2>1, <2>2, <2>3 DEF WireIsNumbered
  <2>4. CASE Len(wire') = Len(wire) + 1 /\ wire'[Len(wire) + 1].n = top
             /\ wire'[Len(wire) + 1].k = k
    BY <1>1, <1>2, <1>3, <1>5, <1>7, <2>1, <2>2, <2>4 DEF WireIsNumbered
  <2> QED
    BY <1>7, <2>3, <2>4
<1>13. ReplayIsSilent'
  <2>1. DOMAIN sessions' = 1 .. k /\ DOMAIN sessions = 1 .. Now
    BY <1>1, <1>2
  <2>2. k = Now => t.subs = sessions[k].subs
    BY <1>1, <1>5 DEF Ready, Bound
  <2>3. k = Now => sessions[k].hi = Len(made)
    BY <1>1 DEF SessionsHold, Ready, Bound
  <2>4. k # Now => k = Now + 1 /\ \A x \in Subs : t.subs[x].mode # "silent"
    BY <1>5 DEF Ready
  <2>5. ASSUME replay.on
        PROVE  /\ replay.k \in 1 .. k /\ replay.upto <= sessions'[replay.k].hi
               /\ sessions'[replay.k].subs[replay.x].mode = "silent"
    <3>1. /\ replay.k \in 1 .. Now /\ replay.upto <= sessions[replay.k].hi
          /\ sessions[replay.k].subs[replay.x].mode = "silent" /\ replay.upto \in Nat
      BY <2>1, <2>5 DEF SessionsHold, ReplayIsSilent
    <3>2. CASE replay.k = k
      BY <1>1, <1>2, <1>5, <2>2, <2>3, <2>4, <3>1, <3>2
    <3>3. CASE replay.k # k
      BY <1>1, <1>3, <1>10, <3>1, <3>3
    <3> QED
      BY <3>2, <3>3
  <2>6. replay.on => replay.todo \subseteq 1 .. replay.upto
    BY DEF SessionsHold, ReplayIsSilent
  <2>7. ASSUME NEW j \in 1 .. k, NEW x \in Subs, sessions'[j].subs[x].mode = "silent"
        PROVE  replay.on /\ j = replay.k /\ x = replay.x
    <3>1. CASE j = k
      BY <1>1, <1>2, <2>1, <2>2, <2>4, <2>7, <3>1 DEF SessionsHold, ReplayIsSilent, Ready
    <3>2. CASE j # k
      BY <1>3, <1>10, <2>1, <2>7, <3>2 DEF SessionsHold, ReplayIsSilent
    <3> QED
      BY <3>1, <3>2
  <2> QED
    BY <2>1, <2>5, <2>6, <2>7 DEF ReplayIsSilent
<1>14. replay' \in [on : BOOLEAN, x : Subs, k : Nat, todo : SUBSET Nat, upto : Nat]
  BY DEF SessionsHold
<1> QED
  BY <1>2, <1>5, <1>7, <1>8, <1>9, <1>11, <1>12, <1>13, <1>14 DEF SessionsHold

LEMMA QuietKeeps ==
  ASSUME SessionsHold, TypeOK, NEW s, SameSession(s), Quietly(s), UNCHANGED replay
  PROVE  /\ SessionsHold' /\ Now' = Now /\ sessions' # <<>> /\ Bound' = s
         /\ \A k \in 1 .. Now - 1 : sessions'[k] = sessions[k]
<1>1. /\ sessions \in Seq(Session) /\ s \in Session /\ Now \in DOMAIN sessions
      /\ Now = Len(sessions) /\ Now \in Nat \ {0} /\ sessions # <<>>
  BY BoundIsSession DEF TypeOK, SameSession, Now
<1>2. sessions' = [sessions EXCEPT ![Now] = s] /\ UNCHANGED <<made, wire, spilt>>
  BY DEF Quietly
<1>3. /\ sessions' \in Seq(Session) /\ Len(sessions') = Now /\ sessions'[Now] = s
      /\ \A k \in DOMAIN sessions : k # Now => sessions'[k] = sessions[k]
  BY <1>1, <1>2
<1>4. DOMAIN sessions' = DOMAIN sessions /\ DOMAIN sessions = 1 .. Now
  BY <1>1, <1>3
<1>5. Now' = Now /\ sessions' # <<>> /\ Bound' = s
  BY <1>1, <1>3 DEF Now, Bound
<1>6. \A k \in DOMAIN sessions :
        /\ sessions'[k].lo = sessions[k].lo /\ sessions'[k].hi = sessions[k].hi
        /\ sessions'[k].subs = sessions[k].subs
  BY <1>1, <1>3 DEF SameSession, Bound
<1>7. WireIsNumbered'
  BY <1>2, <1>4, <1>6 DEF SessionsHold, WireIsNumbered
<1>8. ReplayIsSilent'
  BY <1>4, <1>6 DEF SessionsHold, ReplayIsSilent
<1>9. Bound'.hi = Len(made)
  BY <1>1, <1>5 DEF SessionsHold, SameSession
<1> QED
  BY <1>2, <1>3, <1>4, <1>5, <1>6, <1>7, <1>8, <1>9 DEF SessionsHold

\* A step that installs, activates or removes one subscription of one session.
Resubscribed(k, x, sub) ==
  /\ sessions' \in Seq(Session) /\ Len(sessions') = Len(sessions)
  /\ \A j \in DOMAIN sessions : j # k => sessions'[j] = sessions[j]
  /\ sessions'[k] = [sessions[k] EXCEPT !.subs = [sessions[k].subs EXCEPT ![x] = sub]]

LEMMA Resubscribes ==
  ASSUME sessions \in Seq(Session), NEW k \in DOMAIN sessions, NEW x \in Subs,
         NEW sub \in Subscription, sessions' = [sessions EXCEPT ![k].subs[x] = sub]
  PROVE  Resubscribed(k, x, sub)
<1>1. sessions[k] \in Session
  OBVIOUS
<1> DEFINE t == [sessions[k] EXCEPT !.subs = [sessions[k].subs EXCEPT ![x] = sub]]
<1>2. t \in Session
  <2> DEFINE subs == [sessions[k].subs EXCEPT ![x] = sub]
  <2>1. subs \in [Subs -> Subscription]
    BY <1>1 DEF Session
  <2> HIDE DEF subs
  <2> QED
    BY <1>1, <2>1 DEF Session, subs
<1>3. sessions' = [sessions EXCEPT ![k] = t]
  OBVIOUS
<1> HIDE DEF t
<1>4. /\ sessions' \in Seq(Session) /\ Len(sessions') = Len(sessions) /\ sessions'[k] = t
      /\ \A j \in DOMAIN sessions : j # k => sessions'[j] = sessions[j]
  BY <1>2, <1>3
<1> QED
  BY <1>4 DEF Resubscribed, t

LEMMA ResubscribedIs ==
  ASSUME SessionsHold, NEW k \in DOMAIN sessions, NEW x \in Subs, NEW sub \in Subscription,
         Resubscribed(k, x, sub)
  PROVE  /\ DOMAIN sessions' = DOMAIN sessions /\ Now' = Now /\ sessions' # <<>>
         /\ sessions \in Seq(Session) /\ DOMAIN sessions = 1 .. Len(sessions)
         /\ \A j \in DOMAIN sessions :
              /\ sessions'[j].lo = sessions[j].lo /\ sessions'[j].hi = sessions[j].hi
              /\ sessions'[j].run = sessions[j].run /\ sessions'[j].root = sessions[j].root
              /\ sessions'[j].latched = sessions[j].latched
              /\ sessions'[j].lost = sessions[j].lost
              /\ \A y \in Subs : sessions'[j].subs[y] =
                   IF j = k /\ y = x THEN sub ELSE sessions[j].subs[y]
<1>1. /\ sessions \in Seq(Session) /\ sessions' \in Seq(Session)
      /\ Len(sessions') = Len(sessions)
      /\ \A j \in DOMAIN sessions : j # k => sessions'[j] = sessions[j]
      /\ sessions'[k] = [sessions[k] EXCEPT !.subs = [sessions[k].subs EXCEPT ![x] = sub]]
  BY DEF Resubscribed, SessionsHold
<1>2. sessions[k] \in Session
  BY <1>1
<1>3. /\ sessions'[k].lo = sessions[k].lo /\ sessions'[k].hi = sessions[k].hi
      /\ sessions'[k].run = sessions[k].run /\ sessions'[k].root = sessions[k].root
      /\ sessions'[k].latched = sessions[k].latched
      /\ sessions'[k].lost = sessions[k].lost
      /\ sessions'[k].subs = [sessions[k].subs EXCEPT ![x] = sub]
  BY <1>1, <1>2 DEF Session
<1>4. sessions[k].subs \in [Subs -> Subscription]
  BY <1>2 DEF Session
<1>5. \A y \in Subs : sessions'[k].subs[y] = IF y = x THEN sub ELSE sessions[k].subs[y]
  BY <1>3, <1>4
<1>6. DOMAIN sessions' = DOMAIN sessions /\ Now' = Now /\ sessions' # <<>>
      /\ DOMAIN sessions = 1 .. Len(sessions)
  BY <1>1 DEF Now
<1>7. ASSUME NEW j \in DOMAIN sessions, j # k
      PROVE  sessions'[j] = sessions[j]
  BY <1>1, <1>7
<1> HIDE <1>1
<1> QED
  BY <1>1, <1>3, <1>5, <1>6, <1>7

\* Whoever is left silent has a replay under way.
LEMMA ResubscribedKeeps ==
  ASSUME SessionsHold, NEW k \in DOMAIN sessions, NEW x \in Subs, NEW sub \in Subscription,
         Resubscribed(k, x, sub), UNCHANGED <<made, wire, spilt>>,
         replay' \in [on : BOOLEAN, x : Subs, k : Nat, todo : SUBSET Nat, upto : Nat],
         \/ ~replay'.on /\ sub.mode # "silent" /\ (replay.on => k = replay.k /\ x = replay.x)
         \/ /\ replay'.on /\ replay'.k = k /\ replay'.x = x /\ sub.mode = "silent"
            /\ ~replay.on
            /\ replay'.upto <= sessions[k].hi /\ replay'.todo \subseteq 1 .. replay'.upto
  PROVE  SessionsHold'
<1>1. /\ DOMAIN sessions' = DOMAIN sessions /\ Now' = Now /\ sessions' # <<>>
      /\ sessions \in Seq(Session) /\ DOMAIN sessions = 1 .. Len(sessions)
      /\ \A j \in DOMAIN sessions :
           /\ sessions'[j].lo = sessions[j].lo /\ sessions'[j].hi = sessions[j].hi
           /\ \A y \in Subs : sessions'[j].subs[y] =
                IF j = k /\ y = x THEN sub ELSE sessions[j].subs[y]
  BY ResubscribedIs
<1>2. sessions' \in Seq(Session)
  BY DEF Resubscribed
<1>3. sessions # <<>> /\ Now \in DOMAIN sessions
  BY <1>1 DEF Now
<1>4. Bound'.hi = Len(made)'
  BY <1>1, <1>3 DEF SessionsHold, Bound
<1>5. WireIsNumbered'
  BY <1>1 DEF SessionsHold, WireIsNumbered
<1>6. ReplayIsSilent'
  <2>1. ASSUME NEW j \in DOMAIN sessions, NEW y \in Subs,
               sessions'[j].subs[y].mode = "silent"
        PROVE  replay'.on /\ j = replay'.k /\ y = replay'.x
    <3>1. CASE j = k /\ y = x
      BY <1>1, <2>1, <3>1
    <3>2. CASE ~(j = k /\ y = x)
      <4>1. sessions[j].subs[y].mode = "silent"
        BY <1>1, <2>1, <3>2
      <4>2. replay.on /\ j = replay.k /\ y = replay.x
        BY <4>1 DEF SessionsHold, ReplayIsSilent
      <4> QED
        BY <3>2, <4>2
    <3> QED
      BY <3>1, <3>2
  <2>2. replay'.on => /\ replay'.k \in DOMAIN sessions'
                      /\ replay'.upto <= sessions'[replay'.k].hi
                      /\ replay'.todo \subseteq 1 .. replay'.upto
                      /\ sessions'[replay'.k].subs[replay'.x].mode = "silent"
    BY <1>1
  <2> QED
    BY <1>1, <2>1, <2>2 DEF ReplayIsSilent
<1>7. \A j \in DOMAIN sessions' :
        /\ sessions'[j].lo <= sessions'[j].hi /\ sessions'[j].hi <= Len(made)'
        /\ sessions'[j].hi - sessions'[j].lo <= MaxBuffer
  BY <1>1 DEF SessionsHold
<1> QED
  BY <1>1, <1>2, <1>4, <1>5, <1>6, <1>7 DEF SessionsHold

-----------------------------------------------------------------------------
(* Commands and replays *)

LEMMA IdleIs == /\ Idle \in [on : BOOLEAN, x : Subs, k : Nat, todo : SUBSET Nat, upto : Nat]
                /\ ~Idle.on
BY ConstantsAssumption DEF Idle

\* A subscription installed for what is above floor, of which what the buffer has
\* above cursor is replayed.
Installing(x, floor, cursor) ==
  LET todo == Matching(Now, x, cursor) IN
  /\ x \in Subs /\ floor \in Nat /\ cursor \in Nat /\ sessions # <<>>
  /\ Bound.lo <= floor /\ cursor <= floor
  /\ Resubscribed(Now, x, [mode |-> IF todo = {} THEN "active" ELSE "silent",
                           floor |-> floor, since |-> Len(wire)])
  /\ replay' = IF todo = {} THEN replay
               ELSE [on |-> TRUE, x |-> x, k |-> Now, todo |-> todo, upto |-> Bound.hi]

LEMMA InstallsIs ==
  ASSUME Structure, sessions # <<>>, NEW x \in Subs, NEW floor \in Nat, NEW cursor \in Nat,
         Bound.lo <= floor, cursor <= floor, Installs(x, floor, cursor)
  PROVE  Installing(x, floor, cursor)
<1> DEFINE todo == Matching(Now, x, cursor)
           sub == [mode |-> IF todo = {} THEN "active" ELSE "silent",
                   floor |-> floor, since |-> Len(wire)]
<1>1. sessions \in Seq(Session) /\ Now \in DOMAIN sessions /\ Len(wire) \in Nat
  <2>1. TypeOK
    BY DEF Structure
  <2>2. Now \in DOMAIN sessions
    BY <2>1, BoundIsSession
  <2>3. sessions \in Seq(Session) /\ Len(wire) \in Nat
    BY <2>1 DEF TypeOK
  <2> QED
    BY <2>2, <2>3
<1> HIDE DEF todo
<1>2. sub \in Subscription
  BY <1>1 DEF Subscription
<1>3. sessions' = [sessions EXCEPT ![Now].subs[x] = sub]
  BY DEF Installs, todo
<1>4. replay' = IF todo = {} THEN replay
                ELSE [on |-> TRUE, x |-> x, k |-> Now, todo |-> todo, upto |-> Bound.hi]
  BY DEF Installs, todo
<1> HIDE DEF sub
<1>5. Resubscribed(Now, x, sub)
  BY <1>1, <1>2, <1>3, Resubscribes
<1> QED
  BY <1>4, <1>5 DEF Installing, todo, sub

\* A command installs or removes one subscription of the session that is bound.
CommandStep ==
  \/ UNCHANGED <<sessions, replay>>
  \/ \E x \in Subs : sessions # <<>> /\ Resubscribed(Now, x, NoSub) /\ UNCHANGED replay
  \/ \E x, floor, cursor : Installing(x, floor, cursor)

LEMMA CursorIs ==
  ASSUME Structure, NEW since \in Cursors
  PROVE  since \in Nat
<1>1. wire \in Seq(Sends(Len(made))) /\ Len(made) \in Nat
  BY DEF Structure, TypeOK, Sends
<1>2. \A i \in DOMAIN wire : wire[i] \in Sends(Len(made))
  BY <1>1
<1> QED
  BY <1>1, <1>2 DEF Cursors, Sends

LEMMA ServesCommandsIs ==
  ASSUME Structure, ServesCommands
  PROVE  /\ Commands /\ parked' \subseteq Subs /\ CommandStep
<1> USE DEF Structure
<1>1. PICK x \in Subs : \/ Subscribes(x) \/ Unsubscribes(x)
                        \/ \E since \in Cursors : Reconnects(x, since)
  BY DEF ServesCommands
<1>2. parked \subseteq Subs
  BY DEF TypeOK
<1>3. sessions # <<>> => Bound.lo \in Nat /\ sessions \in Seq(Session) /\ Now \in DOMAIN sessions
  BY BoundIsSession DEF Session, TypeOK
<1>4. CASE Subscribes(x)
  <2>1. CASE sessions = <<>>
    BY <1>2, <1>4, <2>1 DEF Subscribes, CommandStep
  <2>2. CASE sessions # <<>>
    <3>1. Installs(x, Bound.lo, 0) /\ Commands /\ parked' = parked
      BY <1>4, <2>2 DEF Subscribes, Installs
    <3>2. Installing(x, Bound.lo, 0)
      BY <1>3, <2>2, <3>1, InstallsIs
    <3> QED
      BY <1>2, <3>1, <3>2 DEF CommandStep
  <2> QED
    BY <2>1, <2>2
<1>5. CASE Unsubscribes(x)
  <2>1. CASE sessions = <<>>
    BY <1>2, <1>5, <2>1 DEF Unsubscribes, CommandStep
  <2>2. CASE sessions # <<>>
    <3>1. sessions' = [sessions EXCEPT ![Now].subs[x] = NoSub]
          /\ UNCHANGED <<parked, replay>> /\ Commands
      BY <1>5, <2>2 DEF Unsubscribes
    <3>2. NoSub \in Subscription
      BY DEF NoSub, Subscription
    <3>3. Resubscribed(Now, x, NoSub)
      BY <1>3, <2>2, <3>1, <3>2, Resubscribes
    <3> QED
      BY <1>2, <2>2, <3>1, <3>3 DEF CommandStep
  <2> QED
    BY <2>1, <2>2
<1>6. ASSUME NEW since \in Cursors, Reconnects(x, since)
      PROVE  Commands /\ parked' \subseteq Subs /\ CommandStep
  <2>1. sessions # <<>> /\ Commands
    BY <1>6 DEF Reconnects
  <2>2. CASE HasGap(since)
    BY <1>2, <1>6, <2>1, <2>2 DEF Reconnects, CommandStep
  <2>3. CASE ~HasGap(since)
    <3>1. Installs(x, since, since) /\ parked' = parked
      BY <1>6, <2>3 DEF Reconnects, Installs
    <3>2. since \in Nat /\ Bound.lo <= since
      BY <1>3, <2>1, <2>3, CursorIs DEF HasGap
    <3>3. Installing(x, since, since)
      BY <2>1, <3>1, <3>2, InstallsIs
    <3> QED
      BY <1>2, <2>1, <3>1, <3>3 DEF CommandStep
  <2> QED
    BY <2>2, <2>3
<1> QED
  BY <1>1, <1>4, <1>5, <1>6

LEMMA MatchingIs ==
  ASSUME SessionsHold, NEW k \in DOMAIN sessions, NEW x, NEW n \in Nat
  PROVE  Matching(k, x, n) \subseteq 1 .. sessions[k].hi /\ sessions[k].hi \in Nat
         /\ sessions[k] \in Session
<1>1. sessions[k] \in Session
  BY DEF SessionsHold
<1>2. sessions[k].hi \in Nat
  BY <1>1 DEF Session
<1> QED
  BY <1>1, <1>2 DEF Matching

LEMMA ReplayIs ==
  ASSUME NEW x \in Subs, NEW k \in Nat, NEW todo \in SUBSET Nat, NEW upto \in Nat
  PROVE  [on |-> TRUE, x |-> x, k |-> k, todo |-> todo, upto |-> upto] \in
           [on : BOOLEAN, x : Subs, k : Nat, todo : SUBSET Nat, upto : Nat]
OBVIOUS

LEMMA CommandKeeps ==
  ASSUME SessionsHold, Commands, CommandStep
  PROVE  SessionsHold'
<1>1. ~replay.on /\ UNCHANGED <<made, wire, spilt>>
  BY DEF Commands
<1>2. CASE UNCHANGED <<sessions, replay>>
  BY <1>1, <1>2 DEF SessionsHold, WireIsNumbered, ReplayIsSilent, Bound, Now
<1>3. sessions # <<>> => Now \in DOMAIN sessions
  BY DEF SessionsHold, Now
<1>4. ASSUME NEW x \in Subs, sessions # <<>>, Resubscribed(Now, x, NoSub), UNCHANGED replay
      PROVE  SessionsHold'
  <2>1. NoSub \in Subscription /\ NoSub.mode # "silent"
    BY DEF NoSub, Subscription
  <2>2. replay' \in [on : BOOLEAN, x : Subs, k : Nat, todo : SUBSET Nat, upto : Nat]
    BY <1>4 DEF SessionsHold
  <2> QED
    BY <1>1, <1>3, <1>4, <2>1, <2>2, ResubscribedKeeps
<1>5. ASSUME NEW x, NEW floor, NEW cursor, Installing(x, floor, cursor)
      PROVE  SessionsHold'
  <2> DEFINE todo == Matching(Now, x, cursor)
             sub == [mode |-> IF todo = {} THEN "active" ELSE "silent",
                     floor |-> floor, since |-> Len(wire)]
  <2>1. x \in Subs /\ floor \in Nat /\ cursor \in Nat /\ Now \in DOMAIN sessions
        /\ Resubscribed(Now, x, sub)
        /\ replay' = IF todo = {} THEN replay
                     ELSE [on |-> TRUE, x |-> x, k |-> Now, todo |-> todo, upto |-> Bound.hi]
    BY <1>3, <1>5 DEF Installing
  <2>2. Len(wire) \in Nat /\ Now \in Nat
    BY DEF SessionsHold, Now
  <2>3. todo \subseteq 1 .. sessions[Now].hi /\ sessions[Now].hi \in Nat
    BY <2>1, MatchingIs
  <2> HIDE DEF todo
  <2>4. sub \in Subscription /\ sub.mode = IF todo = {} THEN "active" ELSE "silent"
    BY <2>1, <2>2 DEF Subscription
  <2> HIDE DEF sub
  <2>5. CASE todo = {}
    <3>1. replay' = replay /\ sub.mode # "silent"
      BY <2>1, <2>4, <2>5
    <3>2. replay' \in [on : BOOLEAN, x : Subs, k : Nat, todo : SUBSET Nat, upto : Nat]
      BY <3>1 DEF SessionsHold
    <3> QED
      BY <1>1, <2>1, <2>4, <3>1, <3>2, ResubscribedKeeps
  <2>6. CASE todo # {}
    <3>1. /\ replay' = [on |-> TRUE, x |-> x, k |-> Now, todo |-> todo, upto |-> Bound.hi]
          /\ sub.mode = "silent"
      BY <2>1, <2>4, <2>6
    <3>2. replay' \in [on : BOOLEAN, x : Subs, k : Nat, todo : SUBSET Nat, upto : Nat]
      <4>1. todo \in SUBSET Nat /\ Bound.hi \in Nat
        BY <2>3 DEF Bound
      <4>2. x \in Subs /\ Now \in Nat
        BY <2>1, <2>2
      <4>3. [on |-> TRUE, x |-> x, k |-> Now, todo |-> todo, upto |-> Bound.hi] \in
              [on : BOOLEAN, x : Subs, k : Nat, todo : SUBSET Nat, upto : Nat]
        BY <4>1, <4>2, ReplayIs
      <4> QED
        BY <3>1, <4>3
    <3>3. /\ replay'.on /\ replay'.k = Now /\ replay'.x = x
          /\ replay'.upto <= sessions[Now].hi /\ replay'.todo \subseteq 1 .. replay'.upto
      BY <2>3, <3>1 DEF Bound
    <3> QED
      BY <1>1, <2>1, <2>4, <3>1, <3>2, <3>3, ResubscribedKeeps
  <2> QED
    BY <2>5, <2>6
<1> QED
  BY <1>2, <1>4, <1>5 DEF CommandStep

\* A replay comes to its end and wakes its subscription, or finds more.
Drained ==
  /\ Resubscribed(replay.k, replay.x,
                  [sessions[replay.k].subs[replay.x] EXCEPT !.mode = "active"])
  /\ Matching(replay.k, replay.x, replay.upto) = {} /\ replay' = Idle

Extended ==
  /\ replay' = [replay EXCEPT !.todo = Matching(replay.k, replay.x, replay.upto),
                              !.upto = sessions[replay.k].hi]
  /\ UNCHANGED sessions

LEMMA EndsDrainIs ==
  ASSUME Structure, EndsDrain
  PROVE  /\ replay.on /\ replay.todo = {} /\ UNCHANGED wire /\ Replaying
         /\ Drained \/ Extended
<1>1. replay.on /\ replay.todo = {} /\ UNCHANGED wire /\ Replaying
  BY DEF EndsDrain
<1>2. /\ replay.k \in DOMAIN sessions /\ replay.x \in Subs /\ sessions \in Seq(Session)
      /\ sessions[replay.k] \in Session
  BY <1>1 DEF Structure, ReplayIsSilent, TypeOK
<1>3. CASE Matching(replay.k, replay.x, replay.upto) = {}
  <2> DEFINE old == sessions[replay.k].subs[replay.x]
             sub == [old EXCEPT !.mode = "active"]
  <2>1. old \in Subscription
    BY <1>2 DEF Session
  <2>2. sub \in Subscription
    BY <2>1 DEF Subscription
  <2>3. sessions' = [sessions EXCEPT ![replay.k].subs[replay.x].mode = "active"]
        /\ replay' = Idle
    BY <1>3 DEF EndsDrain, Modes
  <2>4. sessions' = [sessions EXCEPT ![replay.k].subs[replay.x] = sub]
    BY <2>3
  <2> HIDE DEF sub
  <2>5. Resubscribed(replay.k, replay.x, sub)
    BY <1>2, <2>2, <2>4, Resubscribes
  <2> QED
    BY <1>1, <1>3, <2>3, <2>5 DEF Drained, sub
<1>4. CASE Matching(replay.k, replay.x, replay.upto) # {}
  BY <1>1, <1>4 DEF EndsDrain, Extended
<1> QED
  BY <1>3, <1>4

LEMMA EndsDrainKeeps ==
  ASSUME Structure, EndsDrain
  PROVE  SessionsHold'
<1>1. /\ replay.on /\ replay.todo = {} /\ UNCHANGED <<made, wire, spilt>>
      /\ Drained \/ Extended
  BY EndsDrainIs DEF Replaying
<1>2. SessionsHold /\ replay.k \in DOMAIN sessions /\ replay.x \in Subs
      /\ replay.upto \in Nat /\ sessions[replay.k] \in Session
  BY <1>1, StructureHolds DEF SessionsHold, ReplayIsSilent
<1>3. CASE Drained
  <2> DEFINE old == sessions[replay.k].subs[replay.x]
             sub == [old EXCEPT !.mode = "active"]
  <2>1. old \in Subscription
    BY <1>2 DEF Session
  <2>2. sub \in Subscription /\ sub.mode = "active"
    BY <2>1 DEF Subscription
  <2>3. Resubscribed(replay.k, replay.x, sub) /\ replay' = Idle
    BY <1>3 DEF Drained
  <2> HIDE DEF sub
  <2>4. /\ replay' \in [on : BOOLEAN, x : Subs, k : Nat, todo : SUBSET Nat, upto : Nat]
        /\ ~replay'.on
    BY <2>3, IdleIs
  <2> QED
    BY <1>1, <1>2, <2>2, <2>3, <2>4, ResubscribedKeeps
<1>4. CASE Extended
  <2> DEFINE todo == Matching(replay.k, replay.x, replay.upto)
             upto == sessions[replay.k].hi
  <2>1. todo \subseteq 1 .. upto /\ upto \in Nat
    BY <1>2, MatchingIs
  <2>2. replay' = [replay EXCEPT !.todo = todo, !.upto = upto] /\ UNCHANGED sessions
    BY <1>4 DEF Extended
  <2> HIDE DEF todo, upto
  <2>3. /\ replay' \in [on : BOOLEAN, x : Subs, k : Nat, todo : SUBSET Nat, upto : Nat]
        /\ replay'.on /\ replay'.k = replay.k /\ replay'.x = replay.x
        /\ replay'.todo = todo /\ replay'.upto = upto
    <3>1. /\ todo \in SUBSET Nat
          /\ replay \in [on : BOOLEAN, x : Subs, k : Nat, todo : SUBSET Nat, upto : Nat]
      BY <1>2, <2>1 DEF SessionsHold
    <3> QED
      BY <1>1, <2>1, <2>2, <3>1
  <2>4. ReplayIsSilent'
    BY <1>1, <1>2, <2>1, <2>2, <2>3 DEF SessionsHold, ReplayIsSilent, upto
  <2>5. WireIsNumbered' /\ Bound' = Bound
    BY <1>1, <1>2, <2>2 DEF SessionsHold, WireIsNumbered, Bound, Now
  <2>6. sessions # <<>>
    BY <1>2
  <2> QED
    BY <1>1, <1>2, <2>2, <2>3, <2>4, <2>5, <2>6 DEF SessionsHold
<1> QED
  BY <1>1, <1>3, <1>4

LEMMA SendsReplayedIs ==
  ASSUME Structure, SendsReplayed
  PROVE  /\ replay.on /\ UNCHANGED sessions /\ Replaying /\ SessionsHold'
         /\ \E n \in replay.todo :
              /\ n \in 1 .. replay.upto /\ \A m \in replay.todo : n <= m
              /\ replay'.todo = replay.todo \ {n} /\ replay'.on /\ replay'.k = replay.k
              /\ replay'.x = replay.x /\ replay'.upto = replay.upto
              /\ Len(wire') = Len(wire) + 1 /\ \A i \in 1 .. Len(wire) : wire'[i] = wire[i]
              /\ wire'[Len(wire) + 1] = [n |-> n, to |-> {replay.x}, k |-> replay.k]
<1>1. replay.on /\ UNCHANGED <<sessions, made, spilt>> /\ Replaying
  BY DEF SendsReplayed, Replaying
<1>2. PICK n \in replay.todo :
        /\ \A m \in replay.todo : n <= m
        /\ wire' = Append(wire, [n |-> n, to |-> {replay.x}, k |-> replay.k])
        /\ replay' = [replay EXCEPT !.todo = @ \ {n}]
  BY DEF SendsReplayed
<1>3. SessionsHold
  BY StructureHolds
<1>4. /\ replay.k \in DOMAIN sessions /\ replay.k \in Nat /\ replay.x \in Subs
      /\ n \in 1 .. replay.upto /\ replay.upto <= sessions[replay.k].hi
      /\ sessions[replay.k].hi <= Len(made) /\ replay.upto \in Nat /\ Len(made) \in Nat
      /\ sessions[replay.k].hi \in Nat /\ sessions # <<>>
  <2>1. /\ replay.k \in DOMAIN sessions /\ replay.upto <= sessions[replay.k].hi
        /\ n \in 1 .. replay.upto /\ replay.upto \in Nat /\ replay.x \in Subs
    BY <1>1, <1>2, <1>3 DEF SessionsHold, ReplayIsSilent
  <2>2. sessions[replay.k] \in Session /\ replay.k \in Nat /\ sessions # <<>>
        /\ sessions[replay.k].hi <= Len(made) /\ Len(made) \in Nat
    BY <1>3, <2>1 DEF SessionsHold
  <2> QED
    BY <2>1, <2>2 DEF Session
<1> DEFINE r == [n |-> n, to |-> {replay.x}, k |-> replay.k]
<1>5. r \in Sends(Len(made))
  BY <1>4 DEF Sends
<1>6. r.n = n /\ r.k = replay.k
  OBVIOUS
<1> HIDE DEF r
<1>7. /\ wire' \in Seq(Sends(Len(made))) /\ Len(wire') = Len(wire) + 1
      /\ wire'[Len(wire) + 1] = r /\ \A i \in 1 .. Len(wire) : wire'[i] = wire[i]
      /\ Len(wire) \in Nat /\ wire \in Seq(Sends(Len(made)))
  <2>1. wire' = Append(wire, r) /\ wire \in Seq(Sends(Len(made)))
    BY <1>2, <1>3 DEF r, SessionsHold
  <2> QED
    BY <1>5, <2>1, Appended
<1>8. /\ replay' \in [on : BOOLEAN, x : Subs, k : Nat, todo : SUBSET Nat, upto : Nat]
      /\ replay'.todo = replay.todo \ {n} /\ replay'.on /\ replay'.k = replay.k
      /\ replay'.x = replay.x /\ replay'.upto = replay.upto
  BY <1>1, <1>2, <1>3 DEF SessionsHold
<1>9. WireIsNumbered'
  <2>1. \A i \in 1 .. Len(wire) : wire[i].k \in DOMAIN sessions /\ wire[i].n <= sessions[wire[i].k].hi
    BY <1>3, <1>7 DEF SessionsHold, WireIsNumbered
  <2>2. n <= sessions[replay.k].hi
    BY <1>4
  <2>3. DOMAIN wire' = 1 .. Len(wire) + 1
    BY <1>7
  <2> QED
    BY <1>1, <1>4, <1>6, <1>7, <2>1, <2>2, <2>3 DEF WireIsNumbered
<1>10. ReplayIsSilent'
  BY <1>1, <1>3, <1>8 DEF SessionsHold, ReplayIsSilent
<1>11. Bound' = Bound
  BY <1>1 DEF Bound, Now
<1>12. SessionsHold'
  BY <1>1, <1>3, <1>4, <1>7, <1>8, <1>9, <1>10, <1>11 DEF SessionsHold
<1> QED
  BY <1>1, <1>2, <1>4, <1>7, <1>8, <1>12 DEF r

-----------------------------------------------------------------------------
(* The structure is invariant *)

ConnTypes ==
  [via : Transports, since : Nat, logged : 0 .. Len(tape),
   opened : 1 .. MaxConnects, commands : 0 .. MaxCommands]
ReaderTypes ==
  [at : 0 .. Len(tape), step : {"next", "asked", "row", "state", "flush"}, told : Statuses]

SourceHolds ==
  /\ row \in [1 .. Runs -> Final \cup {"pending"}]
  /\ tries \in [1 .. Runs -> 0 .. MaxAttempts] /\ waiting \in BOOLEAN
  /\ tape \in Seq(Entry)

\* Between the parts of an item the reader is at an item of the run that is bound.
ReaderHolds ==
  /\ reader \in ReaderTypes
  /\ reader.step # "next" =>
       /\ reader.at < Len(tape) /\ sessions # <<>> /\ Item.run = Bound.run
       /\ Item.kind = IF reader.step = "asked" THEN "input" ELSE "done"

LEMMA StructureIs ==
  Structure <=> /\ SessionsHold /\ SourceHolds /\ ReaderHolds /\ parked \subseteq Subs
                /\ conn \in ConnTypes
                /\ (sessions = <<>> => reader.step = "next")
<1>1. ASSUME Structure
      PROVE  /\ SessionsHold /\ SourceHolds /\ ReaderHolds /\ parked \subseteq Subs
             /\ conn \in ConnTypes /\ (sessions = <<>> => reader.step = "next")
  BY <1>1, StructureHolds DEF Structure, TypeOK, SourceHolds, ReaderHolds, ReaderIsBound,
     ConnTypes, ReaderTypes
<1>2. ASSUME /\ SessionsHold /\ SourceHolds /\ ReaderHolds /\ parked \subseteq Subs
             /\ conn \in ConnTypes /\ (sessions = <<>> => reader.step = "next")
      PROVE  Structure
  <2>1. TypeOK
    BY <1>2 DEF TypeOK, SessionsHold, SourceHolds, ReaderHolds, ConnTypes, ReaderTypes, Sends
  <2>2. ReaderIsBound
    BY <1>2 DEF ReaderIsBound, SessionsHold, ReaderHolds
  <2> QED
    BY <1>2, <2>1, <2>2 DEF Structure, SessionsHold
<1> QED
  BY <1>1, <1>2

\* What the session that is bound is like after a step of the reader.
LEMMA SessionStepIs ==
  ASSUME Structure, SessionStep, UNCHANGED replay
  PROVE  /\ SessionsHold' /\ (sessions # <<>> => sessions' # <<>> /\ Now' = Now)
         /\ (sessions # <<>> => Bound'.run = Bound.run)
         /\ (sessions = <<>> => sessions' = <<>>)
<1>1. SessionsHold
  BY StructureHolds
<1>2. CASE UNCHANGED <<made, sessions, wire, spilt>>
  BY <1>1, <1>2 DEF SessionsHold, WireIsNumbered, ReplayIsSilent, Bound, Now
<1>3. ASSUME NEW s, SameSession(s), Quietly(s)
      PROVE  SessionsHold' /\ sessions # <<>> /\ sessions' # <<>> /\ Now' = Now
             /\ Bound'.run = Bound.run
  <2>1. TypeOK
    BY DEF Structure
  <2> QED
    BY <1>1, <1>3, <2>1, QuietKeeps DEF SameSession
<1>4. ASSUME NEW s, NEW e \in SessionEvent, SameSession(s), Pushes(Now, s, e)
      PROVE  SessionsHold' /\ sessions # <<>> /\ sessions' # <<>> /\ Now' = Now
             /\ Bound'.run = Bound.run
  <2>1. Ready(Now, s)
    BY <1>4, SameIsReady
  <2>2. SessionsHold'
    BY <1>1, <1>4, <2>1, PushKeeps
  <2>3. Now \in Nat \ {0} /\ s \in Session
    BY <1>4, BoundIsSession DEF Structure, SameSession
  <2>4. Len(sessions') = Now
        /\ sessions'[Now] = [s EXCEPT !.hi = Len(made) + 1, !.lo = Held(s.lo, Len(made) + 1)]
    BY <1>4 DEF Pushes
  <2>5. Now' = Now /\ sessions' # <<>> /\ Bound' = sessions'[Now]
    BY <2>3, <2>4 DEF Now, Bound
  <2>6. Bound'.run = s.run
    BY <2>3, <2>4, <2>5 DEF Session
  <2> QED
    BY <1>4, <2>2, <2>5, <2>6 DEF SameSession
<1> QED
  BY <1>2, <1>3, <1>4 DEF SessionStep, Bound, Now

LEMMA RebindsKeeps ==
  ASSUME Structure, Rebinds
  PROVE  /\ SessionsHold' /\ sessions' # <<>> /\ Now' = Now + 1
         /\ Bound'.run = Item.run /\ ~Bound'.latched /\ Bound'.root = "running"
<1>1. PICK e \in SessionEvent : Pushes(Now + 1, NewSession(Item.run), e)
  BY RebindsIs
<1>2. Item.run \in 1 .. Runs /\ UNCHANGED replay
  BY RebindsIs DEF Rebinds, Reading
<1> DEFINE s == NewSession(Item.run)
<1>3. Ready(Now + 1, s)
  BY <1>2, NewIsReady
<1>4. SessionsHold'
  BY <1>1, <1>2, <1>3, StructureHolds, PushKeeps
<1>5. s \in Session /\ s.run = Item.run /\ ~s.latched /\ s.root = "running"
  BY <1>2, NewIsSession
<1> HIDE DEF s
<1>6. Len(sessions') = Now + 1
      /\ sessions'[Now + 1] = [s EXCEPT !.hi = Len(made) + 1, !.lo = Held(s.lo, Len(made) + 1)]
  BY <1>1 DEF Pushes, s
<1>7. Now \in Nat
  BY DEF Now, Structure, TypeOK
<1>8. Now' = Now + 1 /\ sessions' # <<>> /\ Bound' = sessions'[Now + 1]
  BY <1>6, <1>7 DEF Now, Bound
<1> QED
  BY <1>4, <1>5, <1>6, <1>8 DEF Session

\* An item of the tape stays where it is.
LEMMA ItemStays ==
  ASSUME tape \in Seq(Entry), tape' = tape \/ (\E x \in Entry : tape' = Append(tape, x))
  PROVE  /\ tape' \in Seq(Entry) /\ Len(tape) \in Nat /\ Len(tape') \in Nat
         /\ Len(tape) <= Len(tape') /\ \A i \in 1 .. Len(tape) : tape'[i] = tape[i]
OBVIOUS

LEMMA WorksExtends ==
  ASSUME SourceHolds, Works
  PROVE  /\ Connected
         /\ tape' = tape \/ (\E x \in Entry : tape' = Append(tape, x))
<1>1. ASSUME NEW r \in 1 .. Runs, NEW kind \in AllKinds \cup {"error", "done"}
      PROVE  [run |-> r, kind |-> kind] \in Entry
  BY DEF Entry
<1>2. PICK r \in 1 .. Runs :
        \/ MarksDone(r)
        \/ \E kind \in Kinds : Publishes(r, kind)
        \/ \E outcome \in Outcomes : Ends(r, outcome)
  BY DEF Works
<1>3. Kinds \subseteq AllKinds
  BY ConstantsAssumption
<1>4. CASE MarksDone(r)
  BY <1>1, <1>4 DEF MarksDone
<1>5. ASSUME NEW kind \in Kinds, Publishes(r, kind)
      PROVE  Connected /\ \E x \in Entry : tape' = Append(tape, x)
  BY <1>1, <1>3, <1>5 DEF Publishes
<1>6. ASSUME NEW outcome \in Outcomes, Ends(r, outcome)
      PROVE  Connected /\ (tape' = tape \/ \E x \in Entry : tape' = Append(tape, x))
  BY <1>1, <1>6 DEF Ends
<1> QED
  BY <1>2, <1>4, <1>5, <1>6

-----------------------------------------------------------------------------
(* The worker's account of its runs *)

\* A new entry at the end of the tape.
LEMMA OutAppended ==
  ASSUME tape \in Seq(Entry), NEW q \in 1 .. Runs, NEW what \in AllKinds \cup {"error", "done"},
         tape' = Append(tape, [run |-> q, kind |-> what])
  PROVE  /\ Len(tape') = Len(tape) + 1 /\ Len(tape) \in Nat /\ tape' \in Seq(Entry)
         /\ tape'[Len(tape) + 1].run = q /\ tape'[Len(tape) + 1].kind = what
         /\ \A i \in 1 .. Len(tape) : tape'[i] = tape[i]
         /\ \A r, kind : Out(r, kind)' <=> Out(r, kind) \/ (r = q /\ kind = what)
<1> DEFINE x == [run |-> q, kind |-> what]
<1>1. x \in Entry /\ x.run = q /\ x.kind = what
  BY DEF Entry
<1>2. \A r, kind : x = [run |-> r, kind |-> kind] <=> r = q /\ kind = what
  OBVIOUS
<1>3. tape' = Append(tape, x)
  OBVIOUS
<1> HIDE DEF x
<1>4. /\ tape' \in Seq(Entry) /\ Len(tape') = Len(tape) + 1 /\ tape'[Len(tape) + 1] = x
      /\ \A i \in 1 .. Len(tape) : tape'[i] = tape[i]
  BY <1>1, <1>3, Appended
<1>5. Len(tape) \in Nat
  OBVIOUS
<1>6. DOMAIN tape = 1 .. Len(tape) /\ DOMAIN tape' = 1 .. Len(tape) + 1
  BY <1>4, <1>5
<1>7. ASSUME NEW r, NEW kind
      PROVE  Out(r, kind)' <=> Out(r, kind) \/ (r = q /\ kind = what)
  <2> DEFINE e == [run |-> r, kind |-> kind]
  <2>1. x = e <=> r = q /\ kind = what
    BY <1>2
  <2> HIDE DEF e
  <2>2. (\E i \in DOMAIN tape' : tape'[i] = e) <=> (\E i \in DOMAIN tape : tape[i] = e) \/ x = e
    BY <1>4, <1>5, <1>6
  <2>3. Out(r, kind) <=> (\E i \in DOMAIN tape : tape[i] = e)
    BY DEF Out, e
  <2>4. Out(r, kind)' <=> (\E i \in DOMAIN tape' : tape'[i] = e)
    BY DEF Out, e
  <2> QED
    BY <2>1, <2>2, <2>3, <2>4
<1> QED
  BY <1>1, <1>4, <1>5, <1>7

\* An entry of a run says so.
LEMMA OutIs ==
  ASSUME tape \in Seq(Entry), NEW i \in DOMAIN tape
  PROVE  Out(tape[i].run, tape[i].kind) /\ tape[i].run \in 1 .. Runs
         /\ tape[i] = [run |-> tape[i].run, kind |-> tape[i].kind]
<1>1. tape[i] \in Entry
  OBVIOUS
<1>2. tape[i] = [run |-> tape[i].run, kind |-> tape[i].kind] /\ tape[i].run \in 1 .. Runs
  BY <1>1 DEF Entry
<1> QED
  BY <1>2 DEF Out

\* TapeTells, part by part.
DoneIsLast ==
  \A i \in DOMAIN tape : tape[i].kind = "done" => row[tape[i].run] \in Final /\ LastOfRun(i)
RowTells(r) ==
  /\ row[r] = "pending" => tries[r] < MaxAttempts
  /\ tries[r] = 0 => row[r] = "pending" /\ ~Out(r, "error")
  /\ EndedAtOnce(r) => (Out(r, "error") <=> row[r] \in {"error", "interrupted", "gone"})
ErrorIsLast ==
  \A i, j \in DOMAIN tape :
    /\ tape[i].kind = "error" /\ EndedAtOnce(tape[i].run)
    /\ i < j /\ tape[j].run = tape[i].run
    => tape[j].kind = "done"

LEMMA TapeTellsIs == TapeTells <=> DoneIsLast /\ (\A r \in 1 .. Runs : RowTells(r)) /\ ErrorIsLast
BY DEF TapeTells, DoneIsLast, RowTells, ErrorIsLast

\* An entry of a run whose row is pending, or of its end, leaves the account right.
LEMMA EntryTells ==
  ASSUME SourceHolds, TapeTells, NEW q \in 1 .. Runs, NEW what \in AllKinds \cup {"error", "done"},
         tape' = Append(tape, [run |-> q, kind |-> what]),
         ~Out(q, "done"), what = "done" => row'[q] \in Final,
         \A r \in 1 .. Runs : row[r] \in Final => row'[r] = row[r] /\ tries'[r] = tries[r],
         \/ what = "done" \/ ~EndedAtOnce(q)' \/ ~Out(q, "error"),
         \A r \in 1 .. Runs : EndedAtOnce(r)' => EndedAtOnce(r) \/ ~Out(r, "error")
  PROVE  DoneIsLast' /\ ErrorIsLast'
<1>1. /\ Len(tape') = Len(tape) + 1 /\ Len(tape) \in Nat /\ tape' \in Seq(Entry)
      /\ tape'[Len(tape) + 1].run = q /\ tape'[Len(tape) + 1].kind = what
      /\ \A i \in 1 .. Len(tape) : tape'[i] = tape[i]
  BY OutAppended DEF SourceHolds
<1>2. tape \in Seq(Entry) /\ DOMAIN tape = 1 .. Len(tape) /\ DOMAIN tape' = 1 .. Len(tape) + 1
  BY <1>1 DEF SourceHolds
<1>3. DoneIsLast /\ ErrorIsLast
  BY TapeTellsIs
<1>4. \A i \in 1 .. Len(tape) :
        /\ Out(tape[i].run, tape[i].kind) /\ tape[i].run \in 1 .. Runs
  BY <1>2, OutIs
<1>5. DoneIsLast'
  <2>1. ASSUME NEW i \in 1 .. Len(tape), tape[i].kind = "done"
        PROVE  row'[tape[i].run] \in Final /\ tape[i].run # q
               /\ \A j \in 1 .. Len(tape) : tape[j].run = tape[i].run => j <= i
    <3>1. row[tape[i].run] \in Final /\ LastOfRun(i)
      BY <1>2, <1>3, <2>1 DEF DoneIsLast
    <3>2. tape[i].run # q
      BY <1>4, <2>1
    <3> QED
      BY <1>2, <1>4, <3>1, <3>2 DEF LastOfRun
  <2>2. ASSUME NEW i \in 1 .. Len(tape) + 1, tape'[i].kind = "done"
        PROVE  row'[tape'[i].run] \in Final
               /\ \A j \in 1 .. Len(tape) + 1 : tape'[j].run = tape'[i].run => j <= i
    BY <1>1, <2>1, <2>2
  <2> QED
    BY <1>2, <2>2 DEF DoneIsLast, LastOfRun
<1>6. ErrorIsLast'
  <2>1. ASSUME NEW i \in 1 .. Len(tape) + 1, NEW j \in 1 .. Len(tape) + 1,
               tape'[i].kind = "error", i < j, tape'[j].run = tape'[i].run,
               NEW r, r = tape'[i].run, EndedAtOnce(r)'
        PROVE  tape'[j].kind = "done"
    <3>1. i \in 1 .. Len(tape) /\ tape'[i] = tape[i]
      BY <1>1, <2>1
    <3>2. r = tape[i].run /\ Out(r, "error") /\ r \in 1 .. Runs
      BY <1>4, <2>1, <3>1
    <3>3. EndedAtOnce(r)
      BY <2>1, <3>1, <3>2
    <3>4. CASE j \in 1 .. Len(tape)
      BY <1>1, <1>2, <1>3, <2>1, <3>1, <3>3, <3>4 DEF ErrorIsLast
    <3>5. CASE j = Len(tape) + 1
      BY <1>1, <2>1, <3>1, <3>2, <3>5
    <3> QED
      BY <1>1, <3>4, <3>5
  <2> QED
    BY <1>2, <2>1 DEF ErrorIsLast, EndedAtOnce
<1> QED
  BY <1>5, <1>6

LEMMA WorksTells ==
  ASSUME SourceHolds, TapeTells, Works
  PROVE  SourceHolds' /\ TapeTells'
         /\ \A r \in 1 .. Runs : row[r] \in Final => row'[r] = row[r] /\ tries'[r] = tries[r]
<1>1. PICK q \in 1 .. Runs :
        \/ MarksDone(q)
        \/ \E kind \in Kinds : Publishes(q, kind)
        \/ \E outcome \in Outcomes : Ends(q, outcome)
  BY DEF Works
<1>2. Kinds \subseteq AllKinds /\ Outcomes \subseteq Final \cup {"retry"}
      /\ MaxAttempts \in Nat
  BY ConstantsAssumption
<1>3. /\ row \in [1 .. Runs -> Final \cup {"pending"}]
      /\ tries \in [1 .. Runs -> 0 .. MaxAttempts] /\ waiting \in BOOLEAN
      /\ tape \in Seq(Entry)
  BY DEF SourceHolds
<1>4. DoneIsLast /\ ErrorIsLast /\ \A r \in 1 .. Runs : RowTells(r)
  BY TapeTellsIs
<1>5. "pending" \notin Final /\ "error" \notin AllKinds /\ "done" \notin AllKinds
      /\ "retry" \notin Final
  BY DEF Final, AllKinds
<1>6. row[q] = "pending" => ~Out(q, "done")
  <2>1. ASSUME Out(q, "done") PROVE row[q] \in Final
    <3>1. PICK i \in DOMAIN tape : tape[i] = [run |-> q, kind |-> "done"]
      BY <2>1 DEF Out
    <3>2. tape[i].run = q /\ tape[i].kind = "done"
      BY <3>1
    <3> QED
      BY <1>4, <3>2 DEF DoneIsLast
  <2> QED
    BY <1>5, <2>1
<1>7. CASE MarksDone(q)
  <2>1. /\ row[q] \in Final /\ ~Out(q, "done") /\ UNCHANGED <<row, tries, waiting>>
        /\ tape' = Append(tape, [run |-> q, kind |-> "done"])
    BY <1>7 DEF MarksDone
  <2>2. \A r \in 1 .. Runs : EndedAtOnce(r)' <=> EndedAtOnce(r)
    BY <2>1 DEF EndedAtOnce
  <2>3. "done" \in AllKinds \cup {"error", "done"}
    OBVIOUS
  <2>4. DoneIsLast' /\ ErrorIsLast'
    BY <2>1, <2>2, <2>3, EntryTells
  <2>5. tape' \in Seq(Entry) /\ \A r : Out(r, "error")' <=> Out(r, "error")
    BY <1>3, <2>1, <2>3, OutAppended
  <2>6. \A r \in 1 .. Runs : RowTells(r)'
    BY <1>4, <2>1, <2>2, <2>5 DEF RowTells
  <2> QED
    BY <1>3, <2>1, <2>4, <2>5, <2>6, TapeTellsIs DEF SourceHolds, TapeTells, DoneIsLast, RowTells, ErrorIsLast
<1>8. ASSUME NEW kind \in Kinds, Publishes(q, kind)
      PROVE  SourceHolds' /\ TapeTells'
             /\ \A r \in 1 .. Runs : row[r] \in Final => row'[r] = row[r] /\ tries'[r] = tries[r]
  <2>1. /\ row[q] = "pending" /\ ~Out(q, "done") /\ UNCHANGED <<row, tries>>
        /\ waiting' = FALSE
        /\ tape' = Append(tape, [run |-> q, kind |-> kind])
    BY <1>6, <1>8 DEF Publishes, Executes
  <2>2. \A r \in 1 .. Runs : EndedAtOnce(r)' <=> EndedAtOnce(r)
    BY <2>1 DEF EndedAtOnce
  <2>3. kind \in AllKinds \cup {"error", "done"} /\ kind # "error" /\ kind # "done"
    BY <1>2, <1>5
  <2>4. ~EndedAtOnce(q)'
    BY <1>5, <2>1 DEF EndedAtOnce
  <2>5. DoneIsLast' /\ ErrorIsLast'
    BY <2>1, <2>2, <2>3, <2>4, EntryTells
  <2>6. tape' \in Seq(Entry) /\ \A r : Out(r, "error")' <=> Out(r, "error")
    BY <1>3, <2>1, <2>3, OutAppended
  <2>7. \A r \in 1 .. Runs : RowTells(r)'
    BY <1>4, <2>1, <2>2, <2>6 DEF RowTells
  <2> QED
    BY <1>3, <2>1, <2>5, <2>6, <2>7 DEF SourceHolds, TapeTells, DoneIsLast, RowTells, ErrorIsLast
<1>9. ASSUME NEW outcome \in Outcomes, Ends(q, outcome)
      PROVE  SourceHolds' /\ TapeTells'
             /\ \A r \in 1 .. Runs : row[r] \in Final => row'[r] = row[r] /\ tries'[r] = tries[r]
  <2>1. /\ row[q] = "pending" /\ ~Out(q, "done")
        /\ outcome = "retry" => tries[q] + 1 < MaxAttempts
        /\ tries' = [tries EXCEPT ![q] = tries[q] + 1]
        /\ row' = [row EXCEPT ![q] = IF outcome = "retry" THEN "pending" ELSE outcome]
        /\ waiting' \in BOOLEAN
    BY <1>6, <1>9 DEF Ends, Executes
  <2>2. tape' = IF outcome \in {"error", "retry", "interrupted", "gone"}
                THEN Append(tape, [run |-> q, kind |-> "error"]) ELSE tape
    BY <1>9 DEF Ends
  <2>3. /\ tries[q] \in Nat /\ tries[q] < MaxAttempts /\ tries'[q] = tries[q] + 1
        /\ row'[q] = IF outcome = "retry" THEN "pending" ELSE outcome
        /\ \A r \in 1 .. Runs : r # q => row'[r] = row[r] /\ tries'[r] = tries[r]
    BY <1>2, <1>3, <1>4, <2>1 DEF RowTells
  <2>4. /\ row' \in [1 .. Runs -> Final \cup {"pending"}]
        /\ tries' \in [1 .. Runs -> 0 .. MaxAttempts]
    BY <1>2, <1>3, <2>1, <2>3
  <2>5. \A r \in 1 .. Runs : row[r] \in Final => row'[r] = row[r] /\ tries'[r] = tries[r]
    BY <1>5, <2>1, <2>3
  <2>6. EndedAtOnce(q)' => tries[q] = 0 /\ outcome # "retry"
    BY <1>5, <2>3 DEF EndedAtOnce
  <2>7. tries[q] = 0 => ~Out(q, "error")
    BY <1>4 DEF RowTells
  <2>8. \A r \in 1 .. Runs : r # q => (EndedAtOnce(r)' <=> EndedAtOnce(r))
    BY <2>3 DEF EndedAtOnce
  <2>9. CASE outcome \in {"error", "retry", "interrupted", "gone"}
    <3>1. tape' = Append(tape, [run |-> q, kind |-> "error"])
          /\ "error" \in AllKinds \cup {"error", "done"}
      BY <2>2, <2>9
    <3>2. DoneIsLast' /\ ErrorIsLast'
      BY <2>1, <2>5, <2>6, <2>7, <2>8, <3>1, EntryTells
    <3>3. tape' \in Seq(Entry) /\ \A r : Out(r, "error")' <=> Out(r, "error") \/ r = q
      BY <1>3, <3>1, OutAppended
    <3>4. \A r \in 1 .. Runs : RowTells(r)'
      <4>1. RowTells(q)'
        BY <1>2, <1>5, <2>1, <2>3, <2>9, <3>3 DEF RowTells, EndedAtOnce
      <4>2. ASSUME NEW r \in 1 .. Runs, r # q PROVE RowTells(r)'
        BY <1>4, <2>3, <2>8, <3>3, <4>2 DEF RowTells
      <4> QED
        BY <4>1, <4>2
    <3> QED
      BY <2>1, <2>4, <2>5, <3>2, <3>3, <3>4
         DEF SourceHolds, TapeTells, DoneIsLast, RowTells, ErrorIsLast
  <2>10. CASE outcome \notin {"error", "retry", "interrupted", "gone"}
    <3>1. tape' = tape /\ \A r : Out(r, "error")' <=> Out(r, "error")
      BY <2>2, <2>10 DEF Out
    <3>2. outcome \in Final /\ row'[q] = outcome
      BY <1>2, <2>3, <2>10
    <3>3. DoneIsLast'
      BY <1>3, <1>4, <2>5, <3>1, OutIs DEF DoneIsLast, LastOfRun
    <3>4. ErrorIsLast'
      <4>1. ASSUME NEW i \in DOMAIN tape, tape[i].kind = "error", NEW r, r = tape[i].run,
                   EndedAtOnce(r)'
            PROVE  EndedAtOnce(r)
        <5>1. Out(r, "error") /\ r \in 1 .. Runs
          BY <1>3, <4>1, OutIs
        <5> QED
          BY <2>6, <2>7, <2>8, <4>1, <5>1
      <4> QED
        BY <1>4, <3>1, <4>1 DEF ErrorIsLast, EndedAtOnce
    <3>5. \A r \in 1 .. Runs : RowTells(r)'
      <4>1. RowTells(q)'
        BY <1>2, <1>5, <2>1, <2>3, <2>6, <2>7, <2>10, <3>1, <3>2 DEF RowTells
      <4>2. ASSUME NEW r \in 1 .. Runs, r # q PROVE RowTells(r)'
        BY <1>4, <2>3, <2>8, <3>1, <4>2 DEF RowTells
      <4> QED
        BY <4>1, <4>2
    <3> QED
      BY <1>3, <2>1, <2>4, <2>5, <3>1, <3>3, <3>4, <3>5
         DEF SourceHolds, TapeTells, DoneIsLast, RowTells, ErrorIsLast
  <2> QED
    BY <2>9, <2>10
<1> QED
  BY <1>1, <1>7, <1>8, <1>9

-----------------------------------------------------------------------------
(* The structure through every step *)

\* Between two parts of an item the reader stays at it.
LEMMA ReaderSteps ==
  ASSUME Structure, Reads
  PROVE  /\ reader' \in ReaderTypes
         /\ reader'.step = "next" \/ reader' = reader \/ reader'.at = reader.at
         /\ reader'.at \in {reader.at, reader.at + 1}
         /\ reader'.step # "next" =>
              /\ reader'.at = reader.at /\ reader.at < Len(tape) /\ sessions # <<>>
              /\ Item.run = Bound.run
              /\ Item.kind = IF reader'.step = "asked" THEN "input" ELSE "done"
<1>1. /\ reader \in ReaderTypes /\ Len(tape) \in Nat /\ reader.at \in Nat
      /\ reader.at <= Len(tape)
      /\ reader.step # "next" =>
           /\ reader.at < Len(tape) /\ sessions # <<>> /\ Item.run = Bound.run
           /\ Item.kind = IF reader.step = "asked" THEN "input" ELSE "done"
  BY StructureIs DEF ReaderHolds, ReaderTypes, SourceHolds
<1>2. ASSUME reader.at < Len(tape), ReadOn
      PROVE  reader' \in ReaderTypes /\ reader'.step = "next" /\ reader'.at = reader.at + 1
  <2> DEFINE at == reader.at + 1
  <2>1. at \in 0 .. Len(tape) /\ reader' = [reader EXCEPT !.at = at, !.step = "next"]
    BY <1>1, <1>2 DEF ReadOn
  <2> HIDE DEF at
  <2>2. reader' \in ReaderTypes /\ reader'.step = "next" /\ reader'.at = at
    BY <1>1, <2>1 DEF ReaderTypes
  <2> QED
    BY <2>2 DEF at
<1>3. ASSUME NEW step \in {"asked", "row", "state", "flush"}, Then(step)
      PROVE  reader' \in ReaderTypes /\ reader'.step = step /\ reader'.at = reader.at
  BY <1>1, <1>3 DEF Then, ReaderTypes
<1>4. ASSUME NEW kind, Ingesting(kind)
      PROVE  reader.at < Len(tape) /\ sessions # <<>> /\ Item.run = Bound.run /\ Item.kind = kind
  BY <1>4 DEF Ingesting, More, IsBound
<1>5. CASE SkipsMissed \/ SkipsUnknown
  BY <1>1, <1>2, <1>5 DEF SkipsMissed, SkipsUnknown, More
<1>6. CASE Rebinds
  BY <1>1, <1>6 DEF Rebinds
<1>7. CASE Forwards \/ OpensChild \/ ClosesChild \/ Fails
  <2>1. ReadOn /\ \E kind : Ingesting(kind)
    BY <1>7 DEF Forwards, OpensChild, ClosesChild, Fails
  <2> QED
    BY <1>2, <1>4, <2>1
<1>8. CASE AsksInput
  <2>1. Ingesting("input") /\ (ReadOn \/ Then("asked"))
    BY <1>8 DEF AsksInput
  <2> QED
    BY <1>2, <1>3, <1>4, <2>1
<1>9. CASE SaysInterrupted
  BY <1>1, <1>2, <1>9 DEF SaysInterrupted
<1>10. CASE StartsTerminal
  <2>1. Ingesting("done") /\ (ReadOn \/ Then("row"))
    BY <1>10 DEF StartsTerminal
  <2> QED
    BY <1>2, <1>3, <1>4, <2>1
<1>11. ASSUME NEW status \in Statuses, Tells(status)
       PROVE  reader' \in ReaderTypes /\ reader'.step = "flush" /\ reader'.at = reader.at
  BY <1>1, <1>11 DEF Tells, ReaderTypes
<1>12. CASE ReadsRow
  <2>1. reader.step = "row"
        /\ (ReadOn \/ Then("state") \/ \E status \in Statuses : Tells(status))
    BY <1>12 DEF ReadsRow, Statuses
  <2> QED
    BY <1>1, <1>2, <1>3, <1>11, <2>1
<1>13. CASE ReadsState
  <2>1. reader.step = "state" /\ \E status \in Statuses : Tells(status)
    BY <1>13 DEF ReadsState, Statuses
  <2> QED
    BY <1>1, <1>11, <2>1
<1>14. CASE Flushes
  <2>1. reader.step = "flush" /\ (ReadOn \/ UNCHANGED reader)
    BY <1>14 DEF Flushes
  <2> QED
    BY <1>1, <1>2, <2>1
<1> QED
  BY <1>5, <1>6, <1>7, <1>8, <1>9, <1>10, <1>12, <1>13, <1>14 DEF Reads

LEMMA ReadsKeep ==
  ASSUME Structure, Reads
  PROVE  Structure' /\ UNCHANGED source /\ UNCHANGED <<conn, replay>>
         /\ (sessions # <<>> => sessions' # <<>>)
<1>1. UNCHANGED source /\ UNCHANGED <<conn, replay>>
  BY DEF Reads, Reading, SkipsMissed, SkipsUnknown, Rebinds, Forwards, OpensChild, ClosesChild,
     Fails, AsksInput, SaysInterrupted, StartsTerminal, ReadsRow, ReadsState, Flushes
<1>2. parked' = parked \/ parked' = {}
  BY DEF Reads, SkipsMissed, SkipsUnknown, Rebinds, Forwards, OpensChild, ClosesChild,
     Fails, AsksInput, SaysInterrupted, StartsTerminal, ReadsRow, ReadsState, Flushes
<1>3. /\ SourceHolds /\ parked \subseteq Subs /\ conn \in ConnTypes
      /\ (sessions = <<>> => reader.step = "next")
  BY StructureIs
<1>4. /\ SessionsHold' /\ (sessions # <<>> => sessions' # <<>>)
      /\ reader'.step # "next" => sessions' # <<>> /\ Bound'.run = Bound.run
  <2>1. CASE Rebinds
    <3>1. reader' = reader /\ reader.step = "next"
      BY <2>1 DEF Rebinds, More
    <3> QED
      BY <2>1, <3>1, RebindsKeeps
  <2>2. CASE ~Rebinds
    BY <1>1, <2>2, ReadsSteps, SessionStepIs, ReaderSteps
  <2> QED
    BY <2>1, <2>2
<1>5. SourceHolds' /\ conn' \in ConnTypes' /\ ReaderTypes' = ReaderTypes /\ Item' = tape[reader'.at + 1]
  BY <1>1, <1>3 DEF SourceHolds, ConnTypes, ReaderTypes, source, Item
<1>6. ReaderHolds'
  BY <1>1, <1>4, <1>5, ReaderSteps DEF ReaderHolds, Item, source
<1>7. parked' \subseteq Subs
  BY <1>2, <1>3
<1>8. sessions' = <<>> => reader'.step = "next"
  BY <1>4
<1> QED
  BY <1>1, <1>4, <1>5, <1>6, <1>7, <1>8, StructureIs DEF Structure, TypeOK, SessionsHold,
     SourceHolds, ReaderHolds, ConnTypes, ReaderTypes, ReaderIsBound, Sends

LEMMA CommandsKeep ==
  ASSUME Structure, ServesCommands
  PROVE  Structure'
<1>1. /\ ~replay.on /\ conn.commands < MaxCommands
      /\ conn' = [conn EXCEPT !.commands = conn.commands + 1]
      /\ UNCHANGED source /\ UNCHANGED <<made, reader, wire, spilt>>
      /\ parked' \subseteq Subs /\ CommandStep /\ Commands
  BY ServesCommandsIs DEF Commands
<1>2. SessionsHold'
  BY <1>1, StructureHolds, CommandKeeps
<1>3. /\ SourceHolds /\ ReaderHolds /\ conn \in ConnTypes /\ SessionsHold
      /\ (sessions = <<>> => reader.step = "next")
  BY StructureIs
<1>4. conn' \in ConnTypes
  <2>1. conn.commands + 1 \in 0 .. MaxCommands
    BY <1>1, <1>3, ConstantsAssumption DEF ConnTypes
  <2> QED
    BY <1>1, <1>3, <2>1 DEF ConnTypes
<1>5. sessions # <<>> => sessions' # <<>> /\ Bound'.run = Bound.run
  <2>1. ASSUME sessions # <<>> PROVE Now \in DOMAIN sessions /\ Now \in Nat
    BY <1>3, <2>1 DEF SessionsHold, Now
  <2>2. ASSUME sessions # <<>>, NEW x \in Subs, NEW sub \in Subscription,
               Resubscribed(Now, x, sub)
        PROVE  sessions' # <<>> /\ Bound'.run = Bound.run
    BY <1>3, <2>1, <2>2, ResubscribedIs DEF Bound
  <2>3. NoSub \in Subscription
    BY DEF NoSub, Subscription
  <2>4. ASSUME NEW x, NEW floor, NEW cursor, Installing(x, floor, cursor)
        PROVE  sessions # <<>> /\ \E y \in Subs, sub \in Subscription : Resubscribed(Now, y, sub)
    <3> DEFINE sub == [mode |-> IF Matching(Now, x, cursor) = {} THEN "active" ELSE "silent",
                       floor |-> floor, since |-> Len(wire)]
    <3>1. x \in Subs /\ floor \in Nat /\ sessions # <<>> /\ Resubscribed(Now, x, sub)
      BY <2>4 DEF Installing
    <3>2. sub \in Subscription
      BY <1>3, <3>1 DEF Subscription, SessionsHold
    <3> QED
      BY <3>1, <3>2
  <2> QED
    BY <1>1, <2>2, <2>3, <2>4 DEF CommandStep, Bound, Now
<1>6. SourceHolds' /\ UNCHANGED <<reader, tape>>
  BY <1>1, <1>3 DEF SourceHolds, source
<1>7. ReaderHolds'
  BY <1>3, <1>5, <1>6 DEF ReaderHolds, ReaderTypes, Item
<1>8. conn' \in ConnTypes' /\ (sessions' = <<>> => reader'.step = "next")
  BY <1>3, <1>4, <1>5, <1>6 DEF ConnTypes
<1> QED
  BY <1>1, <1>2, <1>6, <1>7, <1>8 DEF Structure, TypeOK, SessionsHold,
     SourceHolds, ReaderHolds, ConnTypes, ReaderTypes, ReaderIsBound, Sends

LEMMA ReplaysKeep ==
  ASSUME Structure, SendsReplayed \/ EndsDrain
  PROVE  Structure'
<1>1. UNCHANGED source /\ UNCHANGED <<conn, made, parked, reader, spilt>>
  BY DEF SendsReplayed, EndsDrain, Replaying
<1>2. SessionsHold'
  BY SendsReplayedIs, EndsDrainKeeps
<1>3. /\ SourceHolds /\ ReaderHolds /\ conn \in ConnTypes /\ parked \subseteq Subs
      /\ SessionsHold /\ (sessions = <<>> => reader.step = "next")
  BY StructureIs
<1>4. sessions # <<>> => sessions' # <<>> /\ Bound'.run = Bound.run
  <2>1. CASE UNCHANGED sessions
    BY <2>1 DEF Bound, Now
  <2>2. CASE EndsDrain /\ Drained
    <3>1. replay.on
      BY <2>2, EndsDrainIs
    <3>2. replay.k \in DOMAIN sessions /\ replay.x \in Subs
          /\ sessions[replay.k] \in Session
      BY <1>3, <3>1 DEF SessionsHold, ReplayIsSilent
    <3> DEFINE sub == [sessions[replay.k].subs[replay.x] EXCEPT !.mode = "active"]
    <3>3. sub \in Subscription
      <4>1. sessions[replay.k].subs[replay.x] \in Subscription
        BY <3>2 DEF Session
      <4> QED
        BY <4>1 DEF Subscription
    <3>4. Resubscribed(replay.k, replay.x, sub)
      BY <2>2 DEF Drained
    <3> HIDE DEF sub
    <3>5. /\ Now' = Now /\ sessions' # <<>> /\ DOMAIN sessions = 1 .. Len(sessions)
          /\ \A j \in DOMAIN sessions : sessions'[j].run = sessions[j].run
      BY <1>3, <3>2, <3>3, <3>4, ResubscribedIs
    <3> QED
      BY <1>3, <3>5 DEF Bound, Now, SessionsHold
  <2> QED
    BY <2>1, <2>2, SendsReplayedIs, EndsDrainIs DEF Extended
<1>5. SourceHolds' /\ UNCHANGED <<reader, tape>>
  BY <1>1, <1>3 DEF SourceHolds, source
<1>6. ReaderHolds'
  BY <1>3, <1>4, <1>5 DEF ReaderHolds, ReaderTypes, Item
<1>7. conn' \in ConnTypes' /\ (sessions' = <<>> => reader'.step = "next") /\ parked' \subseteq Subs
  BY <1>1, <1>3, <1>4, <1>5 DEF ConnTypes
<1> QED
  BY <1>2, <1>5, <1>6, <1>7 DEF Structure, TypeOK, SessionsHold,
     SourceHolds, ReaderHolds, ConnTypes, ReaderTypes, ReaderIsBound, Sends

LEMMA OpenedHolds ==
  ASSUME SourceHolds, NEW via \in Transports, NEW since \in Nat, NEW number \in 1 .. MaxConnects,
         Opened(via, since, number), UNCHANGED source
  PROVE  Structure' /\ sessions' = <<>> /\ wire' = <<>> /\ ~replay'.on /\ reader'.step = "next"
<1>1. /\ conn' = [via |-> via, since |-> since, logged |-> Len(tape), opened |-> number,
                  commands |-> 0]
      /\ made' = <<>> /\ sessions' = <<>> /\ wire' = <<>> /\ spilt' = {}
      /\ parked' = IF via = "sse" THEN {SseSub} ELSE {}
      /\ reader' = [at |-> 0, step |-> "next", told |-> "running"]
      /\ replay' = Idle /\ UNCHANGED <<row, tries, waiting, tape>>
  BY DEF Opened, source
<1>2. Len(tape) \in Nat /\ MaxCommands \in Nat /\ SseSub \in Subs
  BY ConstantsAssumption DEF SourceHolds
<1>3. conn' \in ConnTypes' /\ reader' \in ReaderTypes'
  BY <1>1, <1>2 DEF ConnTypes, ReaderTypes, Statuses
<1>4. replay' \in [on : BOOLEAN, x : Subs, k : Nat, todo : SUBSET Nat, upto : Nat]
      /\ ~replay'.on
  BY <1>1, IdleIs
<1>5. SessionsHold'
  BY <1>1, <1>4 DEF SessionsHold, WireIsNumbered, ReplayIsSilent
<1>6. SourceHolds' /\ parked' \subseteq Subs
  BY <1>1, <1>2 DEF SourceHolds
<1>7. ReaderHolds'
  BY <1>1, <1>3 DEF ReaderHolds
<1> QED
  BY <1>1, <1>3, <1>4, <1>5, <1>6, <1>7 DEF Structure, TypeOK, SessionsHold,
     SourceHolds, ReaderHolds, ConnTypes, ReaderTypes, ReaderIsBound, Sends

LEMMA ReopensKeeps ==
  ASSUME Structure, Reopens
  PROVE  Structure' /\ sessions' = <<>> /\ wire' = <<>> /\ ~replay'.on /\ reader'.step = "next"
<1>1. /\ SourceHolds /\ conn \in ConnTypes
  BY StructureIs
<1>2. PICK since \in Cursors :
        /\ Opened(conn.via, since, conn.opened + 1) /\ UNCHANGED source
        /\ conn.opened < MaxConnects
  BY DEF Reopens, Cursors
<1>3. since \in Nat
  BY CursorIs
<1>4. /\ conn.via \in Transports /\ conn.opened + 1 \in 1 .. MaxConnects
  BY <1>1, <1>2, ConstantsAssumption DEF ConnTypes
<1> QED
  BY <1>1, <1>2, <1>3, <1>4, OpenedHolds

LEMMA WorksKeep ==
  ASSUME Structure, TapeTells, Works
  PROVE  Structure' /\ TapeTells' /\ Connected
         /\ \A i \in 1 .. reader.at + 1 : i <= Len(tape) => i <= Len(tape') /\ tape'[i] = tape[i]
<1>1. /\ SourceHolds /\ ReaderHolds /\ conn \in ConnTypes /\ parked \subseteq Subs
      /\ SessionsHold /\ (sessions = <<>> => reader.step = "next")
  BY StructureIs
<1>2. SourceHolds' /\ TapeTells' /\ Connected
  BY <1>1, WorksTells, WorksExtends
<1>3. /\ Len(tape) \in Nat /\ Len(tape') \in Nat /\ Len(tape) <= Len(tape')
      /\ \A i \in 1 .. Len(tape) : tape'[i] = tape[i]
  BY <1>1, WorksExtends, ItemStays DEF SourceHolds
<1>4. UNCHANGED <<conn, made, sessions, parked, reader, replay, wire, spilt>>
  BY <1>2 DEF Connected
<1>5. SessionsHold'
  BY <1>1, <1>4 DEF SessionsHold, WireIsNumbered, ReplayIsSilent, Bound, Now
<1>6. conn' \in ConnTypes' /\ reader' \in ReaderTypes'
  BY <1>1, <1>3, <1>4 DEF ConnTypes, ReaderTypes, ReaderHolds
<1>7. ReaderHolds'
  <2>1. reader.at < Len(tape) => reader.at + 1 \in 1 .. Len(tape)
    BY <1>1, <1>3 DEF ReaderHolds, ReaderTypes
  <2> QED
    BY <1>1, <1>3, <1>4, <1>6, <2>1 DEF ReaderHolds, Item, Bound, Now, ReaderTypes
<1>8. \A i \in 1 .. reader.at + 1 : i <= Len(tape) => i <= Len(tape') /\ tape'[i] = tape[i]
  BY <1>1, <1>3 DEF ReaderHolds, ReaderTypes
<1> QED
  BY <1>1, <1>2, <1>4, <1>5, <1>6, <1>7, <1>8 DEF Structure, TypeOK, SessionsHold,
     SourceHolds, ReaderHolds, ConnTypes, ReaderTypes, ReaderIsBound, Sends

LEMMA StructureInit == Init => Structure /\ TapeTells
<1> SUFFICES ASSUME Init PROVE Structure /\ TapeTells
  OBVIOUS
<1>1. PICK via \in Transports :
        /\ conn = [via |-> via, since |-> 0, logged |-> 0, opened |-> 1, commands |-> 0]
        /\ parked = IF via = "sse" THEN {SseSub} ELSE {}
  BY DEF Init
<1>2. /\ row = [r \in 1 .. Runs |-> "pending"] /\ tries = [r \in 1 .. Runs |-> 0]
      /\ waiting = FALSE /\ tape = <<>>
      /\ made = <<>> /\ sessions = <<>> /\ wire = <<>> /\ spilt = {}
      /\ reader = [at |-> 0, step |-> "next", told |-> "running"] /\ replay = Idle
  BY DEF Init
<1>3. /\ MaxCommands \in Nat /\ SseSub \in Subs /\ MaxConnects \in Nat \ {0}
      /\ MaxAttempts \in Nat \ {0}
  BY ConstantsAssumption
<1>4. SourceHolds
  <2>1. 0 \in 0 .. MaxAttempts
    BY <1>3
  <2>2. row \in [1 .. Runs -> Final \cup {"pending"}] /\ tries \in [1 .. Runs -> 0 .. MaxAttempts]
    BY <1>2, <2>1
  <2>3. tape \in Seq(Entry)
    BY <1>2
  <2>4. waiting \in BOOLEAN
    BY <1>2
  <2> QED
    BY <1>2, <2>2, <2>3, <2>4 DEF SourceHolds
<1>5. conn \in ConnTypes /\ reader \in ReaderTypes /\ parked \subseteq Subs
  BY <1>1, <1>2, <1>3 DEF ConnTypes, ReaderTypes, Statuses
<1>6. SessionsHold
  BY <1>2, IdleIs DEF SessionsHold, WireIsNumbered, ReplayIsSilent
<1>7. ReaderHolds
  BY <1>2, <1>5 DEF ReaderHolds
<1>8. Structure
  BY <1>2, <1>4, <1>5, <1>6, <1>7, StructureIs
<1>9. TapeTells
  BY <1>2, <1>3 DEF TapeTells, EndedAtOnce, Out, Final
<1> QED
  BY <1>8, <1>9

LEMMA StructureNext == Structure /\ TapeTells /\ [Next]_vars => Structure' /\ TapeTells'
<1> SUFFICES ASSUME Structure, TapeTells, [Next]_vars PROVE Structure' /\ TapeTells'
  OBVIOUS
<1>1. ASSUME UNCHANGED source PROVE TapeTells'
  BY <1>1 DEF source, TapeTells, LastOfRun, EndedAtOnce, Out
<1>2. CASE UNCHANGED vars
  <2>1. UNCHANGED source
    BY <1>2 DEF vars, source
  <2> QED
    <3>1. UNCHANGED <<conn, made, sessions, parked, reader, replay, wire, spilt>>
          /\ UNCHANGED <<row, tries, waiting, tape>>
      BY <1>2 DEF vars
    <3>2. TypeOK'
      BY <3>1 DEF Structure, TypeOK
    <3>3. ReaderIsBound'
      BY <3>1 DEF Structure, ReaderIsBound, Bound, Now, Item
    <3>4. WireIsNumbered' /\ ReplayIsSilent'
      BY <3>1 DEF Structure, WireIsNumbered, ReplayIsSilent
    <3> QED
      BY <1>1, <2>1, <3>2, <3>3, <3>4 DEF Structure
<1>3. CASE Works
  BY <1>3, WorksKeep
<1>4. CASE Reads
  BY <1>1, <1>4, ReadsKeep
<1>5. CASE ServesCommands
  BY <1>1, <1>5, CommandsKeep, ServesCommandsIs DEF Commands
<1>6. CASE SendsReplayed \/ EndsDrain
  BY <1>1, <1>6, ReplaysKeep DEF SendsReplayed, EndsDrain, Replaying
<1>7. CASE Reopens
  BY <1>1, <1>7, ReopensKeeps DEF Reopens
<1> QED
  BY <1>2, <1>3, <1>4, <1>5, <1>6, <1>7 DEF Next

-----------------------------------------------------------------------------
(* The order of what is sent *)

Ascends(k, x) == \A i, j \in Mine(k, x) : i < j => wire[i].n < wire[j].n

LEMMA InOrderIs ==
  InOrder <=> \A k \in DOMAIN sessions : \A x \in Subs :
                sessions[k].subs[x].mode # "none" => Ascends(k, x)
BY DEF InOrder, Ascends, Mine

LEMMA Grown ==
  ASSUME NEW q, NEW w, Len(q) \in Nat, Len(w) \in Nat,
         \/ w = q
         \/ Len(w) = Len(q) + 1 /\ \A i \in 1 .. Len(q) : w[i] = q[i]
  PROVE  /\ \A i \in 1 .. Len(q) : w[i] = q[i] /\ i \in 1 .. Len(w)
         /\ \A i \in 1 .. Len(w) :
              i \in 1 .. Len(q) \/ (i = Len(q) + 1 /\ Len(w) = Len(q) + 1)
<1>1. CASE w = q
  BY <1>1
<1>2. CASE Len(w) = Len(q) + 1 /\ \A i \in 1 .. Len(q) : w[i] = q[i]
  BY <1>2
<1> QED
  BY <1>1, <1>2

\* What was sent for a subscription stays as it was, but for what is sent now.
LEMMA MineGrows ==
  ASSUME Len(wire) \in Nat, Len(wire') \in Nat, DOMAIN wire = 1 .. Len(wire),
         DOMAIN wire' = 1 .. Len(wire'),
         \/ wire' = wire
         \/ Len(wire') = Len(wire) + 1 /\ \A i \in 1 .. Len(wire) : wire'[i] = wire[i],
         NEW k, NEW x, sessions'[k].subs[x].since = sessions[k].subs[x].since
  PROVE  /\ \A i \in Mine(k, x) : i \in 1 .. Len(wire) /\ wire'[i] = wire[i]
         /\ Mine(k, x) \subseteq Mine(k, x)'
         /\ \A i \in Mine(k, x)' :
              \/ i \in Mine(k, x)
              \/ /\ i = Len(wire) + 1 /\ Len(wire') = Len(wire) + 1
                 /\ wire'[i].k = k /\ x \in wire'[i].to
<1> DEFINE since == sessions[k].subs[x].since
<1>1. Mine(k, x) = {i \in 1 .. Len(wire) : wire[i].k = k /\ x \in wire[i].to /\ i > since}
  BY DEF Mine
<1>2. Mine(k, x)' = {i \in 1 .. Len(wire') : wire'[i].k = k /\ x \in wire'[i].to /\ i > since}
  BY DEF Mine
<1> HIDE DEF since
<1>3. \A i \in 1 .. Len(wire) : wire'[i] = wire[i] /\ i \in 1 .. Len(wire')
  BY Grown
<1>4. \A i \in 1 .. Len(wire') :
        i \in 1 .. Len(wire) \/ (i = Len(wire) + 1 /\ Len(wire') = Len(wire) + 1)
  BY Grown
<1> QED
  BY <1>1, <1>2, <1>3, <1>4

\* Nothing was sent that is not numbered.
LEMMA WireIs ==
  ASSUME Structure
  PROVE  /\ Len(wire) \in Nat /\ DOMAIN wire = 1 .. Len(wire) /\ Len(made) \in Nat
         /\ sessions \in Seq(Session) /\ DOMAIN sessions = 1 .. Now /\ Now \in Nat
         /\ \A i \in 1 .. Len(wire) :
              /\ wire[i].n \in 1 .. Len(made) /\ wire[i].k \in 1 .. Now
              /\ wire[i].n <= sessions[wire[i].k].hi
<1>1. SessionsHold /\ wire \in Seq(Sends(Len(made))) /\ Len(made) \in Nat
  BY StructureHolds DEF SessionsHold
<1>2. \A i \in 1 .. Len(wire) : wire[i] \in Sends(Len(made))
  BY <1>1
<1>3. Len(wire) \in Nat /\ DOMAIN wire = 1 .. Len(wire) /\ sessions \in Seq(Session)
      /\ DOMAIN sessions = 1 .. Now /\ Now \in Nat
  BY <1>1 DEF SessionsHold, Now
<1> QED
  BY <1>1, <1>2, <1>3 DEF SessionsHold, WireIsNumbered, Sends

LEMMA SinceIs ==
  ASSUME Structure, NEW k \in 1 .. Now, NEW x \in Subs
  PROVE  sessions[k] \in Session /\ sessions[k].subs[x] \in Subscription
         /\ sessions[k].subs[x].since \in Nat
<1>1. sessions[k] \in Session
  BY WireIs
<1>2. sessions[k].subs[x] \in Subscription
  BY <1>1 DEF Session
<1> QED
  BY <1>1, <1>2 DEF Subscription

\* A live event comes after all that was sent before.
LEMMA PushInOrder ==
  ASSUME Structure, InOrder, ReplayAscends, NEW k, NEW s, Ready(k, s),
         NEW e \in SessionEvent, Pushes(k, s, e), UNCHANGED replay
  PROVE  InOrder' /\ ReplayAscends'
<1> DEFINE top == Len(made) + 1
<1>1. /\ Len(wire) \in Nat /\ DOMAIN wire = 1 .. Len(wire) /\ Len(made) \in Nat
      /\ sessions \in Seq(Session) /\ DOMAIN sessions = 1 .. Now /\ Now \in Nat
      /\ \A i \in 1 .. Len(wire) : wire[i].n \in 1 .. Len(made) /\ wire[i].k \in 1 .. Now
  BY WireIs
<1>2. SessionsHold
  BY StructureHolds
<1>3. /\ Len(sessions') = k /\ sessions' \in Seq(Session)
      /\ sessions'[k] = [s EXCEPT !.hi = top, !.lo = Held(s.lo, top)]
      /\ \A j \in 1 .. k - 1 : sessions'[j] = sessions[j]
      /\ made'[top] = e
  BY DEF Pushes
<1>4. k \in Nat \ {0} /\ k <= Now + 1 /\ Now <= k
      /\ (k # Now => k = Now + 1 /\ \A x \in Subs : s.subs[x].mode # "silent")
      /\ (k = Now => s.subs = sessions[k].subs)
  <2>1. sessions # <<>> => Now > 0
    BY <1>1
  <2> QED
    BY <1>1, <2>1 DEF Ready, Bound
<1>5. sessions'[k].subs = s.subs /\ DOMAIN sessions' = 1 .. k
  BY <1>3 DEF Ready, Session
<1>6. /\ Len(wire') \in Nat /\ DOMAIN wire' = 1 .. Len(wire')
      /\ \/ wire' = wire
         \/ /\ Len(wire') = Len(wire) + 1 /\ \A i \in 1 .. Len(wire) : wire'[i] = wire[i]
            /\ wire'[Len(wire) + 1] = [n |-> top, to |-> Hearing(s, e, {"active"}), k |-> k]
  <2>1. Pushes(k, s, made'[Len(made) + 1])
    BY <1>3
  <2>2. k \in Nat
    BY <1>4
  <2>3. /\ wire' \in Seq(Sends(Len(made) + 1))
        /\ \A i \in 1 .. Len(wire) : wire'[i] = wire[i]
        /\ \/ wire' = wire
           \/ /\ Len(wire') = Len(wire) + 1
              /\ wire'[Len(wire) + 1] =
                   [n |-> Len(made) + 1,
                    to |-> Hearing(s, made'[Len(made) + 1], {"active"}), k |-> k]
    BY <1>2, <2>1, <2>2, PushSends
  <2> QED
    BY <1>3, <2>3
<1> DEFINE r == [n |-> top, to |-> Hearing(s, e, {"active"}), k |-> k]
<1>7. r.n = top /\ r.k = k /\ r.to = Hearing(s, e, {"active"})
  OBVIOUS
<1>8. /\ Len(wire') \in Nat /\ DOMAIN wire' = 1 .. Len(wire')
      /\ \/ wire' = wire
         \/ /\ Len(wire') = Len(wire) + 1 /\ \A i \in 1 .. Len(wire) : wire'[i] = wire[i]
            /\ wire'[Len(wire) + 1] = r
  BY <1>6
<1> HIDE DEF r
<1>9. ASSUME NEW j \in 1 .. k, j <= Now, NEW x \in Subs
      PROVE  /\ sessions'[j].subs[x] = sessions[j].subs[x]
             /\ \A i \in Mine(j, x) : i \in 1 .. Len(wire) /\ wire'[i] = wire[i]
             /\ \A i \in Mine(j, x)' :
                  \/ i \in Mine(j, x)
                  \/ i = Len(wire) + 1 /\ wire'[i] = r /\ j = k /\ x \in r.to
  <2>1. sessions'[j].subs[x] = sessions[j].subs[x]
    <3>1. CASE j = k
      BY <1>1, <1>4, <1>5, <1>9, <3>1
    <3>2. CASE j # k
      BY <1>3, <1>4, <3>2
    <3> QED
      BY <3>1, <3>2
  <2>2. /\ \A i \in Mine(j, x) : i \in 1 .. Len(wire) /\ wire'[i] = wire[i]
        /\ \A i \in Mine(j, x)' :
             \/ i \in Mine(j, x)
             \/ /\ i = Len(wire) + 1 /\ Len(wire') = Len(wire) + 1
                /\ wire'[i].k = j /\ x \in wire'[i].to
    BY <1>1, <1>8, <2>1, MineGrows
  <2> QED
    <3>1. ASSUME NEW i \in Mine(j, x)', i \notin Mine(j, x)
          PROVE  i = Len(wire) + 1 /\ wire'[i] = r /\ j = k /\ x \in r.to
      <4>1. i = Len(wire) + 1 /\ Len(wire') = Len(wire) + 1 /\ wire'[i].k = j /\ x \in wire'[i].to
        BY <2>2, <3>1
      <4>2. wire'[i] = r
        BY <1>1, <1>8, <4>1
      <4> QED
        BY <1>7, <4>1, <4>2
    <3> QED
      BY <2>1, <2>2, <3>1
<1>10. ASSUME NEW j \in 1 .. k, NEW x \in Subs, sessions'[j].subs[x].mode # "none"
       PROVE  Ascends(j, x)'
  <2>1. CASE j <= Now
    <3>1. Ascends(j, x)
      <4>1. j \in DOMAIN sessions
        BY <1>1, <1>4, <2>1
      <4>2. sessions[j].subs[x].mode # "none"
        BY <1>9, <1>10, <2>1
      <4> QED
        BY <4>1, <4>2, InOrderIs
    <3>2. \A i, m \in Mine(j, x)' : i < m => wire'[i].n < wire'[m].n
      BY <1>1, <1>7, <1>9, <2>1, <3>1 DEF Ascends
    <3> QED
      BY <3>2 DEF Ascends
  <2>2. CASE j > Now
    <3>0. \A i \in 1 .. Len(wire) : wire'[i] = wire[i]
      BY <1>8
    <3>1. \A i \in 1 .. Len(wire) : wire'[i] = wire[i] /\ wire[i].k # j
      BY <1>1, <2>2, <3>0
    <3>2. \A i \in 1 .. Len(wire') : i \in 1 .. Len(wire) \/ i = Len(wire) + 1
      BY <1>1, <1>8, Grown
    <3>3. \A i \in Mine(j, x)' : i \in 1 .. Len(wire') /\ wire'[i].k = j
      BY <1>8 DEF Mine
    <3>4. \A i \in Mine(j, x)' : i = Len(wire) + 1
      BY <3>1, <3>2, <3>3
    <3> QED
      BY <1>1, <3>4 DEF Ascends
  <2> QED
    BY <1>1, <1>4, <2>1, <2>2
<1>11. InOrder'
  BY <1>5, <1>10 DEF InOrder, Ascends, Mine
<1>12. ReplayAscends'
  <2> SUFFICES ASSUME replay.on
               PROVE  \A i \in Mine(replay.k, replay.x)' :
                        wire'[i].n <= replay.upto /\ \A m \in replay.todo : wire'[i].n < m
    BY DEF ReplayAscends, Mine
  <2>1. replay.k \in 1 .. Now /\ replay.x \in Subs
        /\ sessions[replay.k].subs[replay.x].mode = "silent"
    BY <1>1, <1>2 DEF SessionsHold, ReplayIsSilent
  <2>2. ~(replay.k = k /\ replay.x \in r.to)
    <3>1. ASSUME replay.k = k PROVE s.subs[replay.x].mode = "silent"
      BY <1>1, <1>4, <2>1, <3>1
    <3> QED
      BY <1>7, <3>1 DEF Hearing
  <2>3. replay.k \in 1 .. k /\ replay.k <= Now
    BY <1>1, <1>4, <2>1
  <2>4. \A i \in Mine(replay.k, replay.x)' : i \in Mine(replay.k, replay.x) /\ wire'[i] = wire[i]
    BY <1>9, <2>1, <2>2, <2>3
  <2> QED
    BY <2>4 DEF ReplayAscends
<1> QED
  BY <1>11, <1>12

\* A step that sends nothing and leaves the subscriptions, or starts one anew.
LEMMA SilentInOrder ==
  ASSUME Structure, InOrder, UNCHANGED wire, DOMAIN sessions' = DOMAIN sessions,
         \A k \in DOMAIN sessions : \A x \in Subs :
           \/ /\ sessions'[k].subs[x].since = sessions[k].subs[x].since
              /\ sessions[k].subs[x].mode # "none"
           \/ sessions'[k].subs[x].mode = "none"
           \/ sessions'[k].subs[x].since = Len(wire)
  PROVE  InOrder'
<1> SUFFICES ASSUME NEW k \in DOMAIN sessions, NEW x \in Subs,
                    sessions'[k].subs[x].mode # "none",
                    NEW i \in Mine(k, x)', NEW j \in Mine(k, x)', i < j
             PROVE  wire'[i].n < wire'[j].n
  BY DEF InOrder, Mine
<1>1. /\ Len(wire) \in Nat /\ DOMAIN wire = 1 .. Len(wire)
      /\ wire' = wire /\ DOMAIN wire' = 1 .. Len(wire')
  BY WireIs
<1>2. CASE sessions'[k].subs[x].since = Len(wire)
  BY <1>1, <1>2 DEF Mine
<1>3. CASE /\ sessions'[k].subs[x].since = sessions[k].subs[x].since
           /\ sessions[k].subs[x].mode # "none"
  <2>1. Mine(k, x)' = Mine(k, x)
    BY <1>1, <1>3 DEF Mine
  <2>2. Ascends(k, x)
    BY <1>3, InOrderIs
  <2> QED
    BY <1>1, <2>1, <2>2 DEF Ascends
<1> QED
  BY <1>2, <1>3


\* A step in the order of its numbers, command by command.
LEMMA CommandInOrder ==
  ASSUME Structure, InOrder, ServesCommands
  PROVE  InOrder' /\ ReplayAscends'
<1>1. ~replay.on /\ UNCHANGED wire /\ CommandStep
  BY ServesCommandsIs DEF Commands
<1>2. /\ Len(wire) \in Nat /\ DOMAIN sessions = 1 .. Now /\ Now \in Nat
      /\ DOMAIN wire = 1 .. Len(wire) /\ SessionsHold
  BY WireIs, StructureHolds
<1>3. sessions # <<>> => Now \in DOMAIN sessions
  BY BoundIsSession DEF Structure
<1>4. CASE UNCHANGED <<sessions, replay>>
  BY <1>1, <1>4 DEF InOrder, ReplayAscends
<1>5. ASSUME NEW x \in Subs, NEW sub \in Subscription, sessions # <<>>,
             Resubscribed(Now, x, sub), sub.mode = "none" \/ sub.since = Len(wire)
      PROVE  InOrder' /\ sessions'[Now].subs[x] = sub
  <2>1. /\ DOMAIN sessions' = DOMAIN sessions
        /\ \A j \in DOMAIN sessions : \A y \in Subs : sessions'[j].subs[y] =
             IF j = Now /\ y = x THEN sub ELSE sessions[j].subs[y]
    <3>1. \A k \in DOMAIN sessions : Resubscribed(k, x, sub) =>
            /\ DOMAIN sessions' = DOMAIN sessions
            /\ \A j \in DOMAIN sessions : \A y \in Subs : sessions'[j].subs[y] =
                 IF j = k /\ y = x THEN sub ELSE sessions[j].subs[y]
      BY <1>2, ResubscribedIs
    <3>2. Now \in DOMAIN sessions /\ Resubscribed(Now, x, sub)
      BY <1>3, <1>5
    <3> QED
      BY <3>1, <3>2
  <2>2. \A k \in DOMAIN sessions : \A y \in Subs :
          \/ /\ sessions'[k].subs[y].since = sessions[k].subs[y].since
             /\ sessions[k].subs[y].mode # "none"
          \/ sessions'[k].subs[y].mode = "none"
          \/ sessions'[k].subs[y].since = Len(wire)
    BY <1>5, <2>1
  <2> QED
    BY <1>1, <1>3, <1>5, <2>1, <2>2, SilentInOrder
<1>6. ASSUME NEW x \in Subs, sessions # <<>>, Resubscribed(Now, x, NoSub), UNCHANGED replay
      PROVE  InOrder' /\ ReplayAscends'
  <2>1. NoSub \in Subscription /\ NoSub.mode = "none"
    BY DEF NoSub, Subscription
  <2>2. InOrder'
    BY <1>5, <1>6, <2>1
  <2> QED
    BY <1>1, <1>6, <2>2 DEF ReplayAscends
<1>7. ASSUME NEW x, NEW floor, NEW cursor, Installing(x, floor, cursor)
      PROVE  InOrder' /\ ReplayAscends'
  <2> DEFINE todo == Matching(Now, x, cursor)
             sub == [mode |-> IF todo = {} THEN "active" ELSE "silent",
                     floor |-> floor, since |-> Len(wire)]
  <2>1. /\ x \in Subs /\ floor \in Nat /\ sessions # <<>> /\ Resubscribed(Now, x, sub)
        /\ replay' = IF todo = {} THEN replay
                     ELSE [on |-> TRUE, x |-> x, k |-> Now, todo |-> todo, upto |-> Bound.hi]
    BY <1>7 DEF Installing
  <2> HIDE DEF todo
  <2>2. sub \in Subscription /\ sub.since = Len(wire)
    BY <1>2, <2>1 DEF Subscription
  <2> HIDE DEF sub
  <2>3. InOrder' /\ sessions'[Now].subs[x] = sub
    BY <1>5, <2>1, <2>2
  <2>4. replay'.on => replay'.k = Now /\ replay'.x = x
    BY <1>1, <2>1
  <2>5. ReplayAscends'
    BY <1>1, <1>2, <2>2, <2>3, <2>4 DEF ReplayAscends, Mine
  <2> QED
    BY <2>3, <2>5
<1> QED
  BY <1>1, <1>4, <1>6, <1>7 DEF CommandStep

LEMMA DrainInOrder ==
  ASSUME Structure, InOrder, ReplayAscends, EndsDrain
  PROVE  InOrder' /\ ReplayAscends'
<1>1. replay.on /\ replay.todo = {} /\ UNCHANGED wire /\ (Drained \/ Extended)
  BY EndsDrainIs
<1>2. SessionsHold
  BY StructureHolds
<1>3. /\ replay.k \in DOMAIN sessions /\ replay.x \in Subs /\ replay.upto \in Nat
      /\ sessions[replay.k].subs[replay.x].mode = "silent"
      /\ replay.upto <= sessions[replay.k].hi
  <2>1. replay.upto \in Nat /\ replay.x \in Subs
    BY <1>2 DEF SessionsHold
  <2> QED
    BY <1>1, <1>2, <2>1 DEF SessionsHold, ReplayIsSilent
<1>4. sessions[replay.k] \in Session /\ replay.k \in 1 .. Now
      /\ sessions[replay.k].subs[replay.x] \in Subscription
  BY <1>3, WireIs, SinceIs
<1>5. CASE Drained
  <2> DEFINE old == sessions[replay.k].subs[replay.x]
             sub == [old EXCEPT !.mode = "active"]
  <2>1. sub \in Subscription /\ sub.since = old.since
    BY <1>4 DEF Subscription
  <2>2. Resubscribed(replay.k, replay.x, sub) /\ replay' = Idle
    BY <1>5 DEF Drained
  <2> HIDE DEF sub
  <2>3. /\ DOMAIN sessions' = DOMAIN sessions
        /\ \A j \in DOMAIN sessions : \A y \in Subs : sessions'[j].subs[y] =
             IF j = replay.k /\ y = replay.x THEN sub ELSE sessions[j].subs[y]
    BY <1>2, <1>3, <2>1, <2>2, ResubscribedIs
  <2>4. \A k \in DOMAIN sessions : \A y \in Subs :
          \/ /\ sessions'[k].subs[y].since = sessions[k].subs[y].since
             /\ sessions[k].subs[y].mode # "none"
          \/ sessions'[k].subs[y].mode = "none"
          \/ sessions'[k].subs[y].since = Len(wire)
    BY <1>3, <2>1, <2>3
  <2>5. InOrder'
    <3>1. UNCHANGED wire /\ DOMAIN sessions' = DOMAIN sessions
      BY <1>1, <2>3
    <3> QED
      BY <2>4, <3>1, SilentInOrder
  <2> QED
    BY <2>2, <2>5, IdleIs DEF ReplayAscends
<1>6. CASE Extended
  <2> DEFINE todo == Matching(replay.k, replay.x, replay.upto)
             upto == sessions[replay.k].hi
  <2>1. replay' = [replay EXCEPT !.todo = todo, !.upto = upto] /\ UNCHANGED <<sessions, wire>>
    <3>1. UNCHANGED <<sessions, wire>>
      BY <1>1, <1>6 DEF Extended
    <3>2. replay' = [replay EXCEPT !.todo = Matching(replay.k, replay.x, replay.upto),
                                   !.upto = sessions[replay.k].hi]
      BY <1>6 DEF Extended
    <3> QED
      BY <3>1, <3>2 DEF todo, upto
  <2>2. upto \in Nat /\ \A m \in todo : m > replay.upto /\ m \in Nat
    <3>1. upto \in Nat
      BY <1>4 DEF Session
    <3> QED
      BY <3>1 DEF Matching
  <2> HIDE DEF todo, upto
  <2>3. replay'.todo = todo /\ replay'.upto = upto /\ replay'.k = replay.k /\ replay'.x = replay.x
    BY <1>2, <2>1 DEF SessionsHold
  <2>4. InOrder'
    BY <2>1 DEF InOrder
  <2>5. Mine(replay.k, replay.x)' = Mine(replay'.k, replay'.x) /\ wire' = wire
    BY <2>1, <2>3 DEF Mine
  <2>6. \A i \in Mine(replay.k, replay.x) : wire[i].n <= replay.upto /\ wire[i].n \in Nat
    <3>1. \A i \in DOMAIN wire : wire[i].n \in Nat
      BY WireIs
    <3>2. \A i \in Mine(replay.k, replay.x) : i \in DOMAIN wire
      BY DEF Mine
    <3> QED
      BY <1>1, <3>1, <3>2 DEF ReplayAscends
  <2>7. \A i \in Mine(replay.k, replay.x) :
          wire[i].n <= upto /\ \A m \in todo : wire[i].n < m
    BY <1>3, <2>2, <2>6 DEF upto
  <2>8. ReplayAscends'
    BY <2>1, <2>3, <2>7 DEF ReplayAscends, Mine
  <2> QED
    BY <2>4, <2>8
<1> QED
  BY <1>1, <1>5, <1>6

\* The next number of a replay comes after all that was sent for it.
LEMMA ReplayInOrder ==
  ASSUME Structure, InOrder, ReplayAscends, SendsReplayed
  PROVE  InOrder' /\ ReplayAscends'
<1>1. PICK n \in replay.todo :
        /\ n \in 1 .. replay.upto /\ \A m \in replay.todo : n <= m
        /\ replay'.todo = replay.todo \ {n} /\ replay'.on /\ replay'.k = replay.k
        /\ replay'.x = replay.x /\ replay'.upto = replay.upto
        /\ Len(wire') = Len(wire) + 1 /\ \A i \in 1 .. Len(wire) : wire'[i] = wire[i]
        /\ wire'[Len(wire) + 1] = [n |-> n, to |-> {replay.x}, k |-> replay.k]
  BY SendsReplayedIs
<1>2. replay.on /\ UNCHANGED sessions /\ SessionsHold /\ SessionsHold'
  BY SendsReplayedIs, StructureHolds
<1>3. /\ Len(wire) \in Nat /\ DOMAIN wire = 1 .. Len(wire) /\ DOMAIN sessions = 1 .. Now
      /\ \A i \in 1 .. Len(wire) : wire[i].n \in Nat
  BY WireIs
<1>4. /\ replay.k \in DOMAIN sessions /\ replay.x \in Subs /\ replay.upto \in Nat
      /\ replay.todo \subseteq Nat
  BY <1>2 DEF SessionsHold, ReplayIsSilent
<1>5. Len(wire') \in Nat /\ DOMAIN wire' = 1 .. Len(wire')
  BY <1>2 DEF SessionsHold
<1> DEFINE r == [n |-> n, to |-> {replay.x}, k |-> replay.k]
<1>6. r.n = n /\ r.to = {replay.x} /\ r.k = replay.k
  OBVIOUS
<1>7. wire'[Len(wire) + 1] = r
  BY <1>1
<1> HIDE DEF r
<1>8. ASSUME NEW k \in DOMAIN sessions, NEW x \in Subs
      PROVE  /\ \A i \in Mine(k, x) : i \in 1 .. Len(wire) /\ wire'[i] = wire[i]
             /\ \A i \in Mine(k, x)' :
                  \/ i \in Mine(k, x)
                  \/ i = Len(wire) + 1 /\ k = replay.k /\ x = replay.x
  <2>1. /\ \A i \in Mine(k, x) : i \in 1 .. Len(wire) /\ wire'[i] = wire[i]
        /\ \A i \in Mine(k, x)' :
             \/ i \in Mine(k, x)
             \/ /\ i = Len(wire) + 1 /\ Len(wire') = Len(wire) + 1
                /\ wire'[i].k = k /\ x \in wire'[i].to
    BY <1>1, <1>2, <1>3, <1>5, MineGrows
  <2> QED
    BY <1>6, <1>7, <2>1
<1>9. \A i \in Mine(replay.k, replay.x) : wire[i].n < n /\ wire[i].n <= replay.upto
  BY <1>1, <1>2 DEF ReplayAscends
<1>10. ASSUME NEW k \in DOMAIN sessions, NEW x \in Subs, sessions[k].subs[x].mode # "none",
              NEW i \in Mine(k, x)', NEW j \in Mine(k, x)', i < j
       PROVE  wire'[i].n < wire'[j].n
  <2>1. Ascends(k, x)
    BY <1>10, InOrderIs
  <2>2. CASE j \in Mine(k, x)
    <3>1. i \in Mine(k, x)
      <4>1. j \in 1 .. Len(wire)
        BY <1>8, <1>10, <2>2
      <4>2. i \in 1 .. Len(wire')
        BY <1>5, <1>10 DEF Mine
      <4>3. i \in Mine(k, x) \/ i = Len(wire) + 1
        BY <1>8, <1>10
      <4> QED
        BY <1>3, <1>10, <4>1, <4>2, <4>3
    <3> QED
      BY <1>8, <1>10, <2>1, <2>2, <3>1 DEF Ascends
  <2>3. CASE j \notin Mine(k, x)
    <3>1. j = Len(wire) + 1 /\ k = replay.k /\ x = replay.x
      BY <1>8, <1>10, <2>3
    <3>2. i \in Mine(k, x) /\ wire'[i] = wire[i]
      <4>1. i # Len(wire) + 1
        BY <1>3, <1>10, <3>1
      <4>2. i \in Mine(k, x)
        BY <1>8, <1>10, <4>1
      <4> QED
        BY <1>8, <1>10, <4>2
    <3> QED
      BY <1>6, <1>7, <1>9, <3>1, <3>2
  <2> QED
    BY <2>2, <2>3
<1>11. InOrder'
  BY <1>2, <1>10 DEF InOrder, Mine
<1>12. ASSUME NEW k, NEW x, k = replay.k, x = replay.x, NEW i \in Mine(k, x)'
       PROVE  wire'[i].n <= replay.upto /\ \A m \in replay.todo \ {n} : wire'[i].n < m
  <2>1. \A m \in replay.todo \ {n} : n < m
    BY <1>1, <1>4
  <2>2. i \in Mine(k, x) \/ i = Len(wire) + 1
    BY <1>4, <1>8, <1>12
  <2>3. CASE i \in Mine(k, x)
    <3>1. wire'[i] = wire[i]
      BY <1>4, <1>8, <1>12, <2>3
    <3> QED
      BY <1>2, <1>12, <2>3, <3>1 DEF ReplayAscends
  <2>4. CASE i = Len(wire) + 1
    BY <1>1, <1>6, <1>7, <2>1, <2>4
  <2> QED
    BY <2>2, <2>3, <2>4
<1>13. ReplayAscends'
  BY <1>1, <1>2, <1>12 DEF ReplayAscends, Mine
<1> QED
  BY <1>11, <1>13

LEMMA OrderNext ==
  Structure /\ TapeTells /\ InOrder /\ ReplayAscends /\ [Next]_vars => InOrder' /\ ReplayAscends'
<1> SUFFICES ASSUME Structure, TapeTells, InOrder, ReplayAscends, [Next]_vars
             PROVE  InOrder' /\ ReplayAscends'
  OBVIOUS
<1>1. CASE UNCHANGED <<sessions, wire, replay>>
  BY <1>1 DEF InOrder, ReplayAscends, Mine
<1>2. CASE Reads
  <2>1. UNCHANGED replay
    BY <1>2, ReadsKeep
  <2>2. ASSUME NEW k, NEW s, Ready(k, s), NEW e \in SessionEvent, Pushes(k, s, e)
        PROVE  InOrder' /\ ReplayAscends'
    BY <2>1, <2>2, PushInOrder
  <2>3. CASE Rebinds
    BY <2>2, <2>3, RebindsIs, NewIsReady
  <2>4. ASSUME NEW s, SameSession(s), Quietly(s)
        PROVE  InOrder' /\ ReplayAscends'
    <3>1. /\ sessions' # <<>> /\ Now' = Now /\ Bound' = s /\ s.subs = Bound.subs
          /\ \A k \in 1 .. Now - 1 : sessions'[k] = sessions[k]
          /\ UNCHANGED wire /\ SessionsHold'
      BY <2>1, <2>4, QuietKeeps, StructureHolds DEF Structure, SameSession, Quietly
    <3>2. DOMAIN sessions = 1 .. Now /\ DOMAIN sessions' = 1 .. Now' /\ Now \in Nat
      BY <3>1, WireIs DEF SessionsHold, Now
    <3>3. \A k \in DOMAIN sessions : sessions'[k].subs = sessions[k].subs
      BY <3>1, <3>2 DEF Bound
    <3>4. InOrder'
      BY <3>1, <3>2, <3>3 DEF InOrder
    <3>5. replay.on => replay.k \in DOMAIN sessions
      BY DEF Structure, ReplayIsSilent
    <3>6. ReplayAscends'
      BY <2>1, <3>1, <3>3, <3>5 DEF ReplayAscends, Mine
    <3> QED
      BY <3>4, <3>6
  <2>5. CASE ~Rebinds
    <3>1. SessionStep
      BY <1>2, <2>5, ReadsSteps
    <3> QED
      BY <1>1, <2>1, <2>2, <2>4, <3>1, SameIsReady DEF SessionStep
  <2> QED
    BY <2>3, <2>5
<1>3. CASE ServesCommands
  BY <1>3, CommandInOrder
<1>4. CASE SendsReplayed \/ EndsDrain
  BY <1>4, ReplayInOrder, DrainInOrder
<1>5. CASE Reopens
  BY <1>5, ReopensKeeps DEF InOrder, ReplayAscends
<1>6. CASE Works
  BY <1>1, <1>6, WorksKeep DEF Connected
<1> QED
  BY <1>1, <1>2, <1>3, <1>4, <1>5, <1>6 DEF Next, vars

-----------------------------------------------------------------------------
(* What a subscription was promised *)

LEMMA BoundIs ==
  ASSUME Structure, sessions # <<>>
  PROVE  /\ Now \in DOMAIN sessions /\ Now \in Nat \ {0} /\ Bound \in Session
         /\ Bound.hi = Len(made) /\ Len(made) \in Nat /\ Bound.lo \in Nat
         /\ \A x \in Subs : /\ Bound.subs[x] \in Subscription /\ Bound.subs[x].floor \in Nat
                            /\ Bound.subs[x].mode \in {"none", "silent", "active"}
         /\ \A x \in Subs : Bound.subs[x].mode = "silent" =>
              /\ replay.on /\ replay.k = Now /\ replay.x = x
              /\ replay.upto \in Nat /\ replay.upto <= Len(made)
<1>1. /\ Now \in DOMAIN sessions /\ Now \in Nat \ {0} /\ Bound \in Session
      /\ Bound.hi = Len(made)
  BY BoundIsSession DEF Structure, ReaderIsBound
<1>2. \A x \in Subs : Bound.subs[x] \in Subscription
  BY <1>1 DEF Session
<1>3. \A x \in Subs : Bound.subs[x].floor \in Nat
                      /\ Bound.subs[x].mode \in {"none", "silent", "active"}
  BY <1>2 DEF Subscription
<1>4. Len(made) \in Nat /\ Bound.lo \in Nat
  BY <1>1, WireIs DEF Session
<1>5. SessionsHold
  BY StructureHolds
<1>6. replay.upto \in Nat
  BY <1>5 DEF SessionsHold
<1>7. \A x \in Subs : Bound.subs[x].mode = "silent" =>
              replay.on /\ replay.k = Now /\ replay.x = x
  BY <1>1, <1>5 DEF SessionsHold, ReplayIsSilent, Bound
<1>8. replay.on /\ replay.k = Now => replay.upto <= Len(made)
  BY <1>1, <1>5 DEF SessionsHold, ReplayIsSilent, Bound
<1> QED
  BY <1>1, <1>2, <1>3, <1>4, <1>6, <1>7, <1>8

\* What was delivered stays so, on one connection.
LEMMA DeliveredStays ==
  ASSUME Structure, conn'.since = conn.since, Len(wire') \in Nat, DOMAIN wire' = 1 .. Len(wire'),
         \/ wire' = wire
         \/ Len(wire') = Len(wire) + 1 /\ \A i \in 1 .. Len(wire) : wire'[i] = wire[i],
         \A i \in 1 .. Len(made) : made'[i] = made[i],
         NEW n \in 1 .. Len(made), Delivered(n)
  PROVE  Delivered(n)'
<1>1. /\ Len(wire) \in Nat /\ DOMAIN wire = 1 .. Len(wire)
      /\ \A i \in 1 .. Len(wire) : wire[i].n \in 1 .. Len(made)
  BY WireIs
<1>2. CASE n <= conn.since
  BY <1>2 DEF Delivered
<1>3. ASSUME NEW i \in 1 .. Len(wire), made[wire[i].n] = made[n]
      PROVE  Delivered(n)'
  <2>0. \A j \in 1 .. Len(wire) : wire'[j] = wire[j] /\ j \in 1 .. Len(wire')
    BY <1>1, Grown
  <2>1. wire'[i] = wire[i] /\ i \in 1 .. Len(wire')
    BY <2>0
  <2>2. made'[wire[i].n] = made[wire[i].n] /\ made'[n] = made[n]
    BY <1>1
  <2>3. made'[wire'[i].n] = made'[n]
    BY <1>3, <2>1, <2>2
  <2> QED
    BY <2>1, <2>3 DEF Delivered
<1> QED
  BY <1>1, <1>2, <1>3 DEF Delivered

\* An event is told to who wants it, or was told; who is silent finds it in the buffer.
LEMMA PushCovers ==
  ASSUME Structure, Covers, NEW k, NEW s, Ready(k, s), NEW e \in SessionEvent,
         Pushes(k, s, e), UNCHANGED <<replay, conn>>,
         \/ k = Now /\ s.lo = Bound.lo
         \/ /\ k = Now + 1
            /\ \A x \in Subs : s.subs[x].mode # "none" =>
                 s.subs[x].floor = Len(made) \/ Promised(x, s.subs[x].floor)
  PROVE  Covers'
<1> DEFINE top == Len(made) + 1
           lo == Held(s.lo, top)
<1>1. SessionsHold /\ SessionsHold'
  BY StructureHolds, PushKeeps
<1>2. /\ Len(wire) \in Nat /\ DOMAIN wire = 1 .. Len(wire) /\ Len(made) \in Nat
      /\ Now \in Nat /\ (sessions # <<>> => Now > 0) /\ DOMAIN sessions = 1 .. Now
  BY WireIs
<1>3. /\ Len(sessions') = k /\ sessions'[k] = [s EXCEPT !.hi = top, !.lo = lo]
      /\ \A j \in 1 .. k - 1 : sessions'[j] = sessions[j]
      /\ made'[top] = e /\ \A i \in 1 .. Len(made) : made'[i] = made[i]
      /\ wire' = Sent(e, top, Hearing(s, e, {"active"}), k)
      /\ spilt' = IF replay.on /\ replay.k = k
                  THEN spilt \cup {m \in replay.upto + 1 .. lo : Wants(replay.x, made'[m])}
                  ELSE spilt
  BY DEF Pushes
<1>4. /\ s \in Session /\ s.lo \in Nat /\ s.hi = Len(made) /\ s.lo <= Len(made)
      /\ \/ k = Now /\ sessions # <<>> /\ s.subs = Bound.subs
         \/ k = Now + 1 /\ \A x \in Subs : s.subs[x].mode # "silent"
  BY DEF Ready, Session
<1>5. lo \in Int /\ lo < top /\ s.lo <= lo
  BY <1>2, <1>4, ConstantsAssumption DEF Held
<1> HIDE DEF lo
<1>6. Bound'.hi = top /\ Bound'.lo = lo /\ Bound'.subs = s.subs
  BY <1>3, <1>4 DEF Bound, Now, Session
<1>7. \A x \in Subs : s.subs[x] \in Subscription /\ s.subs[x].floor \in Nat
        /\ s.subs[x].mode \in {"none", "silent", "active"}
  <2>1. \A x \in Subs : s.subs[x] \in Subscription
    BY <1>4 DEF Session
  <2> QED
    BY <2>1 DEF Subscription
<1>8. Len(wire') \in Nat /\ DOMAIN wire' = 1 .. Len(wire')
      /\ \/ wire' = wire
         \/ /\ Len(wire') = Len(wire) + 1 /\ \A i \in 1 .. Len(wire) : wire'[i] = wire[i]
            /\ wire'[Len(wire) + 1].n = top
  <2>1. wire' \in Seq(Sends(top))
    BY <1>2, <1>1, <1>3 DEF SessionsHold, Pushes
  <2>2. CASE wire' = wire
    BY <1>2, <2>2
  <2>3. CASE wire' = Append(wire, [n |-> top, to |-> Hearing(s, e, {"active"}), k |-> k])
    <3> DEFINE r == [n |-> top, to |-> Hearing(s, e, {"active"}), k |-> k]
    <3>1. r.n = top
      OBVIOUS
    <3> HIDE DEF r
    <3>2. wire' = Append(wire, r)
      BY <2>3 DEF r
    <3>3. wire \in Seq(Sends(Len(made)))
      BY <1>1 DEF SessionsHold
    <3>4. Len(wire') = Len(wire) + 1 /\ wire'[Len(wire) + 1] = r
          /\ \A i \in 1 .. Len(wire) : wire'[i] = wire[i]
      BY <3>2, <3>3
    <3> QED
      BY <1>2, <2>1, <3>1, <3>4
  <2> QED
    BY <1>3, <2>2, <2>3 DEF Sent
<1> SUFFICES ASSUME NEW x \in Subs, s.subs[x].mode # "none",
                    NEW n \in s.subs[x].floor + 1 .. top, Wants(x, made'[n])
             PROVE  Covered(x, n)'
  BY <1>6 DEF Covers, Wants
<1>9. ASSUME n <= Len(made)
      PROVE  Covered(x, n)'
  <2>1. n \in 1 .. Len(made) /\ made'[n] = made[n]
    BY <1>2, <1>3, <1>7, <1>9
  <2>2. sessions # <<>> /\ Bound.subs[x].mode # "none" /\ s.subs[x].floor = Bound.subs[x].floor
    BY <1>2, <1>4, <1>7, <1>9 DEF Promised
  <2>3. Covered(x, n)
    <3>1. Bound.hi = Len(made)
      BY <2>2, BoundIs
    <3>2. n \in Bound.subs[x].floor + 1 .. Bound.hi
      BY <1>2, <1>7, <1>9, <2>2, <3>1
    <3> QED
      BY <2>1, <2>2, <3>2 DEF Covers, Wants
  <2>4. CASE Delivered(n)
    <3>1. Delivered(n)'
      BY <1>3, <1>8, <2>1, <2>4, DeliveredStays
    <3> QED
      BY <3>1 DEF Covered
  <2>5. CASE n \in spilt
    BY <1>3, <2>5 DEF Covered
  <2>6. CASE Owed(x, n)
    <3>1. /\ replay.on /\ replay.x = x /\ replay.upto \in Nat
          /\ replay.k \in 1 .. Now /\ replay.k \in Nat
      BY <1>1, <1>2, <2>6 DEF Owed, SessionsHold, ReplayIsSilent
    <3>2. CASE n \in replay.todo
      BY <3>1, <3>2 DEF Owed, Covered
    <3>3. CASE n \in Matching(replay.k, x, replay.upto)
      <4>1. /\ n \in 1 .. sessions[replay.k].hi
            /\ n > replay.upto /\ n > sessions[replay.k].lo
        BY <3>3 DEF Matching
      <4>2. CASE replay.k # k
        <5>1. sessions'[replay.k] = sessions[replay.k]
          BY <1>2, <1>3, <1>4, <3>1, <4>2
        <5> QED
          BY <2>1, <3>1, <4>1, <5>1 DEF Owed, Covered, Matching, Wants
      <4>3. CASE replay.k = k /\ n > lo
        <5>1. sessions'[k].hi = top /\ sessions'[k].lo = lo
          BY <1>3, <1>4 DEF Session
        <5>2. n \in 1 .. top
          BY <1>2, <2>1
        <5> QED
          BY <2>1, <3>1, <4>1, <4>3, <5>1, <5>2 DEF Owed, Covered, Matching, Wants
      <4>4. CASE replay.k = k /\ n <= lo
        <5>1. n \in replay.upto + 1 .. lo /\ Wants(replay.x, made'[n])
          BY <1>5, <3>1, <4>1, <4>4 DEF Wants
        <5> QED
          BY <1>3, <3>1, <4>4, <5>1 DEF Covered
      <4> QED
        BY <1>5, <2>1, <4>2, <4>3, <4>4
    <3> QED
      BY <2>6, <3>2, <3>3 DEF Owed
  <2> QED
    BY <2>3, <2>4, <2>5, <2>6 DEF Covered
<1>10. ASSUME n = top
       PROVE  Covered(x, n)'
  <2>1. made'[n] = e
    BY <1>3, <1>10
  <2>2. CASE s.subs[x].mode = "active"
    <3>1. Hearing(s, e, {"active"}) # {}
      BY <2>1, <2>2 DEF Hearing, Wants
    <3>2. CASE Accepts(e, top)
      <4>1. wire' = Append(wire, [n |-> top, to |-> Hearing(s, e, {"active"}), k |-> k])
        BY <1>3, <3>1, <3>2 DEF Sent
      <4>2. Len(wire) + 1 \in DOMAIN wire' /\ wire'[Len(wire) + 1].n = top
        BY <1>1, <1>2, <4>1 DEF SessionsHold
      <4>3. Delivered(n)'
        BY <1>10, <4>2 DEF Delivered
      <4> QED
        BY <4>3 DEF Covered
    <3>3. CASE ~Accepts(e, top)
      <4>1. top <= conn.since \/ \E i \in DOMAIN wire : made[wire[i].n] = e
        <5>1. conn.since \in Nat
          BY StructureIs DEF ConnTypes
        <5> QED
          BY <1>2, <3>3, <5>1 DEF Accepts
      <4>2. CASE top <= conn.since
        BY <1>10, <4>2 DEF Delivered, Covered
      <4>3. ASSUME NEW i \in DOMAIN wire, made[wire[i].n] = e
            PROVE  Delivered(n)'
        <5>1. wire'[i] = wire[i] /\ i \in DOMAIN wire' /\ wire[i].n \in 1 .. Len(made)
          <6>1. \A j \in 1 .. Len(wire) : wire'[j] = wire[j] /\ j \in 1 .. Len(wire')
            BY <1>2, <1>8, Grown
          <6> QED
            BY <1>2, <1>8, <6>1, WireIs
        <5>2. made'[wire'[i].n] = made'[n]
          BY <1>3, <2>1, <4>3, <5>1
        <5> QED
          BY <5>1, <5>2 DEF Delivered
      <4> QED
        BY <4>1, <4>2, <4>3 DEF Covered
    <3> QED
      BY <3>2, <3>3
  <2>3. CASE s.subs[x].mode = "silent"
    <3>1. sessions # <<>> /\ s.subs = Bound.subs
      BY <1>4, <2>3
    <3>2. /\ k = Now /\ replay.on /\ replay.k = Now /\ replay.x = x
          /\ replay.upto \in Nat /\ replay.upto <= Len(made)
      BY <1>4, <2>3, <3>1, BoundIs
    <3>3. n > replay.upto /\ n > lo /\ n \in 1 .. top
      BY <1>2, <1>5, <1>10, <3>2
    <3>4. sessions'[k].hi = top /\ sessions'[k].lo = lo
      BY <1>3, <1>4 DEF Session
    <3> QED
      BY <3>2, <3>3, <3>4 DEF Owed, Covered, Matching, Wants
  <2> QED
    BY <1>7, <2>2, <2>3
<1> QED
  BY <1>2, <1>7, <1>9, <1>10

\* A step that numbers, sends and forgets nothing.
LEMMA StillDelivered ==
  ASSUME conn'.since = conn.since, UNCHANGED <<made, wire, spilt>>
  PROVE  \A n : (Delivered(n)' <=> Delivered(n)) /\ (n \in spilt' <=> n \in spilt)
BY DEF Delivered

LEMMA QuietCovers ==
  ASSUME Structure, Covers, NEW s, SameSession(s), Quietly(s), UNCHANGED <<replay, conn>>
  PROVE  Covers'
<1>1. Bound' = s /\ UNCHANGED <<made, wire, spilt>>
  BY StructureHolds, QuietKeeps DEF Structure, Quietly
<1>2. sessions # <<>> /\ s.subs = Bound.subs /\ s.hi = Bound.hi /\ s.lo = Bound.lo
  BY DEF SameSession
<1>3. \A n : (Delivered(n)' <=> Delivered(n)) /\ (n \in spilt' <=> n \in spilt)
  BY <1>1, StillDelivered
<1>4. ASSUME NEW x, NEW n, Owed(x, n)
      PROVE  Owed(x, n)'
  <2>1. \A k \in 1 .. Now : sessions'[k].hi = sessions[k].hi /\ sessions'[k].lo = sessions[k].lo
    BY <1>2, WireIs DEF Quietly, Bound
  <2>2. replay.k \in 1 .. Now
    BY <1>4, StructureHolds, WireIs DEF Owed, SessionsHold, ReplayIsSilent
  <2> QED
    BY <1>1, <1>4, <2>1, <2>2 DEF Owed, Matching, Wants
<1> QED
  BY <1>1, <1>2, <1>3, <1>4 DEF Covers, Covered, Wants

LEMMA ReadsCover ==
  ASSUME Structure, Covers, Reads
  PROVE  Covers'
<1>1. UNCHANGED <<replay, conn>>
  BY ReadsKeep
<1>2. CASE Rebinds
  <2>1. PICK e \in SessionEvent : Pushes(Now + 1, NewSession(Item.run), e)
    BY <1>2, RebindsIs
  <2>2. Item.run \in 1 .. Runs
    BY <1>2, RebindsIs
  <2> DEFINE s == NewSession(Item.run)
  <2>3. \A x \in Subs : \/ s.subs[x] = NoSub
                          \/ s.subs[x].floor = Len(made) \/ Promised(x, s.subs[x].floor)
    BY <2>2, NewIsSession
  <2>4. Ready(Now + 1, s)
    BY <2>2, NewIsReady
  <2> HIDE DEF s
  <2>5. \A x \in Subs : s.subs[x].mode # "none" =>
          s.subs[x].floor = Len(made) \/ Promised(x, s.subs[x].floor)
    BY <2>3 DEF NoSub
  <2>6. Pushes(Now + 1, s, e)
    BY <2>1 DEF s
  <2>7. ASSUME NEW k, k = Now + 1, NEW q, q = s PROVE Covers'
    <3>1. Ready(k, q) /\ Pushes(k, q, e)
      BY <2>4, <2>6, <2>7
    <3>2. /\ k = Now + 1
          /\ \A x \in Subs : q.subs[x].mode # "none" =>
               q.subs[x].floor = Len(made) \/ Promised(x, q.subs[x].floor)
      BY <2>5, <2>7
    <3> QED
      BY <1>1, <3>1, <3>2, PushCovers
  <2> QED
    BY <2>7
<1>3. CASE ~Rebinds
  <2>1. SessionStep
    BY <1>3, ReadsSteps
  <2>2. CASE UNCHANGED <<made, sessions, wire, spilt>>
    <3>1. \A n : (Delivered(n)' <=> Delivered(n)) /\ (n \in spilt' <=> n \in spilt)
      BY <1>1, <2>2, StillDelivered
    <3> QED
      BY <1>1, <2>2, <3>1 DEF Covers, Covered, Owed, Matching, Wants, Bound, Now
  <2>3. ASSUME NEW s, SameSession(s), Quietly(s) PROVE Covers'
    BY <1>1, <2>3, QuietCovers
  <2>4. ASSUME NEW s, SameSession(s), NEW e \in SessionEvent, Pushes(Now, s, e) PROVE Covers'
    <3>1. ASSUME NEW k, k = Now PROVE Covers'
      <4>1. Ready(k, s) /\ Pushes(k, s, e)
        BY <2>4, <3>1, SameIsReady
      <4>2. k = Now /\ s.lo = Bound.lo
        BY <2>4, <3>1 DEF SameSession
      <4> QED
        BY <1>1, <4>1, <4>2, PushCovers
    <3> QED
      BY <3>1
  <2> QED
    BY <2>1, <2>2, <2>3, <2>4 DEF SessionStep
<1> QED
  BY <1>2, <1>3

LEMMA CommandCovers ==
  ASSUME Structure, Covers, ServesCommands
  PROVE  Covers'
<1>1. /\ ~replay.on /\ conn'.since = conn.since /\ UNCHANGED <<made, wire, spilt>>
      /\ CommandStep
  <2>1. Commands /\ CommandStep
    BY ServesCommandsIs
  <2>2. conn \in ConnTypes
    BY StructureIs
  <2> QED
    BY <2>1, <2>2 DEF Commands, ConnTypes
<1>2. \A n : (Delivered(n)' <=> Delivered(n)) /\ (n \in spilt' <=> n \in spilt)
  BY <1>1, StillDelivered
<1>3. SessionsHold /\ Len(wire) \in Nat
  BY StructureHolds, WireIs
<1>4. CASE UNCHANGED <<sessions, replay>>
  BY <1>1, <1>2, <1>4 DEF Covers, Covered, Owed, Matching, Wants, Bound, Now
<1>5. ASSUME sessions # <<>>
      PROVE  \A x \in Subs : Bound.subs[x].mode # "none" =>
               \A n \in Bound.subs[x].floor + 1 .. Bound.hi :
                 Wants(x, made[n]) => Delivered(n) \/ n \in spilt
  BY <1>1, <1>5 DEF Covers, Covered, Owed
<1>6. ASSUME NEW x \in Subs, NEW sub \in Subscription, sessions # <<>>,
             Resubscribed(Now, x, sub)
      PROVE  /\ sessions' # <<>> /\ Now' = Now /\ Bound'.hi = Bound.hi /\ Bound'.lo = Bound.lo
             /\ \A y \in Subs : Bound'.subs[y] = IF y = x THEN sub ELSE Bound.subs[y]
  <2>1. \A k \in DOMAIN sessions : Resubscribed(k, x, sub) =>
            /\ Now' = Now /\ sessions' # <<>>
            /\ \A j \in DOMAIN sessions :
                 /\ sessions'[j].lo = sessions[j].lo /\ sessions'[j].hi = sessions[j].hi
                 /\ \A y \in Subs : sessions'[j].subs[y] =
                      IF j = k /\ y = x THEN sub ELSE sessions[j].subs[y]
    BY <1>3, ResubscribedIs
  <2>2. Now \in DOMAIN sessions /\ Resubscribed(Now, x, sub)
    BY <1>6, BoundIs
  <2> QED
    BY <2>1, <2>2 DEF Bound
<1>7. ASSUME NEW x \in Subs, sessions # <<>>, Resubscribed(Now, x, NoSub), UNCHANGED replay
      PROVE  Covers'
  <2>1. NoSub \in Subscription /\ NoSub.mode = "none"
    BY DEF NoSub, Subscription
  <2> QED
    BY <1>1, <1>2, <1>5, <1>6, <1>7, <2>1 DEF Covers, Covered, Wants
<1>8. ASSUME NEW x, NEW floor, NEW cursor, Installing(x, floor, cursor)
      PROVE  Covers'
  <2> DEFINE todo == Matching(Now, x, cursor)
             sub == [mode |-> IF todo = {} THEN "active" ELSE "silent",
                     floor |-> floor, since |-> Len(wire)]
  <2>1. /\ x \in Subs /\ floor \in Nat /\ cursor \in Nat /\ sessions # <<>>
        /\ Bound.lo <= floor /\ cursor <= floor /\ Resubscribed(Now, x, sub)
        /\ replay' = IF todo = {} THEN replay
                     ELSE [on |-> TRUE, x |-> x, k |-> Now, todo |-> todo, upto |-> Bound.hi]
    BY <1>8 DEF Installing
  <2>2. \A n \in floor + 1 .. Bound.hi : Wants(x, made[n]) => n \in todo
    <3>1. Bound.lo \in Nat /\ Bound.hi \in Nat
      BY <2>1, BoundIs
    <3> QED
      BY <2>1, <3>1 DEF Matching, Bound
  <2> HIDE DEF todo
  <2>3. /\ sub \in Subscription /\ sub.floor = floor
        /\ sub.mode = IF todo = {} THEN "active" ELSE "silent"
    BY <1>3, <2>1 DEF Subscription
  <2> HIDE DEF sub
  <2>4. /\ sessions' # <<>> /\ Bound'.hi = Bound.hi /\ Bound'.lo = Bound.lo
        /\ \A y \in Subs : Bound'.subs[y] = IF y = x THEN sub ELSE Bound.subs[y]
    BY <1>6, <2>1, <2>3
  <2>5. todo # {} => replay'.on /\ replay'.x = x /\ replay'.todo = todo
    BY <2>1
  <2> SUFFICES ASSUME NEW y \in Subs, Bound'.subs[y].mode # "none",
                      NEW n \in Bound'.subs[y].floor + 1 .. Bound'.hi, Wants(y, made'[n])
               PROVE  Covered(y, n)'
    BY DEF Covers, Wants
  <2>6. CASE y = x
    BY <1>1, <2>2, <2>3, <2>4, <2>5, <2>6 DEF Covered, Owed
  <2>7. CASE y # x
    BY <1>1, <1>2, <1>5, <2>1, <2>4, <2>7 DEF Covered
  <2> QED
    BY <2>6, <2>7
<1> QED
  BY <1>1, <1>4, <1>7, <1>8 DEF CommandStep

\* When nothing more is found the subscription has everything; what is found is to
\* be sent.
LEMMA DrainCovers ==
  ASSUME Structure, Covers, EndsDrain
  PROVE  Covers'
<1>1. /\ replay.on /\ replay.todo = {} /\ UNCHANGED <<wire, made, spilt, conn>>
      /\ (Drained \/ Extended)
  BY EndsDrainIs DEF Replaying
<1>2. \A n : (Delivered(n)' <=> Delivered(n)) /\ (n \in spilt' <=> n \in spilt)
  BY <1>1, StillDelivered
<1>3. SessionsHold /\ replay.k \in DOMAIN sessions /\ replay.x \in Subs /\ sessions # <<>>
      /\ sessions[replay.k].subs[replay.x].mode = "silent"
  BY <1>1, StructureHolds DEF SessionsHold, ReplayIsSilent
<1>4. /\ sessions[replay.k] \in Session /\ sessions[replay.k].subs[replay.x] \in Subscription
      /\ DOMAIN sessions = 1 .. Now
  BY <1>3, WireIs, SinceIs
<1>5. Now \in DOMAIN sessions /\ Bound.hi \in Nat
  BY <1>3, BoundIs
\* What is still owed is what the drain looks for.
<1>6. ASSUME NEW x \in Subs, Bound.subs[x].mode # "none",
             NEW n \in Bound.subs[x].floor + 1 .. Bound.hi, Wants(x, made[n])
      PROVE  \/ Delivered(n) \/ n \in spilt
             \/ x = replay.x /\ n \in Matching(replay.k, replay.x, replay.upto)
  BY <1>1, <1>3, <1>6 DEF Covers, Covered, Owed
<1>7. CASE Drained
  <2> DEFINE old == sessions[replay.k].subs[replay.x]
             sub == [old EXCEPT !.mode = "active"]
  <2>1. sub \in Subscription /\ sub.mode = "active" /\ sub.floor = old.floor
    BY <1>4 DEF Subscription
  <2>2. Resubscribed(replay.k, replay.x, sub) /\ replay' = Idle
        /\ Matching(replay.k, replay.x, replay.upto) = {}
    BY <1>7 DEF Drained
  <2> HIDE DEF sub
  <2>3. /\ Now' = Now /\ sessions' # <<>>
        /\ \A j \in DOMAIN sessions :
             /\ sessions'[j].hi = sessions[j].hi
             /\ \A y \in Subs : sessions'[j].subs[y] =
                  IF j = replay.k /\ y = replay.x THEN sub ELSE sessions[j].subs[y]
    BY <1>3, <2>1, <2>2, ResubscribedIs
  <2>4. Bound'.hi = Bound.hi /\ \A x \in Subs :
          /\ Bound'.subs[x].floor = Bound.subs[x].floor
          /\ Bound'.subs[x].mode # "none" => Bound.subs[x].mode # "none"
    BY <1>3, <1>5, <2>1, <2>3 DEF Bound
  <2> QED
    BY <1>1, <1>2, <1>6, <2>2, <2>3, <2>4 DEF Covers, Covered, Wants
<1>8. CASE Extended
  <2> DEFINE todo == Matching(replay.k, replay.x, replay.upto)
             upto == sessions[replay.k].hi
  <2>1. UNCHANGED sessions /\ replay' = [replay EXCEPT !.todo = todo, !.upto = upto]
    BY <1>8 DEF Extended
  <2>2. \A x \in Subs : Bound.subs[x].mode # "none" =>
          \A n \in Bound.subs[x].floor + 1 .. Bound.hi : Wants(x, made[n]) =>
            Delivered(n) \/ n \in spilt \/ (x = replay.x /\ n \in todo)
    BY <1>6
  <2> HIDE DEF todo, upto
  <2>3. replay'.todo = todo /\ replay'.on /\ replay'.x = replay.x
    BY <1>1, <1>3, <2>1 DEF SessionsHold
  <2> QED
    BY <1>1, <1>2, <2>1, <2>2, <2>3 DEF Covers, Covered, Owed, Wants, Bound, Now
<1> QED
  BY <1>1, <1>7, <1>8

LEMMA ReplayedCovers ==
  ASSUME Structure, Covers, SendsReplayed
  PROVE  Covers'
<1>1. PICK m \in replay.todo :
        /\ m \in 1 .. replay.upto /\ replay'.todo = replay.todo \ {m}
        /\ replay'.upto = replay.upto /\ replay'.on /\ replay'.k = replay.k
        /\ replay'.x = replay.x
        /\ Len(wire') = Len(wire) + 1 /\ \A i \in 1 .. Len(wire) : wire'[i] = wire[i]
        /\ wire'[Len(wire) + 1] = [n |-> m, to |-> {replay.x}, k |-> replay.k]
  BY SendsReplayedIs
<1>2. /\ replay.on /\ UNCHANGED <<sessions, conn, made, spilt>> /\ SessionsHold'
  BY SendsReplayedIs DEF Replaying
<1>3. Len(wire) \in Nat /\ Len(wire') \in Nat /\ DOMAIN wire' = 1 .. Len(wire')
  BY <1>2, WireIs DEF SessionsHold
<1>4. \A n \in 1 .. Len(made) : Delivered(n) => Delivered(n)'
  BY <1>1, <1>2, <1>3, DeliveredStays
<1>5. Delivered(m)'
  <2>1. wire'[Len(wire) + 1].n = m
    BY <1>1
  <2>2. Len(wire) + 1 \in DOMAIN wire'
    BY <1>1, <1>3
  <2> QED
    BY <1>2, <2>1, <2>2 DEF Delivered
<1> SUFFICES ASSUME sessions # <<>>, NEW x \in Subs, Bound.subs[x].mode # "none",
                    NEW n \in Bound.subs[x].floor + 1 .. Bound.hi, Wants(x, made[n])
             PROVE  Covered(x, n)'
  BY <1>2 DEF Covers, Wants, Bound, Now
<1>6. Covered(x, n)
  BY DEF Covers
<1>7. n \in 1 .. Len(made)
  <2>1. Bound.hi = Len(made) /\ Len(made) \in Nat /\ Bound.subs[x].floor \in Nat
    BY BoundIs
  <2> QED
    BY <2>1
<1>8. n = m \/ n \in replay'.todo \/ n \notin replay.todo
  BY <1>1
<1> QED
  BY <1>1, <1>2, <1>4, <1>5, <1>6, <1>7, <1>8 DEF Covered, Owed, Matching, Wants

LEMMA CoversNext ==
  Structure /\ TapeTells /\ Covers /\ [Next]_vars => Covers'
<1> SUFFICES ASSUME Structure, TapeTells, Covers, [Next]_vars PROVE Covers'
  OBVIOUS
<1>1. ASSUME UNCHANGED <<conn, made, sessions, replay, wire, spilt>> PROVE Covers'
  <2>1. \A n : (Delivered(n)' <=> Delivered(n)) /\ (n \in spilt' <=> n \in spilt)
    BY <1>1, StillDelivered
  <2> QED
    BY <1>1, <2>1 DEF Covers, Covered, Owed, Matching, Wants, Bound, Now
<1>2. CASE Works
  BY <1>1, <1>2, WorksKeep DEF Connected
<1>3. CASE Reads
  BY <1>3, ReadsCover
<1>4. CASE ServesCommands
  BY <1>4, CommandCovers
<1>5. CASE SendsReplayed \/ EndsDrain
  BY <1>5, ReplayedCovers, DrainCovers
<1>6. CASE Reopens
  BY <1>6, ReopensKeeps DEF Covers
<1> QED
  BY <1>1, <1>2, <1>3, <1>4, <1>5, <1>6 DEF Next, vars

-----------------------------------------------------------------------------
(* The end that is told *)

EndTells ==
  /\ sessions # <<>> /\ Past /\ reader.step = "next"
  /\ ~Bound.lost /\ tries[Bound.run] = 1
  => Fits(row[Bound.run], Bound.root)

LEMMA EndTellsIs ==
  ASSUME Structure
  PROVE  TerminalTold <=> EndTells
<1>1. sessions # <<>> => Now \in DOMAIN sessions
  BY BoundIs
<1>2. sessions = <<>> => DOMAIN sessions = {}
  OBVIOUS
<1> QED
  BY <1>1, <1>2 DEF TerminalTold, EndTells, Fits, Past, Seen, Bound

LEMMA SeenOn ==
  ASSUME Structure, UNCHANGED tape, reader.at < Len(tape), reader'.at = reader.at + 1,
         NEW r, NEW kind
  PROVE  Seen(r, kind)' <=> Seen(r, kind) \/ (Item.run = r /\ Item.kind = kind)
<1>1. /\ Item \in Entry /\ reader.at \in Nat
  BY ItemIs DEF Structure
<1>2. Item = [run |-> r, kind |-> kind] <=> Item.run = r /\ Item.kind = kind
  BY <1>1 DEF Entry
<1> QED
  BY <1>1, <1>2 DEF Seen, Item

\* Nothing of a run follows its done marker.
LEMMA NotSeen ==
  ASSUME Structure, TapeTells, reader.at < Len(tape)
  PROVE  ~Seen(Item.run, "done")
<1>1. /\ Item \in Entry /\ reader.at \in Nat /\ reader.at + 1 \in DOMAIN tape
      /\ tape \in Seq(Entry)
  BY ItemIs DEF Structure, TypeOK
<1> SUFFICES ASSUME NEW i \in 1 .. reader.at, tape[i] = [run |-> Item.run, kind |-> "done"]
             PROVE  FALSE
  BY DEF Seen
<1>2. i \in DOMAIN tape /\ tape[i].kind = "done" /\ tape[i].run = tape[reader.at + 1].run
  BY <1>1 DEF Item
<1>3. reader.at + 1 <= i
  BY <1>1, <1>2 DEF TapeTells, LastOfRun
<1> QED
  BY <1>1, <1>3

Told(s) ==
  /\ sessions' # <<>> /\ Bound'.run = s.run /\ Bound'.root = s.root
  /\ Bound'.latched = s.latched /\ Bound'.lost = s.lost

LEMMA PushTells ==
  ASSUME Structure, NEW s, SameSession(s), NEW e \in SessionEvent, Pushes(Now, s, e)
  PROVE  Told(s)
<1>1. Now \in Nat \ {0} /\ s \in Session
  BY BoundIs DEF SameSession
<1>2. /\ sessions' \in Seq(Session) /\ Len(sessions') = Now
      /\ sessions'[Now] = [s EXCEPT !.hi = Len(made) + 1, !.lo = Held(s.lo, Len(made) + 1)]
  BY DEF Pushes
<1>3. Now' = Now /\ Bound' = sessions'[Now] /\ sessions' # <<>>
  BY <1>1, <1>2 DEF Bound, Now
<1> QED
  BY <1>1, <1>2, <1>3 DEF Told, Session

LEMMA QuietTells ==
  ASSUME Structure, NEW s, SameSession(s), Quietly(s), UNCHANGED replay
  PROVE  Told(s)
BY StructureHolds, QuietKeeps DEF Structure, Told

LEMMA EmitTells ==
  ASSUME Structure, NEW s, SameSession(s), NEW e \in SessionEvent, Emits(s, e)
  PROVE  Told(s)
BY EmitsPushes, PushTells

LEMMA SaysTells ==
  ASSUME Structure, NEW s, SameSession(s), NEW status \in Statuses, Says(s, status),
         UNCHANGED replay
  PROVE  Told([s EXCEPT !.root = status])
<1> DEFINE t == [s EXCEPT !.root = status]
<1>1. SameSession(t) /\ (Quietly(t) \/ Pushes(Now, t, RootEvent(s, status)))
  BY SaysIs
<1>2. RootEvent(s, status) \in SessionEvent
  BY RootEventIs DEF SameSession
<1> HIDE DEF t
<1>3. Told(t)
  BY <1>1, <1>2, QuietTells, PushTells
<1> QED
  BY <1>3 DEF t

LEMMA ChildTells ==
  ASSUME Structure, NEW s, SameSession(s), ChildCompleted(s)
  PROVE  Told(s)
<1>1. PICK t, e : SameSession(t) /\ e \in SessionEvent /\ Pushes(Now, t, e)
                  /\ t = [s EXCEPT !.child = "completed"]
  BY ChildCompletedIs
<1>2. Told(t)
  BY <1>1, PushTells
<1>3. s \in Session
  BY DEF SameSession
<1>4. t.run = s.run /\ t.root = s.root /\ t.latched = s.latched /\ t.lost = s.lost
  BY <1>1, <1>3 DEF Session
<1> QED
  BY <1>2, <1>4 DEF Told

\* A step that moves neither the telling nor what the reader has seen of the run.
LEMMA StillTells ==
  ASSUME EndTells, LatchTells, EndIsRead, UNCHANGED source, sessions # <<>>, Told(Bound),
         Seen(Bound.run, "done")' <=> Seen(Bound.run, "done"),
         Seen(Bound.run, "error")' <=> Seen(Bound.run, "error"),
         \/ reader'.step = reader.step /\ reader'.told = reader.told
         \/ reader.step = "next" /\ reader'.step = "asked"
  PROVE  EndTells' /\ LatchTells' /\ EndIsRead'
<1>1. UNCHANGED <<row, tries, tape>> /\ Bound'.run = Bound.run /\ Bound'.root = Bound.root
      /\ Bound'.latched = Bound.latched /\ Bound'.lost = Bound.lost
  BY DEF source, Told
<1>2. (Past' <=> Past) /\ (ErrorBefore' <=> ErrorBefore)
  BY <1>1 DEF Past, ErrorBefore, Seen
<1>3. (EndedAtOnce(Bound.run)' <=> EndedAtOnce(Bound.run))
      /\ (Out(Bound.run, "error")' <=> Out(Bound.run, "error"))
  BY <1>1 DEF EndedAtOnce, Out
<1>4. EndTells'
  BY <1>1, <1>2 DEF EndTells
<1>5. LatchTells'
  BY <1>1, <1>2, <1>3 DEF LatchTells
<1>6. EndIsRead'
  BY <1>1 DEF EndIsRead
<1> QED
  BY <1>4, <1>5, <1>6

LEMMA ReadOnIs ==
  ASSUME Structure, ReadOn
  PROVE  reader'.at = reader.at + 1 /\ reader'.step = "next" /\ reader'.told = reader.told
<1>1. reader \in ReaderTypes
  BY StructureIs DEF ReaderHolds
<1> QED
  BY <1>1 DEF ReadOn, ReaderTypes

LEMMA ThenIs ==
  ASSUME Structure, NEW step, Then(step)
  PROVE  reader'.at = reader.at /\ reader'.step = step /\ reader'.told = reader.told
<1>1. reader \in ReaderTypes
  BY StructureIs DEF ReaderHolds
<1> QED
  BY <1>1 DEF Then, ReaderTypes

LEMMA TellsIs ==
  ASSUME Structure, NEW status, Tells(status)
  PROVE  /\ reader'.at = reader.at /\ reader'.step = "flush" /\ reader'.told = status
         /\ Quietly([Bound EXCEPT !.latched = TRUE])
<1>1. reader \in ReaderTypes
  BY StructureIs DEF ReaderHolds
<1> QED
  BY <1>1 DEF Tells, ReaderTypes

\* A session that is told something has the same subscriptions and buffer.
LEMMA BoundSame ==
  ASSUME Structure, sessions # <<>>
  PROVE  /\ SameSession(Bound) /\ SameSession([Bound EXCEPT !.latched = TRUE])
         /\ [Bound EXCEPT !.latched = TRUE].run = Bound.run
         /\ [Bound EXCEPT !.latched = TRUE].root = Bound.root
         /\ [Bound EXCEPT !.latched = TRUE].latched
         /\ [Bound EXCEPT !.latched = TRUE].lost = Bound.lost
<1>1. Bound \in Session
  BY BoundIs
<1> QED
  BY <1>1 DEF SameSession, Session

\* An item that is not the run's, or neither its error nor its marker.
LEMMA PassesBy ==
  ASSUME Structure, EndTells, LatchTells, EndIsRead, UNCHANGED source, sessions # <<>>,
         reader.step = "next", reader.at < Len(tape),
         Item.run # Bound.run \/ Item.kind \notin {"done", "error"},
         Told(Bound), ReadOn
  PROVE  EndTells' /\ LatchTells' /\ EndIsRead'
<1>1. reader'.at = reader.at + 1 /\ reader'.step = "next" /\ reader'.told = reader.told
  BY ReadOnIs
<1>2. UNCHANGED tape /\ Bound'.run = Bound.run
  BY DEF source, Told
<1>3. \A r, kind : Seen(r, kind)' <=> Seen(r, kind) \/ (Item.run = r /\ Item.kind = kind)
  BY <1>1, <1>2, SeenOn
<1>4. \A r : r = Bound.run =>
        (Seen(r, "done")' <=> Seen(r, "done")) /\ (Seen(r, "error")' <=> Seen(r, "error"))
  BY <1>3
<1>5. /\ Seen(Bound.run, "done")' <=> Seen(Bound.run, "done")
      /\ Seen(Bound.run, "error")' <=> Seen(Bound.run, "error")
  BY <1>2, <1>4 DEF Seen
<1> QED
  BY <1>1, <1>5, StillTells

\* What an item is when the session reads it.
LEMMA IngestingIs ==
  ASSUME Structure, TapeTells, NEW kind, Ingesting(kind)
  PROVE  /\ reader.step = "next" /\ reader.at < Len(tape) /\ sessions # <<>>
         /\ Item.run = Bound.run /\ Item.kind = kind /\ ~Past /\ Bound.run \in 1 .. Runs
<1>1. /\ reader.step = "next" /\ reader.at < Len(tape) /\ sessions # <<>>
      /\ Item.run = Bound.run /\ Item.kind = kind
  BY DEF Ingesting, More, IsBound
<1>2. Item.run \in 1 .. Runs
  BY <1>1, ItemIs DEF Structure
<1> QED
  BY <1>1, <1>2, NotSeen DEF Past

LEMMA ForwardsTells ==
  ASSUME Structure, TapeTells, EndTells, LatchTells, EndIsRead,
         Forwards \/ OpensChild \/ ClosesChild
  PROVE  EndTells' /\ LatchTells' /\ EndIsRead'
<1>1. PICK kind \in {"values", "chunk", "works", "opens", "closes"} : Ingesting(kind) /\ ReadOn
  BY DEF Forwards, OpensChild, ClosesChild
<1>2. /\ reader.step = "next" /\ reader.at < Len(tape) /\ sessions # <<>>
      /\ Item.run = Bound.run /\ Item.kind = kind
  BY <1>1, IngestingIs
<1>3. UNCHANGED source /\ UNCHANGED replay
  BY DEF Forwards, OpensChild, ClosesChild, Reading
<1>4. /\ SameSession(Bound) /\ Bound \in Session /\ Bound.run \in 1 .. Runs
      /\ reader.at + 1 \in Nat
  BY <1>2, BoundSame, ItemIs DEF SameSession, Structure
<1>5. Told(Bound)
  <2>1. ASSUME NEW s, SameSession(s), Told(s), s.root = Bound.root, s.latched = Bound.latched,
               s.lost = Bound.lost
        PROVE  Told(Bound)
    BY <2>1 DEF Told, SameSession
  <2>2. CASE Forwards
    <3>1. PICK kd \in {"values", "chunk", "works"} :
            Emits([Bound EXCEPT !.child = IF kd = "works" THEN "started" ELSE Bound.child],
                  Event(Bound.run, IF kd = "chunk" THEN "messages" ELSE "values",
                        IF kd = "works" THEN "child" ELSE "root", kd, reader.at + 1))
      BY <2>2 DEF Forwards
    <3> DEFINE s == [Bound EXCEPT !.child = IF kd = "works" THEN "started" ELSE Bound.child]
               e == Event(Bound.run, IF kd = "chunk" THEN "messages" ELSE "values",
                        IF kd = "works" THEN "child" ELSE "root", kd, reader.at + 1)
    <3>2. /\ SameSession(s) /\ s.root = Bound.root /\ s.latched = Bound.latched
          /\ s.lost = Bound.lost
      BY <1>4 DEF SameSession, Session
    <3>3. e \in SessionEvent
      <4>1. (IF kd = "chunk" THEN "messages" ELSE "values") \in Channels
            /\ (IF kd = "works" THEN "child" ELSE "root") \in {"root", "child"}
            /\ kd \in Statuses \cup AllKinds \cup {"started", "requested"}
        BY DEF Channels, AllKinds
      <4> QED
        BY <1>4, <4>1, EventIs
    <3>4. Emits(s, e)
      BY <3>1
    <3> HIDE DEF s, e
    <3>5. Told(s)
      BY <3>2, <3>3, <3>4, EmitTells
    <3> QED
      BY <2>1, <3>2, <3>5
  <2>3. CASE OpensChild
    <3> DEFINE s == [Bound EXCEPT !.opened = TRUE, !.child = "started"]
               e == Event(Bound.run, "lifecycle", "child", "started", reader.at + 1)
    <3>1. Quietly(Bound) \/ Emits(s, e)
      BY <2>3 DEF OpensChild
    <3>2. /\ SameSession(s) /\ s.root = Bound.root /\ s.latched = Bound.latched
          /\ s.lost = Bound.lost
      BY <1>4 DEF SameSession, Session
    <3>3. e \in SessionEvent
      BY <1>4, EventIs DEF Channels
    <3> HIDE DEF s, e
    <3> QED
      BY <1>3, <1>4, <2>1, <3>1, <3>2, <3>3, QuietTells, EmitTells
  <2>4. CASE ClosesChild
    <3>1. Quietly(Bound) \/ ChildCompleted(Bound)
      BY <2>4 DEF ClosesChild
    <3> QED
      BY <1>3, <1>4, <3>1, QuietTells, ChildTells
  <2> QED
    BY <2>2, <2>3, <2>4
<1> QED
  BY <1>1, <1>2, <1>3, <1>5, PassesBy

LEMMA FailsTells ==
  ASSUME Structure, TapeTells, Fails
  PROVE  EndTells' /\ LatchTells' /\ EndIsRead'
<1>1. /\ reader.step = "next" /\ reader.at < Len(tape) /\ sessions # <<>>
      /\ Item.run = Bound.run /\ Item.kind = "error" /\ ~Seen(Bound.run, "done")
  BY IngestingIs DEF Fails, Past
<1>2. reader'.at = reader.at + 1 /\ reader'.step = "next"
  BY ReadOnIs DEF Fails
<1>3. UNCHANGED <<row, tries, tape>>
  BY DEF Fails, Reading, source
<1> DEFINE s == [Bound EXCEPT !.latched = TRUE, !.root = "failed"]
<1>4. SameSession(s) /\ s.root = "failed" /\ Bound \in Session /\ s.run = Bound.run
  BY <1>1, BoundSame DEF SameSession, Session, Statuses
<1>5. RootEvent(Bound, "failed") \in SessionEvent
  BY <1>4, RootEventIs DEF Statuses
<1>6. Emits(s, RootEvent(Bound, "failed"))
  BY DEF Fails
<1> HIDE DEF s
<1>7. Told(s)
  BY <1>4, <1>5, <1>6, EmitTells
<1>8. Bound'.root = "failed" /\ Bound'.run = Bound.run
  BY <1>4, <1>7 DEF Told
<1>9. \A r : r = Bound.run => ~Seen(r, "done")' /\ Out(r, "error")'
  <2>1. \A r : r = Bound.run => ~Seen(r, "done")'
    BY <1>1, <1>2, <1>3, SeenOn
  <2>2. reader.at + 1 \in DOMAIN tape /\ Item \in Entry
    BY <1>1, ItemIs DEF Structure
  <2>3. tape[reader.at + 1] = [run |-> Bound.run, kind |-> "error"]
    BY <1>1, <2>2 DEF Item, Entry
  <2>4. \A r : r = Bound.run => Out(r, "error")'
    BY <1>3, <2>2, <2>3 DEF Out
  <2> QED
    BY <2>1, <2>4
<1>10. ~Past' /\ Out(Bound.run, "error")'
  BY <1>8, <1>9 DEF Past, Out, Seen
<1> QED
  BY <1>2, <1>8, <1>10 DEF EndTells, LatchTells, EndIsRead

LEMMA AsksTells ==
  ASSUME Structure, TapeTells, EndTells, LatchTells, EndIsRead, AsksInput
  PROVE  EndTells' /\ LatchTells' /\ EndIsRead'
<1>1. /\ reader.step = "next" /\ reader.at < Len(tape) /\ sessions # <<>>
      /\ Item.run = Bound.run /\ Item.kind = "input"
  BY IngestingIs DEF AsksInput
<1>2. UNCHANGED source /\ UNCHANGED replay
  BY DEF AsksInput, Reading
<1>3. SameSession(Bound) /\ Bound \in Session /\ Bound.run \in 1 .. Runs
  BY <1>1, BoundSame, ItemIs DEF SameSession, Structure
<1>4. CASE Quietly(Bound) /\ ReadOn
  <2>1. Told(Bound)
    BY <1>2, <1>3, <1>4, QuietTells
  <2> QED
    BY <1>1, <1>2, <1>4, <2>1, PassesBy
<1>5. CASE Emits([Bound EXCEPT !.asked = TRUE],
                 Event(Bound.run, "input", "root", "requested", 0)) /\ Then("asked")
  <2> DEFINE s == [Bound EXCEPT !.asked = TRUE]
             e == Event(Bound.run, "input", "root", "requested", 0)
  <2>1. /\ SameSession(s) /\ s.root = Bound.root /\ s.latched = Bound.latched
        /\ s.lost = Bound.lost
    BY <1>3 DEF SameSession, Session
  <2>2. e \in SessionEvent
    BY <1>3, EventIs DEF Channels
  <2>3. Emits(s, e)
    BY <1>5
  <2> HIDE DEF s, e
  <2>4. Told(s)
    BY <2>1, <2>2, <2>3, EmitTells
  <2>5. Told(Bound)
    BY <2>1, <2>4 DEF Told, SameSession
  <2>6. reader'.at = reader.at /\ reader'.step = "asked"
    BY <1>5, ThenIs
  <2>7. /\ Seen(Bound.run, "done")' <=> Seen(Bound.run, "done")
        /\ Seen(Bound.run, "error")' <=> Seen(Bound.run, "error")
    BY <1>2, <2>5, <2>6 DEF Seen, Told, source
  <2> QED
    BY <1>1, <1>2, <2>5, <2>6, <2>7, StillTells
<1> QED
  BY <1>4, <1>5 DEF AsksInput

\* After the error of a run that ended at once there is its marker and nothing else.
LEMMA ErrorSeen ==
  ASSUME Structure, TapeTells, reader.at < Len(tape), EndedAtOnce(Item.run),
         Seen(Item.run, "error")
  PROVE  Item.kind = "done"
<1>1. /\ Item \in Entry /\ reader.at \in Nat /\ reader.at + 1 \in DOMAIN tape
      /\ tape \in Seq(Entry)
  BY ItemIs DEF Structure, TypeOK
<1>2. PICK i \in 1 .. reader.at : tape[i] = [run |-> Item.run, kind |-> "error"]
  BY DEF Seen
<1>3. i \in DOMAIN tape /\ i < reader.at + 1 /\ tape[i].kind = "error"
      /\ tape[i].run = Item.run /\ tape[reader.at + 1].run = tape[i].run
  BY <1>1, <1>2 DEF Item
<1>4. tape[reader.at + 1].kind = "done"
  <2>1. EndedAtOnce(tape[i].run)
    BY <1>3
  <2> QED
    BY <1>1, <1>3, <2>1 DEF TapeTells
<1> QED
  BY <1>4 DEF Item

LEMMA InterruptedTells ==
  ASSUME Structure, TapeTells, SaysInterrupted
  PROVE  EndTells' /\ LatchTells' /\ EndIsRead'
<1>1. /\ reader.at < Len(tape) /\ sessions # <<>> /\ reader.step = "asked"
      /\ Item.run = Bound.run /\ Item.kind = "input"
  BY StructureIs DEF SaysInterrupted, ReaderHolds
<1>2. reader'.at = reader.at + 1 /\ reader'.step = "next"
  BY ReadOnIs DEF SaysInterrupted
<1>3. UNCHANGED <<row, tries, tape>> /\ UNCHANGED replay
  BY DEF SaysInterrupted, Reading, source
<1> DEFINE s == [Bound EXCEPT !.latched = TRUE]
           t == [s EXCEPT !.root = "interrupted"]
<1>4. SameSession(s) /\ s.run = Bound.run
  BY <1>1, BoundSame
<1>5. Told(t)
  <2>1. Says(s, "interrupted") /\ "interrupted" \in Statuses
    BY DEF SaysInterrupted, Statuses
  <2> HIDE DEF s
  <2> QED
    BY <1>3, <1>4, <2>1, SaysTells
<1>6. t.root = "interrupted" /\ t.run = Bound.run
  <2>1. s \in Session
    BY <1>4 DEF SameSession
  <2> HIDE DEF s
  <2> QED
    BY <1>4, <2>1 DEF Session
<1> HIDE DEF s, t
<1>7. Bound'.root = "interrupted" /\ Bound'.run = Bound.run
  BY <1>5, <1>6 DEF Told
<1>8. ~Seen(Bound.run, "done")
  BY <1>1, NotSeen
<1>9. \A r : r = Bound.run =>
        /\ ~Seen(r, "done")'
        /\ ~(EndedAtOnce(r)' /\ Seen(r, "error")')
  <2>1. \A r : r = Bound.run => ~Seen(r, "done")' /\ (Seen(r, "error")' => Seen(r, "error"))
    BY <1>1, <1>2, <1>3, <1>8, SeenOn
  <2>2. \A r : EndedAtOnce(r)' <=> EndedAtOnce(r)
    BY <1>3 DEF EndedAtOnce
  <2>3. ~(EndedAtOnce(Bound.run) /\ Seen(Bound.run, "error"))
    BY <1>1, ErrorSeen
  <2> QED
    BY <2>1, <2>2, <2>3
<1>10. ~Past' /\ ~(EndedAtOnce(Bound.run)' /\ ErrorBefore')
  BY <1>7, <1>9 DEF Past, ErrorBefore, EndedAtOnce, Seen
<1> QED
  BY <1>2, <1>7, <1>10 DEF EndTells, LatchTells, EndIsRead

\* At the marker the row is final, and an error it has left is before.
LEMMA AtMarker ==
  ASSUME Structure, TapeTells, reader.at < Len(tape), sessions # <<>>,
         Item.run = Bound.run, Item.kind = "done"
  PROVE  /\ Bound.run \in 1 .. Runs /\ row[Bound.run] \in Final
         /\ Out(Bound.run, "error") => ErrorBefore
         /\ EndedAtOnce(Bound.run) =>
              (Out(Bound.run, "error") <=> row[Bound.run] \in {"error", "interrupted", "gone"})
<1>1. /\ Item \in Entry /\ Item.run \in 1 .. Runs /\ reader.at \in Nat
      /\ reader.at + 1 \in DOMAIN tape /\ tape \in Seq(Entry)
  BY ItemIs DEF Structure, TypeOK
<1>2. row[Bound.run] \in Final /\ \A i \in DOMAIN tape : tape[i].run = Bound.run => i <= reader.at + 1
  BY <1>1 DEF TapeTells, LastOfRun, Item
<1>3. ASSUME NEW i \in DOMAIN tape, tape[i] = [run |-> Bound.run, kind |-> "error"]
      PROVE  i \in 1 .. reader.at
  <2>1. i <= reader.at + 1
    BY <1>2, <1>3
  <2>2. i # reader.at + 1
    BY <1>3 DEF Item
  <2> QED
    BY <1>1, <2>1, <2>2
<1>4. Out(Bound.run, "error") => ErrorBefore
  BY <1>3 DEF Out, ErrorBefore, Seen
<1> QED
  BY <1>1, <1>2, <1>4 DEF TapeTells

LEMMA StartsTells ==
  ASSUME Structure, TapeTells, LatchTells, StartsTerminal
  PROVE  EndTells' /\ LatchTells' /\ EndIsRead'
<1>1. /\ reader.step = "next" /\ reader.at < Len(tape) /\ sessions # <<>>
      /\ Item.run = Bound.run /\ Item.kind = "done" /\ ~Past
  BY IngestingIs DEF StartsTerminal
<1>2. UNCHANGED <<row, tries, tape>> /\ UNCHANGED replay
  BY DEF StartsTerminal, Reading, source
<1>3. Told(Bound)
  BY <1>1, <1>2, BoundSame, QuietTells DEF StartsTerminal
<1>4. CASE Bound.latched /\ ReadOn
  <2>1. reader'.at = reader.at + 1 /\ reader'.step = "next"
    BY <1>4, ReadOnIs
  <2>2. /\ Bound.root = "interrupted" \/ (Bound.root = "failed" /\ Out(Bound.run, "error"))
        /\ EndedAtOnce(Bound.run) /\ ErrorBefore => Bound.root = "failed"
    BY <1>1, <1>4 DEF LatchTells
  <2>3. tries[Bound.run] = 1 => Fits(row[Bound.run], Bound.root)
    <3>1. SUFFICES ASSUME tries[Bound.run] = 1 PROVE Fits(row[Bound.run], Bound.root)
      OBVIOUS
    <3>2. EndedAtOnce(Bound.run)
      BY <1>1, <3>1, AtMarker DEF EndedAtOnce
    <3>3. /\ Out(Bound.run, "error") => Bound.root = "failed"
          /\ Out(Bound.run, "error") <=> row[Bound.run] \in {"error", "interrupted", "gone"}
      BY <1>1, <2>2, <3>2, AtMarker
    <3> QED
      BY <2>2, <3>3 DEF Fits
  <2>4. \A r : r = Bound.run => Seen(r, "done")'
    BY <1>1, <1>2, <2>1, SeenOn
  <2>5. Past'
    BY <1>3, <2>4 DEF Past, Seen, Told
  <2> QED
    BY <1>2, <1>3, <2>1, <2>3, <2>5 DEF EndTells, LatchTells, EndIsRead, Told
<1>5. CASE Then("row")
  <2>1. reader'.step = "row"
    BY <1>5, ThenIs
  <2> QED
    BY <2>1 DEF EndTells, LatchTells, EndIsRead
<1> QED
  BY <1>4, <1>5 DEF StartsTerminal

\* The reader goes on past the marker of the run.
LEMMA PassesMarker ==
  ASSUME Structure, UNCHANGED source, reader.at < Len(tape), sessions # <<>>,
         Item.run = Bound.run, Item.kind = "done", ReadOn,
         NEW s, SameSession(s), Told(s),
         s.lost \/ Fits(row[Bound.run], s.root)
  PROVE  EndTells' /\ LatchTells' /\ EndIsRead'
<1>1. reader'.at = reader.at + 1 /\ reader'.step = "next"
  BY ReadOnIs
<1>2. UNCHANGED <<row, tries, tape>>
  BY DEF source
<1>3. \A r : r = Bound.run => Seen(r, "done")'
  BY <1>1, <1>2, SeenOn
<1>4. Bound'.run = Bound.run
  BY DEF SameSession, Told
<1>5. Past'
  BY <1>3, <1>4 DEF Past, Seen
<1>6. s.lost \/ Fits(row'[Bound'.run], s.root)
  BY <1>2, <1>4
<1> QED
  BY <1>1, <1>5, <1>6 DEF EndTells, LatchTells, EndIsRead, Told

LEMMA RowTold ==
  ASSUME Structure, TapeTells, ReadsRow
  PROVE  EndTells' /\ LatchTells' /\ EndIsRead'
<1>1. /\ reader.at < Len(tape) /\ sessions # <<>> /\ reader.step = "row"
      /\ Item.run = Bound.run /\ Item.kind = "done"
  BY StructureIs DEF ReadsRow, ReaderHolds
<1>2. UNCHANGED source /\ UNCHANGED <<row, tries, tape>> /\ UNCHANGED replay
  BY DEF ReadsRow, Reading, source
<1>3. SameSession(Bound) /\ Bound \in Session
  BY <1>1, BoundSame DEF SameSession
<1> DEFINE status == row[Bound.run]
           told == ToLifecycle(status)
<1>4. /\ told = "completed" => status = "success"
      /\ told = "failed" => status = "error"
      /\ told = "interrupted" => status = "interrupted"
      /\ told = "running" => status \notin {"success", "error", "interrupted"}
  BY DEF ToLifecycle
<1>5. CASE told = "completed" /\ Then("state") /\ Quietly(Bound)
  <2>1. reader'.step = "state"
    BY <1>5, ThenIs
  <2>2. Bound'.run = Bound.run
    BY <1>2, <1>3, <1>5, QuietTells DEF Told
  <2> QED
    BY <1>2, <1>4, <1>5, <2>1, <2>2 DEF EndTells, LatchTells, EndIsRead
<1>6. CASE told \in {"failed", "interrupted"} /\ Tells(told)
  <2>1. reader'.step = "flush" /\ reader'.told = told
        /\ Quietly([Bound EXCEPT !.latched = TRUE])
    BY <1>6, TellsIs
  <2>2. Bound'.run = Bound.run
    BY <1>1, <1>2, <2>1, BoundSame, QuietTells DEF Told
  <2>3. Fits(status, told)
    BY <1>4, <1>6 DEF Fits
  <2> HIDE DEF told
  <2> QED
    BY <1>2, <2>1, <2>2, <2>3 DEF EndTells, LatchTells, EndIsRead
<1>7. CASE told = "running" /\ status # "gone" /\ ReadOn /\ Quietly(Bound)
  <2>1. Told(Bound)
    BY <1>2, <1>3, <1>7, QuietTells
  <2>2. Fits(row[Bound.run], Bound.root)
    BY <1>4, <1>7 DEF Fits
  <2> QED
    BY <1>1, <1>2, <1>3, <1>7, <2>1, <2>2, PassesMarker
<1>8. CASE ReadOn /\ Quietly([Bound EXCEPT !.latched = TRUE, !.lost = TRUE])
  <2> DEFINE s == [Bound EXCEPT !.latched = TRUE, !.lost = TRUE]
  <2>1. SameSession(s) /\ s.lost
    BY <1>1, <1>3 DEF SameSession, Session
  <2>2. Quietly(s)
    BY <1>8
  <2> HIDE DEF s
  <2>3. Told(s)
    BY <1>2, <2>1, <2>2, QuietTells
  <2> QED
    BY <1>1, <1>2, <1>8, <2>1, <2>3, PassesMarker
<1> QED
  BY <1>5, <1>6, <1>7, <1>8 DEF ReadsRow

LEMMA StateTold ==
  ASSUME Structure, EndIsRead, ReadsState
  PROVE  EndTells' /\ LatchTells' /\ EndIsRead'
<1>1. sessions # <<>> /\ reader.step = "state" /\ row[Bound.run] = "success"
  BY StructureIs DEF ReadsState, EndIsRead
<1>2. UNCHANGED <<row, tries, tape>> /\ UNCHANGED replay
  BY DEF ReadsState, Reading, source
<1>3. PICK told \in {"interrupted", "completed"} : Tells(told)
  BY DEF ReadsState
<1>4. reader'.step = "flush" /\ reader'.told = told
      /\ Quietly([Bound EXCEPT !.latched = TRUE])
  BY <1>3, TellsIs
<1>5. Bound'.run = Bound.run
  BY <1>1, <1>2, <1>4, BoundSame, QuietTells DEF Told
<1>6. Fits(row[Bound.run], told)
  BY <1>1, <1>3 DEF Fits
<1> QED
  BY <1>2, <1>4, <1>5, <1>6 DEF EndTells, LatchTells, EndIsRead

LEMMA FlushTold ==
  ASSUME Structure, TapeTells, EndTells, LatchTells, EndIsRead, Flushes
  PROVE  EndTells' /\ LatchTells' /\ EndIsRead'
<1>1. /\ reader.at < Len(tape) /\ sessions # <<>> /\ reader.step = "flush"
      /\ Item.run = Bound.run /\ Item.kind = "done" /\ Fits(row[Bound.run], reader.told)
      /\ reader \in ReaderTypes
  BY StructureIs DEF Flushes, ReaderHolds, EndIsRead
<1>2. UNCHANGED source /\ UNCHANGED replay /\ UNCHANGED tape
  BY DEF Flushes, Reading, source
<1>3. SameSession(Bound) /\ Bound \in Session /\ reader.told \in Statuses
  BY <1>1, BoundSame DEF SameSession, ReaderTypes
<1>4. CASE ChildCompleted(Bound) /\ UNCHANGED reader
  <2>1. Told(Bound)
    BY <1>3, <1>4, ChildTells
  <2>2. /\ Seen(Bound.run, "done")' <=> Seen(Bound.run, "done")
        /\ Seen(Bound.run, "error")' <=> Seen(Bound.run, "error")
    BY <1>2, <1>4, <2>1 DEF Seen, Told
  <2> QED
    BY <1>1, <1>2, <1>4, <2>1, <2>2, StillTells
<1>5. CASE Says(Bound, reader.told) /\ ReadOn
  <2> DEFINE s == [Bound EXCEPT !.root = reader.told]
  <2>1. Told(s)
    BY <1>2, <1>3, <1>5, SaysTells
  <2>2. SameSession(s) /\ s.root = reader.told
    BY <1>1, <1>3 DEF SameSession, Session
  <2> HIDE DEF s
  <2>3. Fits(row[Bound.run], s.root)
    BY <1>1, <2>2
  <2> QED
    BY <1>1, <1>2, <1>5, <2>1, <2>2, <2>3, PassesMarker
<1> QED
  BY <1>4, <1>5 DEF Flushes

LEMMA ReadsTell ==
  ASSUME Structure, TapeTells, EndTells, LatchTells, EndIsRead, Reads
  PROVE  EndTells' /\ LatchTells' /\ EndIsRead'
<1>1. CASE SkipsMissed \/ SkipsUnknown
  <2>1. /\ reader.step = "next" /\ reader.at < Len(tape) /\ ReadOn
        /\ UNCHANGED <<sessions, source>>
        /\ Item.kind = "chunk" \/ ~IsBound
    BY <1>1 DEF SkipsMissed, SkipsUnknown, More, Missed, Reading
  <2>2. CASE sessions = <<>>
    <3>1. reader'.step = "next" /\ sessions' = <<>>
      BY <2>1, <2>2, ReadOnIs
    <3> QED
      BY <3>1 DEF EndTells, LatchTells, EndIsRead
  <2>3. CASE sessions # <<>>
    <3>1. Item.run # Bound.run \/ Item.kind \notin {"done", "error"}
      BY <2>1, <2>3 DEF IsBound
    <3>2. Told(Bound)
      BY <2>1, <2>3 DEF Told, Bound, Now
    <3> QED
      BY <2>1, <2>3, <3>1, <3>2, PassesBy
  <2> QED
    BY <2>2, <2>3
<1>2. CASE Rebinds
  <2>1. /\ UNCHANGED reader /\ UNCHANGED tape /\ reader.step = "next" /\ reader.at < Len(tape)
    BY <1>2 DEF Rebinds, More, Reading, source
  <2>2. ~Bound'.latched /\ Bound'.run = Item.run
    BY <1>2, RebindsKeeps
  <2>3. ~Seen(Item.run, "done")
    BY <2>1, NotSeen
  <2>4. ~Past'
    BY <2>1, <2>2, <2>3 DEF Past, Seen
  <2> QED
    BY <2>1, <2>2, <2>4 DEF EndTells, LatchTells, EndIsRead
<1> QED
  BY <1>1, <1>2, ForwardsTells, FailsTells, AsksTells, InterruptedTells, StartsTells, RowTold,
     StateTold, FlushTold DEF Reads

\* A run ends at once only where no attempt has failed before.
LEMMA EndsOnce ==
  ASSUME SourceHolds, TapeTells, Works, NEW r \in 1 .. Runs, EndedAtOnce(r)'
  PROVE  EndedAtOnce(r) \/ ~Out(r, "error")
<1>1. CASE UNCHANGED <<row, tries>>
  BY <1>1 DEF EndedAtOnce
<1>2. ASSUME NEW q \in 1 .. Runs, NEW outcome \in Outcomes, Ends(q, outcome)
      PROVE  EndedAtOnce(r) \/ ~Out(r, "error")
  <2>1. /\ tries' = [tries EXCEPT ![q] = tries[q] + 1]
        /\ row' = [row EXCEPT ![q] = IF outcome = "retry" THEN "pending" ELSE outcome]
    BY <1>2 DEF Ends
  <2>2. CASE r = q
    <3>1. tries[r] \in Nat /\ tries'[r] = tries[r] + 1
      BY <2>1, <2>2, ConstantsAssumption DEF SourceHolds
    <3>2. tries[r] = 0
      BY <3>1 DEF EndedAtOnce
    <3> QED
      BY <3>2 DEF TapeTells
  <2>3. CASE r # q
    BY <2>1, <2>3 DEF EndedAtOnce, SourceHolds
  <2> QED
    BY <2>2, <2>3
<1> QED
  BY <1>1, <1>2 DEF Works, MarksDone, Publishes

LEMMA WorksTellOn ==
  ASSUME Structure, TapeTells, EndTells, LatchTells, EndIsRead, Works
  PROVE  EndTells' /\ LatchTells' /\ EndIsRead'
<1>1. SourceHolds /\ ReaderHolds /\ tape \in Seq(Entry) /\ reader \in ReaderTypes
  BY StructureIs DEF SourceHolds, ReaderHolds
<1>2. /\ UNCHANGED <<sessions, reader>> /\ Bound' = Bound
      /\ \A i \in 1 .. reader.at + 1 : i <= Len(tape) => i <= Len(tape') /\ tape'[i] = tape[i]
  BY WorksKeep DEF Connected, Bound, Now
<1>3. \A r \in 1 .. Runs : row[r] \in Final => row'[r] = row[r] /\ tries'[r] = tries[r]
  BY <1>1, WorksTells
<1>4. reader.at \in Nat /\ reader.at <= Len(tape) /\ Len(tape) \in Nat
  BY <1>1 DEF ReaderTypes
<1> SUFFICES ASSUME sessions # <<>> PROVE EndTells' /\ LatchTells' /\ EndIsRead'
  <2>1. reader.step = "next" \/ sessions # <<>>
    BY StructureIs
  <2> QED
    BY <1>2, <2>1 DEF EndTells, LatchTells, EndIsRead
<1>5. Bound.run \in 1 .. Runs
  BY BoundIs DEF Session
<1>6. \A r, kind : Seen(r, kind)' <=> Seen(r, kind)
  <2>1. \A i \in 1 .. reader.at : tape'[i] = tape[i]
    BY <1>2, <1>4
  <2>2. reader' = reader
    BY <1>2
  <2> QED
    BY <2>1, <2>2 DEF Seen
<1>7. (Past' <=> Past) /\ (ErrorBefore' <=> ErrorBefore)
  BY <1>2, <1>6 DEF Past, ErrorBefore, Seen
<1>8. Past => row[Bound.run] \in Final
  <2>1. ASSUME NEW i \in 1 .. reader.at, tape[i] = [run |-> Bound.run, kind |-> "done"]
        PROVE  row[Bound.run] \in Final
    BY <1>1, <1>4, <2>1 DEF TapeTells
  <2> QED
    BY <2>1 DEF Past, Seen
<1>9. EndTells'
  BY <1>2, <1>3, <1>5, <1>7, <1>8 DEF EndTells
<1>10. Out(Bound.run, "error") => \A r : r = Bound.run => Out(r, "error")'
  <2>1. ASSUME NEW i \in DOMAIN tape, tape[i] = [run |-> Bound.run, kind |-> "error"]
        PROVE  i \in DOMAIN tape' /\ tape'[i] = tape[i]
    BY <1>1, <2>1, WorksExtends, ItemStays DEF SourceHolds
  <2> QED
    BY <2>1 DEF Out
<1>11. ErrorBefore => Out(Bound.run, "error")
  BY <1>1, <1>4 DEF ErrorBefore, Seen, Out
<1>12. \A r : r = Bound.run /\ EndedAtOnce(r)' /\ ErrorBefore => EndedAtOnce(r)
  BY <1>1, <1>5, <1>11, EndsOnce
<1>13. LatchTells'
  <2>1. Out(Bound.run, "error") => Out(Bound.run, "error")'
    BY <1>2, <1>10 DEF Out
  <2>2. EndedAtOnce(Bound.run)' /\ ErrorBefore' => EndedAtOnce(Bound.run)
    BY <1>2, <1>7, <1>12 DEF EndedAtOnce
  <2> QED
    BY <1>2, <1>7, <2>1, <2>2 DEF LatchTells
<1>14. EndIsRead'
  <2>1. reader.step \in {"state", "flush"} => row[Bound.run] \in Final
    BY <1>1, AtMarker DEF ReaderHolds
  <2> QED
    BY <1>2, <1>3, <1>5, <2>1 DEF EndIsRead
<1> QED
  BY <1>9, <1>13, <1>14

LEMMA ClientsTellOn ==
  ASSUME Structure, EndTells, LatchTells, EndIsRead, ServesCommands \/ SendsReplayed \/ EndsDrain
  PROVE  EndTells' /\ LatchTells' /\ EndIsRead'
<1>1. UNCHANGED source /\ UNCHANGED <<reader, tape>>
  <2>1. CASE ServesCommands
    BY <2>1, ServesCommandsIs DEF Commands, source
  <2>2. CASE SendsReplayed \/ EndsDrain
    BY <2>2 DEF SendsReplayed, EndsDrain, Replaying, source
  <2> QED
    BY <2>1, <2>2
<1>2. ASSUME NEW k \in DOMAIN sessions, NEW x \in Subs, NEW sub \in Subscription,
             Resubscribed(k, x, sub)
      PROVE  Told(Bound) /\ sessions # <<>>
  <2>1. /\ Now' = Now /\ sessions' # <<>> /\ sessions # <<>>
        /\ \A j \in DOMAIN sessions :
              /\ sessions'[j].run = sessions[j].run /\ sessions'[j].root = sessions[j].root
              /\ sessions'[j].latched = sessions[j].latched
              /\ sessions'[j].lost = sessions[j].lost
    BY <1>2, StructureHolds, ResubscribedIs
  <2>2. Now \in DOMAIN sessions
    BY <2>1, BoundIs
  <2> QED
    BY <2>1, <2>2 DEF Told, Bound
<1>3. ASSUME UNCHANGED sessions, sessions # <<>>
      PROVE  Told(Bound)
  BY <1>3 DEF Told, Bound, Now
<1>4. UNCHANGED sessions \/ (sessions # <<>> /\ Told(Bound))
  <2>1. CASE ServesCommands
    <3>1. CommandStep
      BY <2>1, ServesCommandsIs
    <3>2. sessions # <<>> => Now \in DOMAIN sessions
      BY BoundIs
    <3>3. NoSub \in Subscription
      BY DEF NoSub, Subscription
    <3>4. ASSUME NEW x, NEW floor, NEW cursor, Installing(x, floor, cursor)
          PROVE  Told(Bound) /\ sessions # <<>>
      <4> DEFINE sub == [mode |-> IF Matching(Now, x, cursor) = {} THEN "active" ELSE "silent",
                         floor |-> floor, since |-> Len(wire)]
      <4>1. x \in Subs /\ floor \in Nat /\ sessions # <<>> /\ Resubscribed(Now, x, sub)
        BY <3>4 DEF Installing
      <4>2. sub \in Subscription
        BY <4>1, WireIs DEF Subscription
      <4> HIDE DEF sub
      <4> QED
        BY <1>2, <3>2, <4>1, <4>2
    <3> QED
      BY <1>2, <3>1, <3>2, <3>3, <3>4 DEF CommandStep
  <2>2. CASE SendsReplayed
    BY <2>2, SendsReplayedIs
  <2>3. CASE EndsDrain
    <3>1. Extended \/ (Drained /\ replay.on)
      BY <2>3, EndsDrainIs
    <3>2. CASE Drained /\ replay.on
      <4>1. replay.k \in DOMAIN sessions /\ replay.x \in Subs /\ DOMAIN sessions = 1 .. Now
        BY <3>2, StructureHolds, WireIs DEF SessionsHold, ReplayIsSilent
      <4>2. sessions[replay.k].subs[replay.x] \in Subscription
        BY <4>1, SinceIs
      <4> DEFINE sub == [sessions[replay.k].subs[replay.x] EXCEPT !.mode = "active"]
      <4>3. sub \in Subscription
        BY <4>2 DEF Subscription
      <4>4. Resubscribed(replay.k, replay.x, sub)
        BY <3>2 DEF Drained
      <4> HIDE DEF sub
      <4> QED
        BY <1>2, <4>1, <4>3, <4>4
    <3> QED
      BY <3>1, <3>2 DEF Extended
  <2> QED
    BY <2>1, <2>2, <2>3
<1>5. CASE sessions # <<>>
  <2>1. Told(Bound)
    BY <1>3, <1>4, <1>5
  <2>2. /\ Seen(Bound.run, "done")' <=> Seen(Bound.run, "done")
        /\ Seen(Bound.run, "error")' <=> Seen(Bound.run, "error")
    BY <1>1, <2>1 DEF Seen, Told
  <2> QED
    BY <1>1, <1>5, <2>1, <2>2, StillTells
<1>6. CASE sessions = <<>>
  <2>1. sessions' = <<>> /\ reader.step = "next"
    BY <1>4, <1>6, StructureIs
  <2> QED
    BY <1>1, <2>1 DEF EndTells, LatchTells, EndIsRead
<1> QED
  BY <1>5, <1>6

LEMMA TellsNext ==
  Structure /\ TapeTells /\ EndTells /\ LatchTells /\ EndIsRead /\ [Next]_vars
    => EndTells' /\ LatchTells' /\ EndIsRead'
<1> SUFFICES ASSUME Structure, TapeTells, EndTells, LatchTells, EndIsRead, [Next]_vars
             PROVE  EndTells' /\ LatchTells' /\ EndIsRead'
  OBVIOUS
<1>1. CASE UNCHANGED vars
  <2>1. UNCHANGED <<row, tries, tape, sessions, reader>>
    BY <1>1 DEF vars
  <2> QED
    BY <2>1 DEF EndTells, LatchTells, EndIsRead, Past, ErrorBefore, Seen, Bound, Now, EndedAtOnce,
       Out
<1>2. CASE Works
  BY <1>2, WorksTellOn
<1>3. CASE Reads
  BY <1>3, ReadsTell
<1>4. CASE ServesCommands \/ SendsReplayed \/ EndsDrain
  BY <1>4, ClientsTellOn
<1>5. CASE Reopens
  BY <1>5, ReopensKeeps DEF EndTells, LatchTells, EndIsRead
<1> QED
  BY <1>1, <1>2, <1>3, <1>4, <1>5 DEF Next

-----------------------------------------------------------------------------
(* The invariant, and what it is for *)

LEMMA IInvIs ==
  IInv <=> /\ Structure /\ TapeTells /\ InOrder /\ ReplayAscends /\ Covers
           /\ EndTells /\ LatchTells /\ EndIsRead
BY EndTellsIs DEF IInv, TellingEnd

LEMMA IInvInit == Init => IInv
<1> SUFFICES ASSUME Init PROVE IInv
  OBVIOUS
<1>1. Structure /\ TapeTells
  BY StructureInit
<1>2. sessions = <<>> /\ reader.step = "next" /\ ~replay.on
  BY IdleIs DEF Init
<1>3. InOrder /\ ReplayAscends /\ Covers /\ EndTells /\ LatchTells /\ EndIsRead
  BY <1>2 DEF InOrder, ReplayAscends, Covers, EndTells, LatchTells, EndIsRead
<1> QED
  BY <1>1, <1>3, IInvIs

LEMMA IInvNext == IInv /\ [Next]_vars => IInv'
<1> SUFFICES ASSUME IInv, [Next]_vars PROVE IInv'
  OBVIOUS
<1>1. /\ Structure /\ TapeTells /\ InOrder /\ ReplayAscends /\ Covers
      /\ EndTells /\ LatchTells /\ EndIsRead
  BY IInvIs
<1>2. Structure' /\ TapeTells'
  BY <1>1, StructureNext
<1>3. InOrder' /\ ReplayAscends'
  BY <1>1, OrderNext
<1>4. Covers'
  BY <1>1, CoversNext
<1>5. EndTells' /\ LatchTells' /\ EndIsRead'
  BY <1>1, TellsNext
<1>6. TerminalTold'
  <2>1. (TerminalTold <=> EndTells)'
    BY <1>2, EndTellsIs, PTL
  <2> QED
    BY <1>5, <2>1
<1> QED
  BY <1>2, <1>3, <1>4, <1>5, <1>6 DEF IInv, TellingEnd

\* Every reachable state is one of these: the sessions number what the reader reads
\* of the stream, a replay sends what it owes in order, and the end that a session
\* has told is the one its run's row came to.
THEOREM Invariance == Spec => []IInv
<1>1. Init => IInv
  BY IInvInit
<1>2. IInv /\ [Next]_vars => IInv'
  BY IInvNext
<1> QED
  BY <1>1, <1>2, PTL DEF Spec

\* ThreadRunManager and EventStreamingSession keep their types: a session's buffer
\* never holds more than MaxBuffer events, and every number sent was given.
THEOREM TypeCorrect == Spec => []TypeOK
<1>1. IInv => TypeOK
  BY DEF IInv, Structure
<1> QED
  BY <1>1, Invariance, PTL

\* install_subscription_with_replay, _push_event and the sessions that take a
\* subscription over lose nothing together: an active subscription has been sent every
\* event it matches since it was installed, but for what a full buffer pushed out while
\* its replay was being sent, or what that replay has yet to send.
THEOREM ActiveMissesNothing == Spec => []NothingMissed
<1>1. IInv => NothingMissed
  BY DEF IInv, Covers, Covered, NothingMissed
<1> QED
  BY <1>1, Invariance, PTL

\* What is sent for a subscription in a session ascends: _push_event never overtakes
\* the replay of a subscription that is being installed.
THEOREM SentInOrder == Spec => []InOrder
<1>1. IInv => InOrder
  BY DEF IInv
<1> QED
  BY <1>1, Invariance, PTL

\* _emit_terminal_lifecycle, or the error or the interrupt before it, has told the end
\* of the run as its row has it, once the reader is past the run's marker.
THEOREM EndIsTold == Spec => []TerminalTold
<1>1. IInv => TerminalTold
  BY DEF IInv, TellingEnd
<1> QED
  BY <1>1, Invariance, PTL
=============================================================================
