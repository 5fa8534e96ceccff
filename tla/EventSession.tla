---------------------------- MODULE EventSession ----------------------------
(***************************************************************************)
(* One connection to a thread's event stream in protocol v2.  A            *)
(* ThreadRunManager reads the thread's stream from its beginning and keeps *)
(* an EventStreamingSession for the run it reads of: the session numbers   *)
(* events, buffers the last of them, and sends each to the subscriptions   *)
(* it has.  The commands of a WebSocket are served beside that reader, and *)
(* either may run while the other sends or reads the database.             *)
(*                                                                         *)
(* The workers, the rows of the runs and the stream are external: one run  *)
(* of the thread at a time, whose row is written before its done marker is *)
(* published, so that the next run's events may come in between.           *)
(***************************************************************************)
EXTENDS Integers, Sequences, FiniteSets

CONSTANTS
  Runs,         \* runs of the thread, 1 .. Runs in the order they execute (bound)
  MaxEvents,    \* events of a run, its error and its done marker aside (bound)
  Kinds,        \* what they are
  Outcomes,     \* how an attempt may end
  MaxAttempts,  \* attempts at a run (bound)
  Subs,         \* subscriptions a client makes
  Filter,       \* the channels each one asks for
  SseSub,       \* the subscription an SSE request carries
  Transports,   \* "ws", "sse"
  MaxBuffer,    \* LSD_PROTOCOL_V2_BUFFER_SIZE
  MaxCommands,  \* subscription commands of a client (bound)
  MaxConnects,  \* connections of a client (bound)
  Faults        \* of a read of the run's row ("run") and of the thread's state ("state")

AllKinds == {"values", "chunk", "input", "opens", "works", "closes"}
Final == {"success", "error", "interrupted", "timeout", "gone"}
Channels == {"values", "messages", "input", "lifecycle"}

ASSUME ConstantsAssumption ==
  /\ {Runs, MaxEvents, MaxCommands} \subseteq Nat
  /\ {MaxAttempts, MaxConnects, MaxBuffer} \subseteq Nat \ {0}
  /\ Kinds \subseteq AllKinds /\ Outcomes \subseteq Final \cup {"retry"}
  /\ Filter \in [Subs -> SUBSET Channels] /\ SseSub \in Subs
  /\ Transports \subseteq {"ws", "sse"} /\ Faults \subseteq {"run", "state"}

VARIABLES
  row,       \* the runs' status in the database (running counts as pending)
  tries,     \* attempts made at each run
  waiting,   \* the thread's state has interrupts nobody has answered
  tape,      \* what the runs published, in the order of the stream
  conn,      \* the connection: transport, since, what of the tape is only on the log
  made,      \* the events of this connection, by seq
  sessions,  \* its sessions; the last one is the one bound
  parked,    \* _pending_subscriptions
  reader,    \* _consume_thread_stream
  replay,    \* install_subscription_with_replay, while it sends
  wire,      \* what was sent: the seq of the event, and for which subscriptions
  spilt      \* history: events evicted while a replay had yet to send them

source == <<row, tries, waiting, tape>>
vars == <<row, tries, waiting, tape, conn, made, sessions, parked, reader, replay,
          wire, spilt>>

Idle == [on |-> FALSE, x |-> SseSub, k |-> 0, todo |-> {}, upto |-> 0]

Entry == [run : 1 .. Runs, kind : AllKinds \cup {"error", "done"}]
Subscription == [mode : {"none", "silent", "active"}, floor : Nat, since : Nat]
Statuses == {"running", "completed", "failed", "interrupted"}
Session ==
  [run : 1 .. Runs, lo : Nat, hi : Nat, root : Statuses,
   child : {"none", "started", "completed"}, opened : BOOLEAN, asked : BOOLEAN,
   latched : BOOLEAN, lost : BOOLEAN, subs : [Subs -> Subscription]]
SessionEvent ==
  [run : 1 .. Runs, ch : Channels, ns : {"root", "child"},
   what : Statuses \cup AllKinds \cup {"started", "requested"}, src : Nat]

TypeOK ==
  /\ row \in [1 .. Runs -> Final \cup {"pending"}]
  /\ tries \in [1 .. Runs -> 0 .. MaxAttempts] /\ waiting \in BOOLEAN
  /\ tape \in Seq(Entry)
  /\ conn \in [via : Transports, since : Nat, logged : 0 .. Len(tape),
               opened : 1 .. MaxConnects, commands : 0 .. MaxCommands]
  /\ made \in Seq(SessionEvent)
  /\ sessions \in Seq(Session)
  /\ \A k \in DOMAIN sessions :
       /\ sessions[k].lo <= sessions[k].hi /\ sessions[k].hi <= Len(made)
       /\ sessions[k].hi - sessions[k].lo <= MaxBuffer
  /\ parked \subseteq Subs
  /\ reader \in [at : 0 .. Len(tape), step : {"next", "asked", "row", "state", "flush"},
                 told : Statuses]
  /\ replay \in [on : BOOLEAN, x : Subs, k : Nat, todo : SUBSET Nat, upto : Nat]
  /\ wire \in Seq([n : 1 .. Len(made), to : SUBSET Subs, k : Nat])
  /\ spilt \subseteq 1 .. Len(made)

\* A connection opens with no session; an SSE request brings its subscription.
Opened(via, since, number) ==
  /\ conn' = [via |-> via, since |-> since, logged |-> Len(tape), opened |-> number,
              commands |-> 0]
  /\ made' = <<>> /\ sessions' = <<>> /\ wire' = <<>> /\ spilt' = {}
  /\ parked' = IF via = "sse" THEN {SseSub} ELSE {}
  /\ reader' = [at |-> 0, step |-> "next", told |-> "running"]
  /\ replay' = Idle

Init ==
  /\ row = [r \in 1 .. Runs |-> "pending"]
  /\ tries = [r \in 1 .. Runs |-> 0]
  /\ waiting = FALSE
  /\ tape = <<>>
  /\ \E via \in Transports :
       /\ conn = [via |-> via, since |-> 0, logged |-> 0, opened |-> 1, commands |-> 0]
       /\ parked = IF via = "sse" THEN {SseSub} ELSE {}
  /\ made = <<>> /\ sessions = <<>> /\ wire = <<>> /\ spilt = {}
  /\ reader = [at |-> 0, step |-> "next", told |-> "running"]
  /\ replay = Idle

-----------------------------------------------------------------------------
(* The worker, external *)

Out(r, kind) == \E i \in DOMAIN tape : tape[i] = [run |-> r, kind |-> kind]
Published(r) == Cardinality({i \in DOMAIN tape : tape[i].run = r /\ tape[i].kind \in Kinds})

Connected ==
  UNCHANGED <<conn, made, sessions, parked, reader, replay, wire, spilt>>

\* A run executes once those before it on the thread have ended, and until its row
\* says it has.
Executes(r) == row[r] = "pending" /\ \A q \in 1 .. r - 1 : row[q] \in Final

\* A step of a run that goes on answers the interrupts before it.
Publishes(r, kind) ==
  /\ Executes(r) /\ Published(r) < MaxEvents
  /\ tape' = Append(tape, [run |-> r, kind |-> kind])
  /\ waiting' = FALSE
  /\ UNCHANGED <<row, tries>> /\ Connected

\* An exception that leaves the run's stream (its failure, one to retry, the
\* user's cancellation) is published as an error; a timeout cancels the stream and
\* publishes nothing.  A run that stopped at an interrupt ends with success.
Ends(r, outcome) ==
  /\ Executes(r)
  /\ outcome = "retry" => tries[r] + 1 < MaxAttempts
  /\ tries' = [tries EXCEPT ![r] = @ + 1]
  /\ row' = [row EXCEPT ![r] = IF outcome = "retry" THEN "pending" ELSE outcome]
  /\ tape' = IF outcome \in {"error", "retry", "interrupted", "gone"}
             THEN Append(tape, [run |-> r, kind |-> "error"]) ELSE tape
  /\ waiting' = (outcome = "success" /\ Out(r, "input"))
  /\ Connected

\* Runs.mark_done, on the way out of Runs.enter.
MarksDone(r) ==
  /\ row[r] \in Final /\ ~Out(r, "done")
  /\ tape' = Append(tape, [run |-> r, kind |-> "done"])
  /\ UNCHANGED <<row, tries, waiting>> /\ Connected

-----------------------------------------------------------------------------
(* Events of a session *)

Now == Len(sessions)
Bound == sessions[Now]

Event(run, ch, ns, what, src) ==
  [run |-> run, ch |-> ch, ns |-> ns, what |-> what, src |-> src]
RootEvent(s, what) == Event(s.run, "lifecycle", "root", what, 0)

\* Mutant of Held: nothing leaves the buffer.
HeldAll(lo, hi) == lo

\* The buffer keeps its last MaxBuffer events: those above the bound it returns.
Held(lo, hi) == IF hi - lo > MaxBuffer THEN hi - MaxBuffer ELSE lo

Wants(x, e) == e.ch \in Filter[x]

\* on_event of an SSE request: each event id once, and none up to since.
Accepts(e, n) ==
  conn.via = "sse" => n > conn.since /\ \A i \in DOMAIN wire : made[wire[i].n] # e

Sent(e, n, heard, k) ==
  IF heard # {} /\ Accepts(e, n) THEN Append(wire, [n |-> n, to |-> heard, k |-> k]) ELSE wire

\* The event gets the next seq, goes to the buffer of session k, then s, and once to
\* the client if any subscription hears it.
PushedTo(heard, k, s, e) ==
  LET n == s.hi + 1 lo == Held(s.lo, n) IN
  /\ made' = Append(made, e)
  /\ sessions' = SubSeq(sessions, 1, k - 1) \o <<[s EXCEPT !.hi = n, !.lo = lo]>>
  /\ wire' = Sent(e, n, heard, k)
  /\ spilt' = IF replay.on /\ replay.k = k
              THEN spilt \cup {m \in replay.upto + 1 .. lo : Wants(replay.x, made'[m])}
              ELSE spilt

Hearing(s, e, modes) == {x \in Subs : s.subs[x].mode \in modes /\ Wants(x, e)}

\* _create_event and _push_event: at most one send, if any active subscription
\* matches.
Pushed(k, s, e) == PushedTo(Hearing(s, e, {"active"}), k, s, e)

Emits(s, e) == Pushed(Now, s, e)
Quietly(s) ==
  /\ sessions' = [sessions EXCEPT ![Now] = s]
  /\ UNCHANGED <<made, wire, spilt>>

ReadOn == reader' = [reader EXCEPT !.at = @ + 1, !.step = "next"]
Then(step) == reader' = [reader EXCEPT !.step = step]
Reading == UNCHANGED source /\ UNCHANGED <<conn, replay>>

-----------------------------------------------------------------------------
(* ThreadRunManager: the reader *)

Item == tape[reader.at + 1]
More == reader.step = "next" /\ reader.at < Len(tape)
\* Chunks of messages are on the channel alone: a connection has those that were
\* published after it opened.
Missed == Item.kind = "chunk" /\ reader.at < conn.logged
IsBound == sessions # <<>> /\ Bound.run = Item.run

SkipsMissed ==
  /\ More /\ Missed
  /\ ReadOn /\ UNCHANGED <<made, sessions, parked, wire, spilt>> /\ Reading

\* An event of a run whose row is gone, or cannot be read, is skipped.
SkipsUnknown ==
  /\ More /\ ~Missed /\ ~IsBound
  /\ row[Item.run] = "gone" \/ "run" \in Faults
  /\ ReadOn /\ UNCHANGED <<made, sessions, parked, wire, spilt>> /\ Reading

NoSub == [mode |-> "none", floor |-> 0, since |-> 0]

Fresh(run, hi, subs) ==
  [run |-> run, lo |-> hi, hi |-> hi, root |-> "running", child |-> "none",
   opened |-> FALSE, asked |-> FALSE, latched |-> FALSE, lost |-> FALSE, subs |-> subs]

Installed(modes) == IF sessions = <<>> THEN {} ELSE {x \in Subs : Bound.subs[x].mode \in modes}
LastSeq == IF sessions = <<>> THEN 0 ELSE Bound.hi

\* The session for another run continues the numbers of the one before, and takes
\* over all its subscriptions, and those that wait for a session, as active, though
\* a replay may be under way for one of them.  What a subscription was promised stays.
NewSession(run) ==
  Fresh(run, LastSeq,
        [x \in Subs |->
           IF x \in Installed({"active", "silent"})
           THEN [mode |-> "active", floor |-> Bound.subs[x].floor, since |-> Len(wire)]
           ELSE IF x \in parked
           THEN [mode |-> "active", floor |-> LastSeq, since |-> Len(wire)]
           ELSE NoSub])

\* _ensure_run_session, and start: the first event says that the run is running,
\* whatever its row says.
Rebinds ==
  /\ More /\ ~Missed /\ ~IsBound
  /\ row[Item.run] # "gone"
  /\ LET s == NewSession(Item.run) IN Pushed(Now + 1, s, RootEvent(s, "running"))
  /\ parked' = {}
  /\ UNCHANGED reader /\ Reading

Ingesting(kind) == More /\ ~Missed /\ IsBound /\ Item.kind = kind

\* An event of the run itself, or of its child namespace, which it opens.
Forwards ==
  /\ \E kind \in {"values", "chunk", "works"} :
       /\ Ingesting(kind)
       /\ Emits([Bound EXCEPT !.child = IF kind = "works" THEN "started" ELSE @],
                Event(Bound.run, IF kind = "chunk" THEN "messages" ELSE "values",
                      IF kind = "works" THEN "child" ELSE "root", kind, reader.at + 1))
  /\ ReadOn /\ UNCHANGED parked /\ Reading

\* _emit_namespace_started: once for each namespace of a session.
OpensChild ==
  /\ Ingesting("opens")
  /\ IF Bound.opened THEN Quietly(Bound)
     ELSE Emits([Bound EXCEPT !.opened = TRUE, !.child = "started"],
                Event(Bound.run, "lifecycle", "child", "started", reader.at + 1))
  /\ ReadOn /\ UNCHANGED parked /\ Reading

ChildCompleted(s) ==
  Emits([s EXCEPT !.child = "completed"], Event(s.run, "lifecycle", "child", "completed", 0))

\* _emit_namespace_lifecycle, which says nothing twice.
ClosesChild ==
  /\ Ingesting("closes")
  /\ IF Bound.child = "completed" THEN Quietly(Bound) ELSE ChildCompleted(Bound)
  /\ ReadOn /\ UNCHANGED parked /\ Reading

\* Mutant of Fails: the failure is noted and not told.
FailsSilently ==
  /\ Ingesting("error")
  /\ Quietly([Bound EXCEPT !.latched = TRUE])
  /\ ReadOn /\ UNCHANGED parked /\ Reading

\* An error says at once that the run has failed.
Fails ==
  /\ Ingesting("error")
  /\ Emits([Bound EXCEPT !.latched = TRUE, !.root = "failed"], RootEvent(Bound, "failed"))
  /\ ReadOn /\ UNCHANGED parked /\ Reading

\* _emit_input_requested_events: the request, once, and then that the run is
\* interrupted.
AsksInput ==
  /\ Ingesting("input")
  /\ IF Bound.asked
     THEN Quietly(Bound) /\ ReadOn
     ELSE /\ Emits([Bound EXCEPT !.asked = TRUE],
                   Event(Bound.run, "input", "root", "requested", 0))
          /\ Then("asked")
  /\ UNCHANGED parked /\ Reading

Says(s, status) ==
  IF s.root = status THEN Quietly(s) ELSE Emits([s EXCEPT !.root = status], RootEvent(s, status))

SaysInterrupted ==
  /\ reader.step = "asked"
  /\ Says([Bound EXCEPT !.latched = TRUE], "interrupted")
  /\ ReadOn /\ UNCHANGED parked /\ Reading

\* _emit_terminal_lifecycle: the run's row is read, unless an interrupt or an error
\* has told the end.
StartsTerminal ==
  /\ Ingesting("done")
  /\ IF Bound.latched THEN ReadOn ELSE Then("row")
  /\ Quietly(Bound) /\ UNCHANGED parked /\ Reading

Tells(status) ==
  /\ reader' = [reader EXCEPT !.step = "flush", !.told = status]
  /\ Quietly([Bound EXCEPT !.latched = TRUE])

\* Mutant of ToLifecycle: an error counts as running.
ToLifecycleNoError(status) ==
  CASE status = "success" -> "completed"
    [] status = "interrupted" -> "interrupted"
    [] OTHER -> "running"

\* to_lifecycle_status
ToLifecycle(status) ==
  CASE status = "success" -> "completed"
    [] status = "error" -> "failed"
    [] status = "interrupted" -> "interrupted"
    [] OTHER -> "running"

\* A run whose status stands for no end gets none; neither does one whose row is
\* gone, or cannot be read.
ReadsRow ==
  /\ reader.step = "row"
  /\ LET status == row[Bound.run] told == ToLifecycle(status) IN
       \/ told = "completed" /\ Then("state") /\ Quietly(Bound)
       \/ told \in {"failed", "interrupted"} /\ Tells(told)
       \/ told = "running" /\ status # "gone" /\ ReadOn /\ Quietly(Bound)
       \/ /\ status = "gone" \/ "run" \in Faults
          /\ ReadOn /\ Quietly([Bound EXCEPT !.latched = TRUE, !.lost = TRUE])
  /\ UNCHANGED parked /\ Reading

\* _resolve_effective_status: success is an interrupt while the thread has some.
ReadsState ==
  /\ reader.step = "state"
  /\ \/ waiting /\ Tells("interrupted")
     \/ (~waiting \/ "state" \in Faults) /\ Tells("completed")
  /\ UNCHANGED parked /\ Reading

\* The open namespaces complete before the run does.
Flushes ==
  /\ reader.step = "flush"
  /\ IF Bound.child = "started"
     THEN ChildCompleted(Bound) /\ UNCHANGED reader
     ELSE Says(Bound, reader.told) /\ ReadOn
  /\ UNCHANGED parked /\ Reading

Reads ==
  \/ SkipsMissed \/ SkipsUnknown \/ Rebinds \/ Forwards \/ OpensChild \/ ClosesChild
  \/ Fails \/ AsksInput \/ SaysInterrupted \/ StartsTerminal \/ ReadsRow \/ ReadsState
  \/ Flushes

-----------------------------------------------------------------------------
(* The commands of a WebSocket, one at a time *)

Commands ==
  /\ conn.via = "ws" /\ ~replay.on /\ conn.commands < MaxCommands
  /\ conn' = [conn EXCEPT !.commands = @ + 1]
  /\ UNCHANGED source /\ UNCHANGED <<made, reader, wire, spilt>>

Modes(k, x, mode) == [sessions EXCEPT ![k].subs[x].mode = mode]

\* What session k holds for x after the event numbered n.
Matching(k, x, n) ==
  {i \in 1 .. sessions[k].hi : i > n /\ i > sessions[k].lo /\ Wants(x, made[i])}

\* Mutant of Installs: the subscription is active while its replay is sent.
InstallsActive(x, floor, cursor) ==
  /\ sessions' = [sessions EXCEPT ![Now].subs[x] =
                    [mode |-> "active", floor |-> floor, since |-> Len(wire)]]
  /\ replay' = IF Matching(Now, x, cursor) = {} THEN replay
               ELSE [on |-> TRUE, x |-> x, k |-> Now,
                     todo |-> Matching(Now, x, cursor), upto |-> Bound.hi]
  /\ UNCHANGED parked

\* install_subscription_with_replay: what the buffer has after the cursor is sent
\* first, and the subscription is silent until then.
Installs(x, floor, cursor) ==
  LET todo == Matching(Now, x, cursor) IN
  /\ sessions' = [sessions EXCEPT ![Now].subs[x] =
                    [mode |-> IF todo = {} THEN "active" ELSE "silent",
                     floor |-> floor, since |-> Len(wire)]]
  /\ replay' = IF todo = {} THEN replay
               ELSE [on |-> TRUE, x |-> x, k |-> Now, todo |-> todo, upto |-> Bound.hi]
  /\ UNCHANGED parked

\* A new subscription is promised what the buffer has; before there is a session
\* it waits for one.
Subscribes(x) ==
  /\ x \notin parked \cup Installed({"active", "silent"})
  /\ Commands
  /\ IF sessions = <<>>
     THEN parked' = parked \cup {x} /\ UNCHANGED <<sessions, replay>>
     ELSE Installs(x, Bound.lo, 0)

\* The buffer no longer has the event after since.
HasGap(since) == since + 1 < Bound.lo + 1

\* subscription.reconnect: a client resumes under the id it had, or is told
\* resume_gap.
Reconnects(x, since) ==
  /\ sessions # <<>>
  /\ Commands
  /\ IF HasGap(since) THEN UNCHANGED <<sessions, replay, parked>>
     ELSE Installs(x, since, since)

Unsubscribes(x) ==
  /\ x \in parked \cup Installed({"active", "silent"})
  /\ Commands
  /\ IF sessions = <<>>
     THEN parked' = parked \ {x} /\ UNCHANGED sessions
     ELSE sessions' = [sessions EXCEPT ![Now].subs[x] = NoSub] /\ UNCHANGED parked
  /\ UNCHANGED replay

Replaying == UNCHANGED source /\ UNCHANGED <<conn, made, parked, reader, spilt>>

\* One after the other, in the order of their numbers.
SendsReplayed ==
  /\ replay.on
  /\ \E n \in replay.todo :
       /\ \A m \in replay.todo : n <= m
       /\ wire' = Append(wire, [n |-> n, to |-> {replay.x}, k |-> replay.k])
       /\ replay' = [replay EXCEPT !.todo = @ \ {n}]
  /\ UNCHANGED sessions /\ Replaying

\* Mutant of EndsDrain: what came during the replay is not looked for.
EndsDrainAtOnce ==
  /\ replay.on /\ replay.todo = {}
  /\ sessions' = Modes(replay.k, replay.x, "active")
  /\ replay' = Idle
  /\ UNCHANGED wire /\ Replaying

\* The horizon moves on to what came meanwhile; when there is nothing more the
\* subscription of that session is active.
EndsDrain ==
  /\ replay.on /\ replay.todo = {}
  /\ LET more == Matching(replay.k, replay.x, replay.upto) IN
       IF more = {}
       THEN sessions' = Modes(replay.k, replay.x, "active") /\ replay' = Idle
       ELSE /\ replay' = [replay EXCEPT !.todo = more, !.upto = sessions[replay.k].hi]
            /\ UNCHANGED sessions
  /\ UNCHANGED wire /\ Replaying

\* What a client may resume from: a seq it got, or nothing.
Cursors == {0} \cup {wire[i].n : i \in DOMAIN wire}

\* The client connects again, an SSE client with a seq it got.
Reopens ==
  /\ conn.opened < MaxConnects
  /\ \E since \in IF conn.via = "sse" THEN Cursors ELSE {0} :
       Opened(conn.via, since, conn.opened + 1)
  /\ UNCHANGED source

-----------------------------------------------------------------------------
Works ==
  \E r \in 1 .. Runs :
    \/ MarksDone(r)
    \/ \E kind \in Kinds : Publishes(r, kind)
    \/ \E outcome \in Outcomes : Ends(r, outcome)

ServesCommands ==
  \E x \in Subs :
    \/ Subscribes(x) \/ Unsubscribes(x)
    \/ \E since \in Cursors : Reconnects(x, since)

Next == Works \/ Reads \/ ServesCommands \/ SendsReplayed \/ EndsDrain \/ Reopens

Spec == Init /\ [][Next]_vars

\* The reader and a replay under way go on, whatever the worker does.
FairSpec == Spec /\ WF_vars(Reads) /\ WF_vars(SendsReplayed \/ EndsDrain)

-----------------------------------------------------------------------------
(* Properties *)

\* _push_event sends an event once though several subscriptions want it, so an
\* event counts as delivered whomever it was sent for.
Delivered(n) == n <= conn.since \/ \E i \in DOMAIN wire : made[wire[i].n] = made[n]

\* What a replay under way for x has yet to send.
Owed(x, n) ==
  /\ replay.on /\ replay.x = x
  /\ n \in replay.todo \cup Matching(replay.k, x, replay.upto)

\* A subscription that is active has every event since it subscribed (or resumed
\* from) that it matches, through all the sessions since then, replayed or live,
\* whatever was pushed while the replay was sent.  Missing is only what a full buffer
\* pushed out during that replay, and, once the next run's session has taken the
\* subscription over as active, what the replay still owes it.
NothingMissed ==
  sessions # <<>> =>
    \A x \in Subs : Bound.subs[x].mode = "active" =>
      \A n \in Bound.subs[x].floor + 1 .. Bound.hi :
        Wants(x, made[n]) => Delivered(n) \/ n \in spilt \/ Owed(x, n)

\* What was sent for a subscription in one session since it was installed is in the
\* order of its numbers: no live event gets ahead of the replay, and none is sent
\* for it twice.
InOrder ==
  \A k \in DOMAIN sessions : \A x \in Subs :
    LET mine == {i \in DOMAIN wire : wire[i].k = k /\ x \in wire[i].to
                                     /\ i > sessions[k].subs[x].since}
    IN sessions[k].subs[x].mode # "none"
       => \A i, j \in mine : i < j => wire[i].n < wire[j].n

\* Once the reader is past the done marker of a run whose session knew of its end,
\* the session has told that end, unless the run was tried again, its row could not
\* be read, or has a status that stands for no end.
TerminalTold ==
  \A k \in DOMAIN sessions :
    LET s == sessions[k] IN
    /\ \E i \in 1 .. reader.at : tape[i] = [run |-> s.run, kind |-> "done"]
    /\ reader.step = "next" /\ k = Now
    /\ ~s.lost /\ tries[s.run] = 1
    => CASE row[s.run] = "success" -> s.root \in {"completed", "interrupted"}
         [] row[s.run] = "error" -> s.root = "failed"
         [] row[s.run] = "interrupted" -> s.root \in {"interrupted", "failed"}
         [] OTHER -> TRUE

\* The event numbered n says that run r has ended.
EndOf(n, r) ==
  LET e == made[n] IN e.run = r /\ e.ch = "lifecycle" /\ e.ns = "root" /\ e.what # "running"

\* A run that ended and was marked done, for an SSE client that asked for lifecycle.
Ended(r) ==
  /\ row[r] \in {"success", "error", "interrupted"} /\ tries[r] = 1 /\ Out(r, "done")
  /\ conn.via = "sse" /\ "lifecycle" \in Filter[SseSub]

\* The end of a run that its worker has written and marked comes to the client of a
\* connection that stays, though runs follow each other's markers into the stream,
\* unless the number it has on this connection is one the client says it had.
EndTold ==
  \A r \in 1 .. Runs : Ended(r) ~> \E n \in DOMAIN made : EndOf(n, r) /\ Delivered(n)
=============================================================================
