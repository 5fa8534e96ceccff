---------------------------- MODULE ThreadEvents ----------------------------
(***************************************************************************)
(* The event stream of one thread: Runs.Publish and MarkDone fan each      *)
(* event of a run out to the thread's durable log and to its pub/sub       *)
(* channel.  Threads.Stream serves a client from both, first the log       *)
(* (replay), then the channel (live); Runs.Stream, of protocol v1, serves  *)
(* a follower of one run from the channel alone, until the run is done.    *)
(* Structural events are logged, and their copy on the channel carries the *)
(* id of the log entry; chunks of messages go to the channel alone.  An    *)
(* event is <<publisher, n>>, the n-th of its run, the last one the done   *)
(* marker; runs of one thread publish side by side.                        *)
(***************************************************************************)
EXTENDS Integers, Sequences

CONSTANTS
  Publishers,   \* runs that publish into the thread
  Length,       \* events each run publishes, the done marker included (bound)
  Chunks,       \* the events that are chunks of messages
  Clients,      \* callers of Threads.Stream
  Starts,       \* how they connect: "all" ("-"), "last" (an entry id), "live"
  Followers,    \* callers of Runs.Stream
  RunOf,        \* the run each of them follows
  MaxStreams,   \* streams opened by all of them together (bound)
  Faults,       \* of XADD ("log"), of EXPIRE, of PUBLISH, of the reply to Publish;
                \* "trim"; the worker is gone ("crash")
  MaxFaults     \* how many of them in all (bound)

Events == Publishers \X (1 .. Length)

ASSUME ConstantsAssumption ==
  /\ Length \in Nat /\ MaxStreams \in Nat /\ MaxFaults \in Nat
  /\ Chunks \subseteq Events
  /\ Starts \subseteq {"all", "last", "live"}
  /\ RunOf \in [Followers -> Publishers]
  /\ Faults \subseteq {"log", "expire", "publish", "reply", "trim", "crash"}

VARIABLES
  log,      \* every entry ever added; the id of an entry is its place
  trimmed,  \* entries up to this one are gone
  pub,      \* per run, the event it publishes and what the log said of it
  sub,      \* per client, its stream
  mem,      \* per client, what it keeps across connections; history: where it resumed
  follow,   \* per follower, its stream
  unsent,   \* history: the events whose PUBLISH failed
  faults,   \* how many faults there were
  streams   \* how many streams were opened

vars == <<log, trimmed, pub, sub, mem, follow, unsent, faults, streams>>

\* A message on the channel, and what a client receives: an event, and the id of
\* its entry or 0.
Messages == [ev : Events, id : Nat]

Done(ev) == ev[2] = Length

Idle == [step |-> "off", since |-> 0, buf |-> <<>>, got |-> <<>>]

NoStream == [mode |-> "off", from |-> 0, cursor |-> 0, upto |-> 0, buf |-> <<>>,
             got |-> <<>>]

TypeOK ==
  /\ log \in Seq(Events)
  /\ trimmed \in 0 .. Len(log)
  /\ \A p \in Publishers :
       /\ pub[p].n \in 1 .. Length + 1
       /\ pub[p].step \in {"ready", "logged", "gone"} /\ pub[p].id \in 0 .. Len(log)
       /\ pub[p].final \in BOOLEAN
  /\ \A c \in Clients :
       /\ sub[c].mode \in {"off", "replay", "live"}
       /\ sub[c].from \in -1 .. Len(log)
       /\ sub[c].cursor \in -1 .. Len(log) /\ sub[c].upto \in 0 .. Len(log)
       /\ sub[c].buf \in Seq(Messages) /\ sub[c].got \in Seq(Messages)
       /\ mem[c].last \in 0 .. Len(log) /\ mem[c].seen \subseteq Events
       /\ mem[c].resumed \subseteq 1 .. Len(log)
  /\ \A f \in Followers :
       /\ follow[f].step \in {"off", "reading", "asking", "ended", "quit"}
       /\ follow[f].buf \in Seq(Events) /\ follow[f].got \in Seq(Events)
  /\ unsent \subseteq Events /\ faults \in 0 .. MaxFaults /\ streams \in 0 .. MaxStreams

Init ==
  /\ log = <<>>
  /\ trimmed = 0
  /\ pub = [p \in Publishers |->
              [n |-> 1, step |-> "ready", id |-> 0, final |-> FALSE]]
  /\ sub = [c \in Clients |-> NoStream]
  /\ mem = [c \in Clients |-> [last |-> 0, seen |-> {}, resumed |-> {}]]
  /\ follow = [f \in Followers |-> Idle]
  /\ unsent = {} /\ faults = 0 /\ streams = 0

\* A step goes well, or the fault of that name happens.
GoesWell == UNCHANGED faults
Fails(fault) == fault \in Faults /\ faults < MaxFaults /\ faults' = faults + 1

\* Another stream is opened.
Opens == streams < MaxStreams /\ streams' = streams + 1

-----------------------------------------------------------------------------
(* The worker: the run's row, and its events one after the other *)

Event(p) == <<p, pub[p].n>>

\* The next event is the worker's to publish; MarkDone comes after the row is final.
MayPublish(p) ==
  /\ pub[p].n <= Length /\ pub[p].step = "ready"
  /\ Done(Event(p)) => pub[p].final

\* Mutant of Settles: what is still queued is dropped.
SettlesUndrained(p) ==
  /\ ~pub[p].final /\ pub[p].step = "ready"
  /\ pub' = [pub EXCEPT ![p].final = TRUE, ![p].n = Length]
  /\ UNCHANGED <<log, trimmed, sub, mem, follow, unsent, faults, streams>>

\* The outcome is committed when the graph's events have all been published, inline
\* or by the task behind the publish queue, which the sentinel ends.
Settles(p) ==
  /\ ~pub[p].final /\ pub[p].step = "ready" /\ pub[p].n = Length
  /\ pub' = [pub EXCEPT ![p].final = TRUE]
  /\ UNCHANGED <<log, trimmed, sub, mem, follow, unsent, faults, streams>>

\* A cancellation ends a run that no worker has taken: no done marker comes.
CancelsPending(p) ==
  /\ pub[p].n = 1 /\ pub[p].step = "ready" /\ ~pub[p].final
  /\ pub' = [pub EXCEPT ![p].final = TRUE, ![p].step = "gone"]
  /\ UNCHANGED <<log, trimmed, sub, mem, follow, unsent, faults, streams>>

Dies(p) ==
  /\ Fails("crash")
  /\ pub[p].n <= Length /\ pub[p].step # "gone"
  /\ pub' = [pub EXCEPT ![p].step = "gone"]
  /\ UNCHANGED <<log, trimmed, sub, mem, follow, unsent, streams>>

-----------------------------------------------------------------------------
(* Runs._fanout_event *)

\* XADD, and the id it returned, which is lost when the EXPIRE after it fails.
AppendsToLog(p) ==
  /\ MayPublish(p) /\ Event(p) \notin Chunks
  /\ log' = Append(log, Event(p))
  /\ \E id \in {0, Len(log) + 1} :
       /\ IF id = 0 THEN Fails("expire") ELSE GoesWell
       /\ pub' = [pub EXCEPT ![p].step = "logged", ![p].id = id]
  /\ UNCHANGED <<trimmed, sub, mem, follow, unsent, streams>>

\* A chunk, or an event whose XADD failed, has no id.
SkipsLog(p) ==
  /\ MayPublish(p)
  /\ IF Event(p) \in Chunks THEN GoesWell ELSE Fails("log")
  /\ pub' = [pub EXCEPT ![p].step = "logged", ![p].id = 0]
  /\ UNCHANGED <<log, trimmed, sub, mem, follow, unsent, streams>>

Hears(c) == sub[c].mode # "off"
Follows(f, p) == RunOf[f] = p /\ follow[f].step \in {"reading", "asking"}

\* What PUBLISH gives to the streams that are subscribed.
Sent(p) ==
  /\ sub' = [c \in Clients |->
       IF Hears(c)
       THEN [sub[c] EXCEPT !.buf = Append(@, [ev |-> Event(p), id |-> pub[p].id])]
       ELSE sub[c]]
  /\ follow' = [f \in Followers |->
       IF Follows(f, p) THEN [follow[f] EXCEPT !.buf = Append(@, Event(p))] ELSE follow[f]]

Goes(p, n) == pub' = [pub EXCEPT ![p].n = n, ![p].step = "ready", ![p].id = 0]

\* PUBLISH, whose failure is swallowed; the worker goes on to the next event.
Publishes(p) ==
  /\ pub[p].step = "logged"
  /\ \/ GoesWell /\ Sent(p) /\ UNCHANGED unsent
     \/ Fails("publish") /\ unsent' = unsent \cup {Event(p)} /\ UNCHANGED <<sub, follow>>
  /\ Goes(p, pub[p].n + 1)
  /\ UNCHANGED <<log, trimmed, mem, streams>>

\* The reply is lost, before or after the PUBLISH, and Runs.Stream.publish calls again,
\* which MarkDone does not: the event gets a second entry and a second copy.
Retries(p) ==
  /\ Fails("reply")
  /\ pub[p].step = "logged" /\ ~Done(Event(p))
  /\ Sent(p) \/ UNCHANGED <<sub, follow>>
  /\ Goes(p, pub[p].n)
  /\ UNCHANGED <<log, trimmed, mem, unsent, streams>>

\* Mutant of Trims: it may go one entry past the end.
TrimsPastEnd ==
  /\ Fails("trim")
  /\ \E k \in trimmed + 1 .. Len(log) + 1 : trimmed' = k
  /\ UNCHANGED <<log, pub, sub, mem, follow, unsent, streams>>

\* The log is capped, and expires.
Trims ==
  /\ Fails("trim")
  /\ \E k \in trimmed + 1 .. Len(log) : trimmed' = k
  /\ UNCHANGED <<log, pub, sub, mem, follow, unsent, streams>>

-----------------------------------------------------------------------------
(* Threads.Stream *)

\* psubscribe comes before the first XREAD.  Without a start id there is no replay.
Connects(c, start) ==
  /\ start \in Starts
  /\ sub[c].mode = "off" /\ Opens
  /\ start = "last" => mem[c].last > 0
  /\ LET from == CASE start = "all" -> 0 [] start = "last" -> mem[c].last
                   [] start = "live" -> -1
     IN sub' = [sub EXCEPT ![c] =
          [@ EXCEPT !.mode = IF from < 0 THEN "live" ELSE "replay",
                    !.from = from, !.cursor = from]]
  /\ mem' = [mem EXCEPT ![c].resumed =
       IF start = "last" THEN @ \cup {mem[c].last} ELSE @]
  /\ UNCHANGED <<log, trimmed, pub, follow, unsent, faults>>

\* The client of stream s gets a message, and remembers its id to resume from.
Receives(c, s, m) ==
  /\ sub' = [sub EXCEPT ![c] = [s EXCEPT !.got = Append(@, m)]]
  /\ mem' = [mem EXCEPT ![c].seen = @ \cup {m.ev},
                        ![c].last = IF m.id > 0 THEN m.id ELSE @]

\* The entry XREAD returns next: what the log still has after the cursor.
NextEntry(c) == (IF sub[c].cursor < trimmed THEN trimmed ELSE sub[c].cursor) + 1

Replays(c) ==
  /\ sub[c].mode = "replay"
  /\ NextEntry(c) <= Len(log)
  /\ LET k == NextEntry(c) IN
       Receives(c, [sub[c] EXCEPT !.cursor = k, !.upto = k], [ev |-> log[k], id |-> k])
  /\ UNCHANGED <<log, trimmed, pub, follow, unsent, faults, streams>>

EndsReplay(c) ==
  /\ sub[c].mode = "replay"
  /\ NextEntry(c) > Len(log)
  /\ sub' = [sub EXCEPT ![c].mode = "live"]
  /\ UNCHANGED <<log, trimmed, pub, mem, follow, unsent, faults, streams>>

\* Mutants of Newer: one too far, not strictly, or not at all.
NewerByTwo(id, upto) == id > upto + 1
NewerOrSame(id, upto) == id >= upto
NewerAlways(id, upto) == TRUE

\* _stream_id_after
Newer(id, upto) == id > upto

\* A structural event the replay has delivered is dropped.
Delivers(c) ==
  /\ sub[c].mode = "live" /\ sub[c].buf # <<>>
  /\ LET m == Head(sub[c].buf) s == [sub[c] EXCEPT !.buf = Tail(@)] IN
       \/ /\ m.id = 0 \/ Newer(m.id, s.upto)
          /\ Receives(c, s, m)
       \/ /\ m.id > 0 /\ ~Newer(m.id, s.upto)
          /\ sub' = [sub EXCEPT ![c] = s]
          /\ UNCHANGED mem
  /\ UNCHANGED <<log, trimmed, pub, follow, unsent, faults, streams>>

\* What is still buffered is lost with the connection.
Disconnects(c) ==
  /\ sub[c].mode # "off"
  /\ sub' = [sub EXCEPT ![c] = NoStream]
  /\ UNCHANGED <<log, trimmed, pub, mem, follow, unsent, faults, streams>>

-----------------------------------------------------------------------------
(* Runs.Stream: protocol v1 *)

\* The subscription is confirmed before the run is created, or made at any time after.
Joins(f) ==
  /\ follow[f].step = "off" /\ Opens
  /\ follow' = [follow EXCEPT ![f] =
       [@ EXCEPT !.step = "reading", !.since = pub[RunOf[f]].n]]
  /\ UNCHANGED <<log, trimmed, pub, sub, mem, unsent, faults>>

\* The done marker ends the stream, any other event is yielded.
Reads(f) ==
  /\ follow[f].step = "reading" /\ follow[f].buf # <<>>
  /\ LET s == follow[f] ev == Head(s.buf) IN
     follow' = [follow EXCEPT ![f] =
       IF Done(ev) THEN [s EXCEPT !.step = "ended", !.buf = <<>>]
       ELSE [s EXCEPT !.buf = Tail(@), !.got = Append(@, ev)]]
  /\ UNCHANGED <<log, trimmed, pub, sub, mem, unsent, faults, streams>>

\* After some seconds of silence it goes to look at the row ...
Tires(f) ==
  /\ follow[f].step = "reading" /\ follow[f].buf = <<>>
  /\ follow' = [follow EXCEPT ![f].step = "asking"]
  /\ UNCHANGED <<log, trimmed, pub, sub, mem, unsent, faults, streams>>

\* Mutant of Asks: it goes on reading.
AsksInVain(f) ==
  /\ follow[f].step = "asking"
  /\ follow' = [follow EXCEPT ![f].step = "reading"]
  /\ UNCHANGED <<log, trimmed, pub, sub, mem, unsent, faults, streams>>

\* ... and _run_finished ends the stream, whatever has come meanwhile.
Asks(f) ==
  /\ follow[f].step = "asking"
  /\ follow' = [follow EXCEPT ![f] =
       IF pub[RunOf[f]].final THEN [Idle EXCEPT !.step = "quit"]
       ELSE [@ EXCEPT !.step = "reading"]]
  /\ UNCHANGED <<log, trimmed, pub, sub, mem, unsent, faults, streams>>

-----------------------------------------------------------------------------
Next ==
  \/ \E p \in Publishers :
       \/ AppendsToLog(p) \/ SkipsLog(p) \/ Publishes(p) \/ Retries(p)
       \/ Settles(p) \/ CancelsPending(p) \/ Dies(p)
  \/ Trims
  \/ \E c \in Clients :
       \/ \E start \in Starts : Connects(c, start)
       \/ Replays(c) \/ EndsReplay(c) \/ Delivers(c) \/ Disconnects(c)
  \/ \E f \in Followers :
       \/ Joins(f) \/ Reads(f) \/ Tires(f) \/ Asks(f)

Spec == Init /\ [][Next]_vars

\* The loop of a follower goes on.
FairSpec == Spec /\ \A f \in Followers : WF_vars(Reads(f) \/ Tires(f) \/ Asks(f))

-----------------------------------------------------------------------------
(* Properties *)

Out(ev) == pub[ev[1]].n > ev[2]
Logged(ev) == \E k \in trimmed + 1 .. Len(log) : log[k] = ev
Got(c) == {sub[c].got[i].ev : i \in DOMAIN sub[c].got}
CaughtUp(c) == sub[c].mode = "live" /\ sub[c].buf = <<>>

\* A client that asked for everything and has caught up has every event that the
\* log still holds and that reached the channel: none falls between the replay
\* and the channel.  (What the log holds and a failed PUBLISH kept from the
\* channel waits for the next replay.)
CaughtUpHasAll ==
  \A c \in Clients :
    CaughtUp(c) /\ sub[c].from = 0
    => \A ev \in Events : Out(ev) /\ Logged(ev) /\ ev \notin unsent => ev \in Got(c)

\* A connection gets no entry twice, though the log and the channel both have it, and
\* trims, retries and failures get between, from wherever it began.  (An event whose
\* EXPIRE failed has a copy without an id, which cannot be told from a new one.)
OnceEach ==
  \A c \in Clients :
    \A i, j \in DOMAIN sub[c].got :
      sub[c].got[i].id > 0 /\ sub[c].got[i].id = sub[c].got[j].id => i = j

\* ... and the entries of one run in the order they were published.
InOrder ==
  \A c \in Clients : \A i, j \in DOMAIN sub[c].got :
    LET m == sub[c].got[i] l == sub[c].got[j] IN
    i < j /\ m.id > 0 /\ l.id > 0 /\ m.ev[1] = l.ev[1] => m.ev[2] <= l.ev[2]

\* A client that always came from the beginning or from the last event it got, and has
\* caught up, lacks an event the log still holds only where it once resumed past it from
\* an event of another run, which had overtaken it on the channel.
SkipsOvertaken ==
  \A c \in Clients :
    CaughtUp(c) /\ sub[c].from > 0
    => \A k \in trimmed + 1 .. Len(log) :
         Out(log[k]) /\ log[k] \notin unsent \cup mem[c].seen
         => \E from \in mem[c].resumed : k < from /\ log[from][1] # log[k][1]

\* A follower that the done marker ends has every event of its run that reached the
\* channel after it joined: nothing the graph emitted comes after the marker.
DoneComesLast ==
  \A f \in Followers :
    follow[f].step = "ended"
    => \A n \in follow[f].since .. Length - 1 :
         LET ev == <<RunOf[f], n>> IN
         ev \in unsent \/ \E i \in DOMAIN follow[f].got : follow[f].got[i] = ev

\* A follower is let go when its run is over, with or without a done marker: it was lost,
\* or sent before the follower joined, or the run was cancelled before a worker had it.
FollowerEnds ==
  \A f \in Followers :
    follow[f].step # "off" /\ pub[RunOf[f]].final ~> follow[f].step \in {"ended", "quit"}
=============================================================================
