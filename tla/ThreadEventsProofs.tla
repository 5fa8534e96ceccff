------------------------- MODULE ThreadEventsProofs -------------------------
(***************************************************************************)
(* What TLAPS proves of ThreadEvents, for every number of runs, clients,   *)
(* followers, events and faults.  None of the safety properties is         *)
(* inductive; the invariant Inv says in addition                           *)
(*   - of the log, that a run's events stand in it in their order, and     *)
(*     that the id a worker holds is of the last entry of its event;       *)
(*   - of every message with an id, wherever it is, that it is the copy of *)
(*     that entry (Stamps), and that a connection's messages of one run    *)
(*     come with rising ids, those still buffered or about to be published *)
(*     after those it got, unless the replay was ahead of them (Order);    *)
(*   - of what a connection does not have yet, that it is coming to it, or *)
(*     was kept from the channel, or is still the worker's (NoneMissed);   *)
(*   - of a follower, the same for its run's events, and for those before  *)
(*     each buffered one (Following).                                      *)
(* Where clients resume, Resumes adds what they had up to the event they   *)
(* resume from; it holds if none begins without a replay.                  *)
(***************************************************************************)
EXTENDS ThreadEvents, TLAPS

-----------------------------------------------------------------------------
(* Sequences *)

LEMMA AppendAt ==
  ASSUME NEW S, NEW s \in Seq(S), NEW m \in S
  PROVE  /\ Append(s, m) \in Seq(S)
         /\ Len(s) \in Nat /\ Len(Append(s, m)) = Len(s) + 1
         /\ DOMAIN s = 1 .. Len(s) /\ DOMAIN Append(s, m) = 1 .. Len(s) + 1
         /\ \A i \in 1 .. Len(s) : Append(s, m)[i] = s[i] /\ s[i] \in S
         /\ Append(s, m)[Len(s) + 1] = m
OBVIOUS

LEMMA TailAt ==
  ASSUME NEW S, NEW s \in Seq(S), s # <<>>
  PROVE  /\ Tail(s) \in Seq(S)
         /\ Len(s) \in Nat \ {0} /\ Len(Tail(s)) = Len(s) - 1
         /\ DOMAIN s = 1 .. Len(s) /\ DOMAIN Tail(s) = 1 .. Len(s) - 1
         /\ \A i \in 1 .. Len(s) - 1 : Tail(s)[i] = s[i + 1]
         /\ Head(s) = s[1] /\ Head(s) \in S
OBVIOUS

-----------------------------------------------------------------------------
(* Types *)

Marks == [n : 1 .. Length + 1, step : {"ready", "logged", "gone"}, id : Nat,
          final : BOOLEAN]

Streams == [mode : {"off", "replay", "live"}, from : Int, cursor : Int, upto : Nat,
            buf : Seq(Messages), got : Seq(Messages)]

Memories == [last : Nat, seen : SUBSET Events, resumed : SUBSET Nat]

Readers == [step : {"off", "reading", "asking", "ended", "quit"}, since : Nat,
            buf : Seq(Events), got : Seq(Events)]

Shape ==
  /\ log \in Seq(Events) /\ trimmed \in Nat
  /\ pub \in [Publishers -> Marks]
  /\ sub \in [Clients -> Streams]
  /\ mem \in [Clients -> Memories]
  /\ follow \in [Followers -> Readers]
  /\ unsent \subseteq Events /\ faults \in 0 .. MaxFaults /\ streams \in 0 .. MaxStreams

\* The message a run is about to publish.
Ready(p) == [ev |-> Event(p), id |-> pub[p].id]

LEMMA ReadyType ==
  ASSUME Shape, NEW p \in Publishers, pub[p].n <= Length
  PROVE  Event(p) \in Events /\ Ready(p) \in Messages
<1>1. pub[p] \in Marks
  BY DEF Shape
<1>2. Event(p) \in Events
  BY <1>1 DEF Event, Events, Marks
<1> QED
  BY <1>1, <1>2 DEF Ready, Messages, Marks

LEMMA InitShape == Init => Shape
<1> SUFFICES ASSUME Init PROVE Shape
  OBVIOUS
<1> USE ConstantsAssumption DEF Init
<1>1. pub \in [Publishers -> Marks]
  BY DEF Marks
<1>2. sub \in [Clients -> Streams]
  BY DEF NoStream, Streams
<1>3. mem \in [Clients -> Memories]
  BY DEF Memories
<1>4. follow \in [Followers -> Readers]
  BY DEF Idle, Readers
<1>5. log \in Seq(Events) /\ trimmed \in Nat
  OBVIOUS
<1> QED
  BY <1>1, <1>2, <1>3, <1>4, <1>5 DEF Shape

\* What a step of the worker that sends nothing does to its record and to the log.
LEMMA WorkerEffect ==
  ASSUME Shape, NEW p \in Publishers,
         AppendsToLog(p) \/ SkipsLog(p) \/ Settles(p) \/ CancelsPending(p) \/ Dies(p)
  PROVE  /\ UNCHANGED <<trimmed, sub, mem, follow, unsent, streams>>
         /\ pub' \in [Publishers -> Marks] /\ faults' \in 0 .. MaxFaults
         /\ pub'[p].n = pub[p].n /\ \A q \in Publishers \ {p} : pub'[q] = pub[q]
         /\ \/ /\ log' = log /\ pub'[p].id = pub[p].id /\ pub'[p].step # "logged"
               /\ pub'[p].step = "ready" => pub[p].step = "ready"
            \/ log' = log /\ pub'[p].id = 0 /\ pub[p].n <= Length
            \/ /\ log' = Append(log, Event(p)) /\ pub'[p].id \in {0, Len(log) + 1}
               /\ pub[p].n <= Length /\ pub'[p].step = "logged"
<1> USE ConstantsAssumption DEF GoesWell, Fails
<1>0. pub[p] \in Marks /\ pub \in [Publishers -> Marks] /\ Len(log) \in Nat
      /\ faults \in 0 .. MaxFaults
  BY DEF Shape
<1>1. CASE AppendsToLog(p)
  <2>1. PICK id \in {0, Len(log) + 1} :
          /\ pub' = [pub EXCEPT ![p].step = "logged", ![p].id = id]
          /\ IF id = 0 THEN Fails("expire") ELSE GoesWell
    BY <1>1 DEF AppendsToLog
  <2> id \in Nat
    BY <1>0
  <2>2. pub' \in [Publishers -> Marks] /\ pub'[p].id = id /\ pub'[p].step = "logged"
        /\ pub'[p].n = pub[p].n /\ \A q \in Publishers \ {p} : pub'[q] = pub[q]
    BY <1>0, <2>1 DEF Marks
  <2>3. log' = Append(log, Event(p)) /\ pub[p].n <= Length
        /\ UNCHANGED <<trimmed, sub, mem, follow, unsent, streams>>
    BY <1>1 DEF AppendsToLog, MayPublish
  <2>4. faults' \in 0 .. MaxFaults
    BY <1>0, <2>1
  <2> QED
    BY <2>2, <2>3, <2>4
<1>2. CASE SkipsLog(p)
  <2>1. pub' = [pub EXCEPT ![p].step = "logged", ![p].id = 0]
    BY <1>2 DEF SkipsLog
  <2>2. pub' \in [Publishers -> Marks] /\ pub'[p].id = 0
        /\ pub'[p].n = pub[p].n /\ \A q \in Publishers \ {p} : pub'[q] = pub[q]
    BY <1>0, <2>1 DEF Marks
  <2> QED
    BY <1>0, <1>2, <2>2 DEF SkipsLog, MayPublish
<1>3. CASE Settles(p)
  <2>1. pub' = [pub EXCEPT ![p].final = TRUE]
    BY <1>3 DEF Settles
  <2>2. pub' \in [Publishers -> Marks] /\ pub'[p].id = pub[p].id /\ pub'[p].step = pub[p].step
        /\ pub'[p].n = pub[p].n /\ \A q \in Publishers \ {p} : pub'[q] = pub[q]
    BY <1>0, <2>1 DEF Marks
  <2> QED
    BY <1>0, <1>3, <2>2 DEF Settles
<1>4. CASE CancelsPending(p)
  <2>1. pub' = [pub EXCEPT ![p].final = TRUE, ![p].step = "gone"]
    BY <1>4 DEF CancelsPending
  <2>2. pub' \in [Publishers -> Marks] /\ pub'[p].id = pub[p].id /\ pub'[p].step = "gone"
        /\ pub'[p].n = pub[p].n /\ \A q \in Publishers \ {p} : pub'[q] = pub[q]
    BY <1>0, <2>1 DEF Marks
  <2> QED
    BY <1>0, <1>4, <2>2 DEF CancelsPending
<1>5. CASE Dies(p)
  <2>1. pub' = [pub EXCEPT ![p].step = "gone"]
    BY <1>5 DEF Dies
  <2>2. pub' \in [Publishers -> Marks] /\ pub'[p].id = pub[p].id /\ pub'[p].step = "gone"
        /\ pub'[p].n = pub[p].n /\ \A q \in Publishers \ {p} : pub'[q] = pub[q]
    BY <1>0, <2>1 DEF Marks
  <2> QED
    BY <1>0, <1>5, <2>2 DEF Dies
<1> QED
  BY <1>1, <1>2, <1>3, <1>4, <1>5

\* What a PUBLISH does to a client's stream and to a follower's.
Copied(p, c) == IF Hears(c) THEN Append(sub[c].buf, Ready(p)) ELSE sub[c].buf

Heard(p, f) == IF Follows(f, p) THEN Append(follow[f].buf, Event(p)) ELSE follow[f].buf

LEMMA SentEffect ==
  ASSUME Shape, NEW p \in Publishers, pub[p].n <= Length, Sent(p)
  PROVE  /\ sub' \in [Clients -> Streams] /\ follow' \in [Followers -> Readers]
         /\ \A c \in Clients :
              /\ sub'[c].buf = Copied(p, c)
              /\ sub'[c].mode = sub[c].mode /\ sub'[c].from = sub[c].from
              /\ sub'[c].cursor = sub[c].cursor /\ sub'[c].upto = sub[c].upto
              /\ sub'[c].got = sub[c].got
              /\ ~Hears(c) => sub'[c] = sub[c]
         /\ \A f \in Followers :
              /\ follow'[f].buf = Heard(p, f)
              /\ follow'[f].step = follow[f].step /\ follow'[f].since = follow[f].since
              /\ follow'[f].got = follow[f].got
<1>1. Event(p) \in Events /\ Ready(p) \in Messages
  BY ReadyType
<1>2. ASSUME NEW c \in Clients
      PROVE  /\ sub'[c] \in Streams
             /\ sub'[c].buf = Copied(p, c)
             /\ sub'[c].mode = sub[c].mode /\ sub'[c].from = sub[c].from
             /\ sub'[c].cursor = sub[c].cursor /\ sub'[c].upto = sub[c].upto
             /\ sub'[c].got = sub[c].got
             /\ ~Hears(c) => sub'[c] = sub[c]
  <2>1. sub[c] \in Streams
    BY DEF Shape
  <2>2. Append(sub[c].buf, Ready(p)) \in Seq(Messages)
    BY <1>1, <2>1, AppendAt DEF Streams
  <2>3. CASE Hears(c)
    <3>1. sub'[c] = [sub[c] EXCEPT !.buf = Append(sub[c].buf, Ready(p))]
      BY <2>3 DEF Sent, Ready
    <3> QED
      BY <2>1, <2>2, <2>3, <3>1 DEF Streams, Copied
  <2>4. CASE ~Hears(c)
    <3>1. sub'[c] = sub[c]
      BY <2>4 DEF Sent
    <3> QED
      BY <2>1, <2>4, <3>1 DEF Copied
  <2> QED
    BY <2>3, <2>4
<1>3. ASSUME NEW f \in Followers
      PROVE  /\ follow'[f] \in Readers
             /\ follow'[f].buf = Heard(p, f)
             /\ follow'[f].step = follow[f].step /\ follow'[f].since = follow[f].since
             /\ follow'[f].got = follow[f].got
  <2>1. follow[f] \in Readers
    BY DEF Shape
  <2>2. Append(follow[f].buf, Event(p)) \in Seq(Events)
    BY <1>1, <2>1, AppendAt DEF Readers
  <2>3. CASE Follows(f, p)
    <3>1. follow'[f] = [follow[f] EXCEPT !.buf = Append(follow[f].buf, Event(p))]
      BY <2>3 DEF Sent
    <3> QED
      BY <2>1, <2>2, <2>3, <3>1 DEF Readers, Heard
  <2>4. CASE ~Follows(f, p)
    <3>1. follow'[f] = follow[f]
      BY <2>4 DEF Sent
    <3> QED
      BY <2>1, <2>4, <3>1 DEF Heard
  <2> QED
    BY <2>3, <2>4
<1>4. sub' = [c \in Clients |-> sub'[c]] /\ follow' = [f \in Followers |-> follow'[f]]
  BY DEF Sent
<1>5. sub' \in [Clients -> Streams] /\ follow' \in [Followers -> Readers]
  BY <1>2, <1>3, <1>4
<1> QED
  BY <1>2, <1>3, <1>5

\* The worker sends the event, or fails to, and goes on or calls again.
LEMMA SenderEffect ==
  ASSUME Shape, NEW p \in Publishers, Publishes(p) \/ Retries(p),
         pub[p].n <= Length
  PROVE  /\ UNCHANGED <<log, trimmed, mem, streams>>
         /\ pub' \in [Publishers -> Marks] /\ faults' \in 0 .. MaxFaults
         /\ pub[p].step = "logged"
         /\ pub'[p].id = 0 /\ pub'[p].step = "ready"
         /\ \A q \in Publishers \ {p} : pub'[q] = pub[q]
         /\ \/ pub'[p].n = pub[p].n + 1 /\ Sent(p) /\ unsent' = unsent
            \/ /\ pub'[p].n = pub[p].n + 1 /\ UNCHANGED <<sub, follow>>
               /\ unsent' = unsent \cup {Event(p)}
            \/ /\ pub'[p].n = pub[p].n /\ unsent' = unsent
               /\ Sent(p) \/ UNCHANGED <<sub, follow>>
<1> USE ConstantsAssumption DEF GoesWell, Fails
<1>0. pub[p] \in Marks /\ pub \in [Publishers -> Marks] /\ faults \in 0 .. MaxFaults
  BY DEF Shape
<1>1. ASSUME NEW n \in 1 .. Length + 1, Goes(p, n)
      PROVE  /\ pub' \in [Publishers -> Marks]
             /\ pub'[p].n = n /\ pub'[p].id = 0 /\ pub'[p].step = "ready"
             /\ \A q \in Publishers \ {p} : pub'[q] = pub[q]
  BY <1>0, <1>1 DEF Goes, Marks
<1>2. pub[p].n \in 1 .. Length + 1 /\ pub[p].n + 1 \in 1 .. Length + 1
  BY <1>0 DEF Marks
<1>3. CASE Publishes(p)
  BY <1>0, <1>1, <1>2, <1>3 DEF Publishes
<1>4. CASE Retries(p)
  BY <1>0, <1>1, <1>2, <1>4 DEF Retries
<1> QED
  BY <1>3, <1>4

-----------------------------------------------------------------------------
(* What the steps of a client do *)

LEMMA ReceivesEffect ==
  ASSUME Shape, NEW c \in Clients, NEW s \in Streams, NEW m \in Messages,
         Receives(c, s, m)
  PROVE  /\ sub' \in [Clients -> Streams] /\ mem' \in [Clients -> Memories]
         /\ \A d \in Clients \ {c} : sub'[d] = sub[d] /\ mem'[d] = mem[d]
         /\ sub'[c].mode = s.mode /\ sub'[c].from = s.from /\ sub'[c].cursor = s.cursor
         /\ sub'[c].upto = s.upto /\ sub'[c].buf = s.buf /\ sub'[c].got = Append(s.got, m)
         /\ mem'[c].seen = mem[c].seen \cup {m.ev} /\ mem'[c].resumed = mem[c].resumed
         /\ mem'[c].last = IF m.id > 0 THEN m.id ELSE mem[c].last
<1>1. sub \in [Clients -> Streams] /\ mem \in [Clients -> Memories] /\ mem[c] \in Memories
  BY DEF Shape
<1>2. Append(s.got, m) \in Seq(Messages)
  BY AppendAt DEF Streams
<1>3. sub' = [sub EXCEPT ![c] = [s EXCEPT !.got = Append(s.got, m)]]
  BY DEF Receives
<1>4. [s EXCEPT !.got = Append(s.got, m)] \in Streams
  BY <1>2 DEF Streams
<1>5. /\ sub' \in [Clients -> Streams]
      /\ sub'[c] = [s EXCEPT !.got = Append(s.got, m)]
      /\ \A d \in Clients \ {c} : sub'[d] = sub[d]
  BY <1>1, <1>3, <1>4
<1>6. /\ sub'[c].mode = s.mode /\ sub'[c].from = s.from /\ sub'[c].cursor = s.cursor
      /\ sub'[c].upto = s.upto /\ sub'[c].buf = s.buf /\ sub'[c].got = Append(s.got, m)
  BY <1>5 DEF Streams
<1>7. m.ev \in Events /\ m.id \in Nat
  BY DEF Messages
<1>8. mem' = [mem EXCEPT ![c].seen = @ \cup {m.ev},
                         ![c].last = IF m.id > 0 THEN m.id ELSE @]
  BY DEF Receives
<1>9. /\ mem' \in [Clients -> Memories]
      /\ \A d \in Clients \ {c} : mem'[d] = mem[d]
      /\ mem'[c].seen = mem[c].seen \cup {m.ev} /\ mem'[c].resumed = mem[c].resumed
      /\ mem'[c].last = IF m.id > 0 THEN m.id ELSE mem[c].last
  BY <1>1, <1>7, <1>8 DEF Memories
<1> QED
  BY <1>5, <1>6, <1>9

LEMMA ConnectsEffect ==
  ASSUME Shape, NEW c \in Clients, NEW start \in Starts, Connects(c, start)
  PROVE  /\ UNCHANGED <<log, trimmed, pub, follow, unsent, faults>>
         /\ streams' \in 0 .. MaxStreams
         /\ sub' \in [Clients -> Streams] /\ mem' \in [Clients -> Memories]
         /\ \A d \in Clients \ {c} : sub'[d] = sub[d] /\ mem'[d] = mem[d]
         /\ sub[c].mode = "off"
         /\ sub'[c].upto = sub[c].upto /\ sub'[c].buf = sub[c].buf /\ sub'[c].got = sub[c].got
         /\ sub'[c].cursor = sub'[c].from
         /\ mem'[c].last = mem[c].last /\ mem'[c].seen = mem[c].seen
         /\ \/ /\ start = "all" /\ sub'[c].from = 0 /\ sub'[c].mode = "replay"
               /\ mem'[c].resumed = mem[c].resumed
            \/ /\ start = "last" /\ sub'[c].from = mem[c].last /\ mem[c].last > 0
               /\ sub'[c].mode = "replay"
               /\ mem'[c].resumed = mem[c].resumed \cup {mem[c].last}
            \/ /\ start = "live" /\ sub'[c].from = -1 /\ sub'[c].mode = "live"
               /\ mem'[c].resumed = mem[c].resumed
<1> DEFINE from == CASE start = "all" -> 0 [] start = "last" -> mem[c].last
                     [] start = "live" -> -1
<1>1. /\ sub \in [Clients -> Streams] /\ mem \in [Clients -> Memories]
      /\ sub[c] \in Streams /\ mem[c] \in Memories /\ streams \in 0 .. MaxStreams
  BY DEF Shape
<1>2. start \in {"all", "last", "live"}
  BY ConstantsAssumption
<1>3. sub' = [sub EXCEPT ![c] =
          [sub[c] EXCEPT !.mode = IF from < 0 THEN "live" ELSE "replay",
                         !.from = from, !.cursor = from]]
  BY DEF Connects
<1>4. /\ start = "all" => from = 0
      /\ start = "last" => from = mem[c].last /\ mem[c].last > 0
      /\ start = "live" => from = -1
  BY DEF Connects
<1>5. from \in Int
  BY <1>1, <1>2, <1>4 DEF Memories
<1> HIDE DEF from
<1>6. /\ sub' \in [Clients -> Streams]
      /\ \A d \in Clients \ {c} : sub'[d] = sub[d]
      /\ sub'[c].upto = sub[c].upto /\ sub'[c].buf = sub[c].buf /\ sub'[c].got = sub[c].got
      /\ sub'[c].from = from /\ sub'[c].cursor = from
      /\ sub'[c].mode = IF from < 0 THEN "live" ELSE "replay"
  BY <1>1, <1>3, <1>5 DEF Streams
<1>7. mem' = [mem EXCEPT ![c].resumed =
       IF start = "last" THEN mem[c].resumed \cup {mem[c].last} ELSE mem[c].resumed]
  BY <1>1 DEF Connects
<1>8. /\ mem' \in [Clients -> Memories]
      /\ \A d \in Clients \ {c} : mem'[d] = mem[d]
      /\ mem'[c].last = mem[c].last /\ mem'[c].seen = mem[c].seen
      /\ mem'[c].resumed =
           IF start = "last" THEN mem[c].resumed \cup {mem[c].last} ELSE mem[c].resumed
  BY <1>1, <1>7 DEF Memories
<1>9. /\ UNCHANGED <<log, trimmed, pub, follow, unsent, faults>>
      /\ streams' \in 0 .. MaxStreams /\ sub[c].mode = "off"
  BY <1>1, ConstantsAssumption DEF Connects, Opens
<1>10. CASE start = "all"
  BY <1>4, <1>6, <1>8, <1>9, <1>10
<1>11. CASE start = "last"
  BY <1>1, <1>4, <1>6, <1>8, <1>9, <1>11 DEF Memories
<1>12. CASE start = "live"
  BY <1>4, <1>6, <1>8, <1>9, <1>12
<1> QED
  BY <1>2, <1>10, <1>11, <1>12

LEMMA ReplaysEffect ==
  ASSUME Shape, NEW c \in Clients, Replays(c)
  PROVE  /\ UNCHANGED <<log, trimmed, pub, follow, unsent, faults, streams>>
         /\ sub' \in [Clients -> Streams] /\ mem' \in [Clients -> Memories]
         /\ \A d \in Clients \ {c} : sub'[d] = sub[d] /\ mem'[d] = mem[d]
         /\ sub[c].mode = "replay" /\ sub'[c].mode = "replay"
         /\ sub'[c].from = sub[c].from /\ sub'[c].buf = sub[c].buf
         /\ \E k \in 1 .. Len(log) :
              /\ k = (IF sub[c].cursor < trimmed THEN trimmed ELSE sub[c].cursor) + 1
              /\ sub'[c].cursor = k /\ sub'[c].upto = k
              /\ sub'[c].got = Append(sub[c].got, [ev |-> log[k], id |-> k])
              /\ [ev |-> log[k], id |-> k] \in Messages
              /\ mem'[c].seen = mem[c].seen \cup {log[k]} /\ mem'[c].last = k
              /\ mem'[c].resumed = mem[c].resumed
<1> DEFINE k == NextEntry(c)
           s == [sub[c] EXCEPT !.cursor = k, !.upto = k]
           m == [ev |-> log[k], id |-> k]
<1>1. sub[c] \in Streams /\ log \in Seq(Events) /\ trimmed \in Nat
  BY DEF Shape
<1>2. k \in 1 .. Len(log) /\ k = (IF sub[c].cursor < trimmed THEN trimmed ELSE sub[c].cursor) + 1
  BY <1>1 DEF Replays, NextEntry, Streams
<1>3. log[k] \in Events
  BY <1>1, <1>2
<1>4. m \in Messages
  BY <1>2, <1>3 DEF Messages
<1>5. Receives(c, s, m)
  BY DEF Replays
<1> HIDE DEF k
<1> k \in Nat /\ k \in Int
  BY <1>1, <1>2
<1>6. /\ s \in Streams /\ s.mode = sub[c].mode /\ s.from = sub[c].from
      /\ s.cursor = k /\ s.upto = k /\ s.buf = sub[c].buf /\ s.got = sub[c].got
  <2> DEFINE a == [sub[c] EXCEPT !.cursor = k]
  <2>1. /\ a \in Streams /\ a.mode = sub[c].mode /\ a.from = sub[c].from
        /\ a.cursor = k /\ a.buf = sub[c].buf /\ a.got = sub[c].got
    BY <1>1 DEF Streams
  <2>2. s = [a EXCEPT !.upto = k]
    OBVIOUS
  <2> HIDE DEF a, s
  <2> QED
    BY <2>1, <2>2 DEF Streams
<1>7. m.ev = log[k] /\ m.id = k /\ k > 0
  BY <1>2
<1> HIDE DEF s, m
<1>8. /\ UNCHANGED <<log, trimmed, pub, follow, unsent, faults, streams>>
      /\ sub[c].mode = "replay"
  BY DEF Replays
<1>9. /\ sub' \in [Clients -> Streams] /\ mem' \in [Clients -> Memories]
      /\ \A d \in Clients \ {c} : sub'[d] = sub[d] /\ mem'[d] = mem[d]
      /\ sub'[c].mode = s.mode /\ sub'[c].from = s.from /\ sub'[c].cursor = s.cursor
      /\ sub'[c].upto = s.upto /\ sub'[c].buf = s.buf /\ sub'[c].got = Append(s.got, m)
      /\ mem'[c].seen = mem[c].seen \cup {m.ev} /\ mem'[c].resumed = mem[c].resumed
      /\ mem'[c].last = IF m.id > 0 THEN m.id ELSE mem[c].last
  BY <1>4, <1>5, <1>6, ReceivesEffect
<1>10. /\ sub'[c].cursor = k /\ sub'[c].upto = k /\ sub'[c].got = Append(sub[c].got, m)
       /\ mem'[c].seen = mem[c].seen \cup {log[k]} /\ mem'[c].last = k
       /\ mem'[c].resumed = mem[c].resumed
       /\ sub'[c].mode = "replay" /\ sub'[c].from = sub[c].from /\ sub'[c].buf = sub[c].buf
  BY <1>6, <1>7, <1>8, <1>9
<1> QED
  BY <1>2, <1>4, <1>8, <1>9, <1>10 DEF m

LEMMA DeliversEffect ==
  ASSUME Shape, NEW c \in Clients, Delivers(c)
  PROVE  /\ UNCHANGED <<log, trimmed, pub, follow, unsent, faults, streams>>
         /\ sub' \in [Clients -> Streams] /\ mem' \in [Clients -> Memories]
         /\ \A d \in Clients \ {c} : sub'[d] = sub[d] /\ mem'[d] = mem[d]
         /\ sub[c].mode = "live" /\ sub'[c].mode = "live" /\ sub[c].buf # <<>>
         /\ sub'[c].from = sub[c].from /\ sub'[c].cursor = sub[c].cursor
         /\ sub'[c].upto = sub[c].upto /\ sub'[c].buf = Tail(sub[c].buf)
         /\ mem'[c].resumed = mem[c].resumed
         /\ LET m == Head(sub[c].buf) IN
            \/ /\ m.id = 0 \/ m.id > sub[c].upto
               /\ sub'[c].got = Append(sub[c].got, m)
               /\ mem'[c].seen = mem[c].seen \cup {m.ev}
               /\ mem'[c].last = IF m.id > 0 THEN m.id ELSE mem[c].last
            \/ /\ m.id > 0 /\ m.id <= sub[c].upto
               /\ sub'[c].got = sub[c].got /\ mem' = mem
<1> DEFINE m == Head(sub[c].buf)
           s == [sub[c] EXCEPT !.buf = Tail(sub[c].buf)]
<1>1. /\ sub[c] \in Streams /\ sub \in [Clients -> Streams] /\ mem \in [Clients -> Memories]
  BY DEF Shape
<1>2. /\ UNCHANGED <<log, trimmed, pub, follow, unsent, faults, streams>>
      /\ sub[c].mode = "live" /\ sub[c].buf # <<>>
  BY DEF Delivers
<1>3. m \in Messages /\ Tail(sub[c].buf) \in Seq(Messages)
  BY <1>1, <1>2, TailAt DEF Streams
<1>4. \/ (m.id = 0 \/ Newer(m.id, s.upto)) /\ Receives(c, s, m)
      \/ /\ m.id > 0 /\ ~Newer(m.id, s.upto)
         /\ sub' = [sub EXCEPT ![c] = s] /\ UNCHANGED mem
  BY <1>1 DEF Delivers
<1>5. /\ s \in Streams /\ s.mode = sub[c].mode /\ s.from = sub[c].from
      /\ s.cursor = sub[c].cursor /\ s.upto = sub[c].upto
      /\ s.buf = Tail(sub[c].buf) /\ s.got = sub[c].got
  BY <1>1, <1>3 DEF Streams
<1>6. m.id \in Nat /\ s.upto \in Nat
  BY <1>3, <1>5 DEF Messages, Streams
<1> HIDE DEF s, m
<1>7. CASE (m.id = 0 \/ Newer(m.id, s.upto)) /\ Receives(c, s, m)
  <2>1. /\ sub' \in [Clients -> Streams] /\ mem' \in [Clients -> Memories]
        /\ \A d \in Clients \ {c} : sub'[d] = sub[d] /\ mem'[d] = mem[d]
        /\ sub'[c].mode = s.mode /\ sub'[c].from = s.from /\ sub'[c].cursor = s.cursor
        /\ sub'[c].upto = s.upto /\ sub'[c].buf = s.buf /\ sub'[c].got = Append(s.got, m)
        /\ mem'[c].seen = mem[c].seen \cup {m.ev} /\ mem'[c].resumed = mem[c].resumed
        /\ mem'[c].last = IF m.id > 0 THEN m.id ELSE mem[c].last
    BY <1>3, <1>5, <1>7, ReceivesEffect
  <2> QED
    BY <1>2, <1>5, <1>6, <1>7, <2>1 DEF Newer, m
<1>8. CASE /\ m.id > 0 /\ ~Newer(m.id, s.upto)
           /\ sub' = [sub EXCEPT ![c] = s] /\ UNCHANGED mem
  <2>1. sub' \in [Clients -> Streams] /\ sub'[c] = s /\ \A d \in Clients \ {c} : sub'[d] = sub[d]
    BY <1>1, <1>5, <1>8
  <2>2. m.id <= sub[c].upto
    BY <1>5, <1>6, <1>8 DEF Newer
  <2> QED
    BY <1>1, <1>2, <1>5, <1>8, <2>1, <2>2 DEF m
<1> QED
  BY <1>4, <1>7, <1>8

\* The replay has nothing more, or the connection is gone.
LEMMA ModeEffect ==
  ASSUME Shape, NEW c \in Clients, EndsReplay(c) \/ Disconnects(c)
  PROVE  /\ UNCHANGED <<log, trimmed, pub, mem, follow, unsent, faults, streams>>
         /\ sub' \in [Clients -> Streams]
         /\ \A d \in Clients \ {c} : sub'[d] = sub[d]
         /\ \/ sub'[c] = NoStream
            \/ /\ sub[c].mode = "replay" /\ sub'[c].mode = "live"
               /\ sub[c].cursor >= Len(log) \/ trimmed >= Len(log)
               /\ sub'[c].from = sub[c].from /\ sub'[c].cursor = sub[c].cursor
               /\ sub'[c].upto = sub[c].upto /\ sub'[c].buf = sub[c].buf
               /\ sub'[c].got = sub[c].got
<1>1. /\ sub[c] \in Streams /\ sub \in [Clients -> Streams] /\ trimmed \in Nat
      /\ Len(log) \in Nat
  BY DEF Shape
<1>2. CASE EndsReplay(c)
  <2>1. sub[c].cursor >= Len(log) \/ trimmed >= Len(log)
    BY <1>1, <1>2 DEF EndsReplay, NextEntry, Streams
  <2>2. sub' = [sub EXCEPT ![c].mode = "live"]
    BY <1>2 DEF EndsReplay
  <2>3. /\ sub' \in [Clients -> Streams] /\ sub'[c].mode = "live"
        /\ \A d \in Clients \ {c} : sub'[d] = sub[d]
        /\ sub'[c].from = sub[c].from /\ sub'[c].cursor = sub[c].cursor
        /\ sub'[c].upto = sub[c].upto /\ sub'[c].buf = sub[c].buf
        /\ sub'[c].got = sub[c].got
    BY <1>1, <2>2 DEF Streams
  <2> QED
    BY <1>2, <2>1, <2>3 DEF EndsReplay
<1>3. CASE Disconnects(c)
  <2>1. NoStream \in Streams
    BY DEF NoStream, Streams
  <2> QED
    BY <1>1, <1>3, <2>1 DEF Disconnects
<1> QED
  BY <1>2, <1>3

-----------------------------------------------------------------------------
(* What the steps of a follower do *)

LEMMA FollowerEffect ==
  ASSUME Shape, NEW f \in Followers, Joins(f) \/ Reads(f) \/ Tires(f) \/ Asks(f)
  PROVE  /\ UNCHANGED <<log, trimmed, pub, sub, mem, unsent, faults>>
         /\ streams' \in 0 .. MaxStreams
         /\ follow' \in [Followers -> Readers]
         /\ \A g \in Followers \ {f} : follow'[g] = follow[g]
         /\ \/ /\ follow[f].step = "off" /\ follow'[f].step = "reading"
               /\ follow'[f].since = pub[RunOf[f]].n
               /\ follow'[f].buf = follow[f].buf /\ follow'[f].got = follow[f].got
            \/ /\ follow[f].step = "reading" /\ follow[f].buf # <<>>
               /\ follow'[f].since = follow[f].since
               /\ \/ /\ Done(Head(follow[f].buf)) /\ follow'[f].step = "ended"
                     /\ follow'[f].got = follow[f].got
                  \/ /\ follow'[f].step = "reading"
                     /\ follow'[f].buf = Tail(follow[f].buf)
                     /\ follow'[f].got = Append(follow[f].got, Head(follow[f].buf))
            \/ /\ follow[f].step \in {"reading", "asking"}
               /\ follow'[f].step \in {"reading", "asking"}
               /\ follow'[f].since = follow[f].since
               /\ follow'[f].buf = follow[f].buf /\ follow'[f].got = follow[f].got
            \/ follow'[f].step = "quit" /\ follow'[f].since = 0
<1>1. /\ follow[f] \in Readers /\ follow \in [Followers -> Readers]
      /\ RunOf[f] \in Publishers /\ pub[RunOf[f]] \in Marks /\ streams \in 0 .. MaxStreams
  BY ConstantsAssumption DEF Shape
<1>2. CASE Joins(f)
  <2>1. pub[RunOf[f]].n \in Nat
    BY <1>1 DEF Marks
  <2>2. follow' = [follow EXCEPT ![f] =
          [follow[f] EXCEPT !.step = "reading", !.since = pub[RunOf[f]].n]]
    BY <1>1, <1>2 DEF Joins
  <2>3. /\ follow' \in [Followers -> Readers]
        /\ \A g \in Followers \ {f} : follow'[g] = follow[g]
        /\ follow'[f].step = "reading" /\ follow'[f].since = pub[RunOf[f]].n
        /\ follow'[f].buf = follow[f].buf /\ follow'[f].got = follow[f].got
    BY <1>1, <2>1, <2>2 DEF Readers
  <2> QED
    BY <1>1, <1>2, <2>3, ConstantsAssumption DEF Joins, Opens
<1>3. CASE Reads(f)
  <2> DEFINE ev == Head(follow[f].buf)
  <2>1. /\ follow[f].step = "reading" /\ follow[f].buf # <<>>
        /\ UNCHANGED <<log, trimmed, pub, sub, mem, unsent, faults, streams>>
    BY <1>3 DEF Reads
  <2>2. ev \in Events /\ Tail(follow[f].buf) \in Seq(Events)
    BY <1>1, <2>1, TailAt DEF Readers
  <2>3. Append(follow[f].got, ev) \in Seq(Events)
    BY <1>1, <2>2, AppendAt DEF Readers
  <2>5. CASE Done(ev)
    <3>1. follow' = [follow EXCEPT ![f] = [follow[f] EXCEPT !.step = "ended", !.buf = <<>>]]
      BY <1>3, <2>5 DEF Reads
    <3>2. /\ follow' \in [Followers -> Readers]
          /\ \A g \in Followers \ {f} : follow'[g] = follow[g]
          /\ follow'[f].step = "ended" /\ follow'[f].since = follow[f].since
          /\ follow'[f].got = follow[f].got
      <4>1. <<>> \in Seq(Events)
        OBVIOUS
      <4> QED
        BY <1>1, <3>1, <4>1 DEF Readers
    <3> QED
      BY <1>1, <2>1, <2>5, <3>2
  <2>6. CASE ~Done(ev)
    <3>1. follow' = [follow EXCEPT ![f] =
            [follow[f] EXCEPT !.buf = Tail(@), !.got = Append(@, ev)]]
      BY <1>3, <2>6 DEF Reads
    <3>2. /\ follow' \in [Followers -> Readers]
          /\ \A g \in Followers \ {f} : follow'[g] = follow[g]
          /\ follow'[f].step = follow[f].step /\ follow'[f].since = follow[f].since
          /\ follow'[f].buf = Tail(follow[f].buf)
          /\ follow'[f].got = Append(follow[f].got, ev)
      BY <1>1, <2>2, <2>3, <3>1 DEF Readers
    <3> QED
      BY <1>1, <2>1, <3>2
  <2> QED
    BY <2>5, <2>6
<1>4. CASE Tires(f)
  <2>1. follow' = [follow EXCEPT ![f].step = "asking"]
    BY <1>4 DEF Tires
  <2>2. /\ follow' \in [Followers -> Readers]
        /\ \A g \in Followers \ {f} : follow'[g] = follow[g]
        /\ follow'[f].step = "asking" /\ follow'[f].since = follow[f].since
        /\ follow'[f].buf = follow[f].buf /\ follow'[f].got = follow[f].got
    BY <1>1, <2>1 DEF Readers
  <2> QED
    BY <1>1, <1>4, <2>2 DEF Tires
<1>5. CASE Asks(f)
  <2>1. CASE pub[RunOf[f]].final
    <3>1. follow' = [follow EXCEPT ![f] = [Idle EXCEPT !.step = "quit"]]
      BY <1>5, <2>1 DEF Asks
    <3>2. Idle \in Readers
      BY DEF Idle, Readers
    <3>3. /\ follow' \in [Followers -> Readers]
          /\ \A g \in Followers \ {f} : follow'[g] = follow[g]
          /\ follow'[f].step = "quit" /\ follow'[f].since = 0
      BY <1>1, <3>1, <3>2 DEF Idle, Readers
    <3> QED
      BY <1>1, <1>5, <3>3 DEF Asks
  <2>2. CASE ~pub[RunOf[f]].final
    <3>1. follow' = [follow EXCEPT ![f] = [follow[f] EXCEPT !.step = "reading"]]
      BY <1>1, <1>5, <2>2 DEF Asks
    <3>2. /\ follow' \in [Followers -> Readers]
          /\ \A g \in Followers \ {f} : follow'[g] = follow[g]
          /\ follow'[f].step = "reading" /\ follow'[f].since = follow[f].since
          /\ follow'[f].buf = follow[f].buf /\ follow'[f].got = follow[f].got
      BY <1>1, <3>1 DEF Readers
    <3> QED
      BY <1>1, <1>5, <3>2 DEF Asks
  <2> QED
    BY <2>1, <2>2
<1> QED
  BY <1>2, <1>3, <1>4, <1>5

-----------------------------------------------------------------------------
(* The log, and the messages that carry an id of it *)

\* An event on its way is one of the run, and only one that is logged has an id.
Outgoing ==
  \A p \in Publishers :
    /\ pub[p].step = "logged" \/ pub[p].id > 0 => pub[p].n <= Length
    /\ pub[p].step = "ready" => pub[p].id = 0

\* What no step takes back.
LEMMA Growth ==
  ASSUME Shape, Outgoing, [Next]_vars
  PROVE  /\ Shape' /\ Outgoing'
         /\ Len(log) <= Len(log') /\ \A k \in 1 .. Len(log) : log'[k] = log[k]
         /\ trimmed <= trimmed' /\ unsent \subseteq unsent'
         /\ \A p \in Publishers : pub[p].n <= pub'[p].n
         /\ \A c \in Clients : /\ mem[c].seen \subseteq mem'[c].seen
                              /\ mem[c].resumed \subseteq mem'[c].resumed
<1> DEFINE Goal ==
         /\ Shape' /\ Outgoing'
         /\ Len(log) <= Len(log') /\ \A k \in 1 .. Len(log) : log'[k] = log[k]
         /\ trimmed <= trimmed' /\ unsent \subseteq unsent'
         /\ \A p \in Publishers : pub[p].n <= pub'[p].n
         /\ \A c \in Clients : /\ mem[c].seen \subseteq mem'[c].seen
                              /\ mem[c].resumed \subseteq mem'[c].resumed
<1>a. /\ Len(log) \in Nat /\ trimmed \in Nat
      /\ \A p \in Publishers : pub[p].n \in Nat /\ pub[p].id \in Nat
  BY DEF Shape, Marks
<1>1. CASE UNCHANGED vars
  BY <1>a, <1>1 DEF vars, Shape, Outgoing
<1>2. ASSUME NEW p \in Publishers,
             AppendsToLog(p) \/ SkipsLog(p) \/ Settles(p) \/ CancelsPending(p) \/ Dies(p)
      PROVE  Goal
  <2>1. /\ UNCHANGED <<trimmed, sub, mem, follow, unsent, streams>>
        /\ pub' \in [Publishers -> Marks] /\ faults' \in 0 .. MaxFaults
        /\ pub'[p].n = pub[p].n /\ \A q \in Publishers \ {p} : pub'[q] = pub[q]
    BY <1>2, WorkerEffect
  <2>2. \/ /\ log' = log /\ pub'[p].id = pub[p].id /\ pub'[p].step # "logged"
           /\ pub'[p].step = "ready" => pub[p].step = "ready"
        \/ log' = log /\ pub'[p].id = 0 /\ pub[p].n <= Length
        \/ /\ log' = Append(log, Event(p)) /\ pub'[p].id \in {0, Len(log) + 1}
           /\ pub[p].n <= Length /\ pub'[p].step = "logged"
    BY <1>2, WorkerEffect
  <2>3. /\ log' \in Seq(Events) /\ Len(log) <= Len(log')
        /\ \A k \in 1 .. Len(log) : log'[k] = log[k]
    <3>1. CASE log' = log
      BY <1>a, <3>1 DEF Shape
    <3>2. CASE log' = Append(log, Event(p)) /\ pub[p].n <= Length
      BY <3>2, ReadyType, AppendAt DEF Shape
    <3> QED
      BY <2>2, <3>1, <3>2
  <2>4. Outgoing'
    BY <2>1, <2>2 DEF Outgoing
  <2>5. Shape'
    BY <2>1, <2>3 DEF Shape
  <2> QED
    BY <1>a, <2>1, <2>3, <2>4, <2>5
<1>3. ASSUME NEW p \in Publishers, Publishes(p) \/ Retries(p)
      PROVE  Goal
  <2>1. pub[p].n <= Length
    BY <1>3 DEF Outgoing, Publishes, Retries
  <2>2. /\ UNCHANGED <<log, trimmed, mem, streams>>
        /\ pub' \in [Publishers -> Marks] /\ faults' \in 0 .. MaxFaults
        /\ pub'[p].id = 0 /\ pub'[p].n \in {pub[p].n, pub[p].n + 1} /\ pub'[p].step = "ready"
        /\ \A q \in Publishers \ {p} : pub'[q] = pub[q]
        /\ Sent(p) \/ UNCHANGED <<sub, follow>>
        /\ unsent' = unsent \/ unsent' = unsent \cup {Event(p)}
    BY <1>3, <2>1, SenderEffect
  <2>3. sub' \in [Clients -> Streams] /\ follow' \in [Followers -> Readers]
    BY <2>1, <2>2, SentEffect DEF Shape
  <2>4. Event(p) \in Events
    BY <2>1, ReadyType
  <2>5. Shape'
    BY <2>2, <2>3, <2>4 DEF Shape
  <2>6. Outgoing'
    BY <2>2 DEF Outgoing
  <2> QED
    BY <1>a, <2>2, <2>5, <2>6
<1>4. CASE Trims
  <2>1. trimmed' \in Nat /\ trimmed <= trimmed' /\ faults' \in 0 .. MaxFaults
    BY <1>a, <1>4, ConstantsAssumption DEF Trims, Fails, Shape
  <2> QED
    BY <1>a, <1>4, <2>1 DEF Trims, Shape, Outgoing
<1>5. ASSUME NEW c \in Clients,
             \/ \E start \in Starts : Connects(c, start)
             \/ Replays(c) \/ EndsReplay(c) \/ Delivers(c) \/ Disconnects(c)
      PROVE  Goal
  <2>1. /\ UNCHANGED <<log, trimmed, pub, follow, unsent, faults>>
        /\ streams' \in 0 .. MaxStreams
        /\ sub' \in [Clients -> Streams] /\ mem' \in [Clients -> Memories]
        /\ \A d \in Clients \ {c} : mem'[d] = mem[d]
        /\ mem[c].seen \subseteq mem'[c].seen /\ mem[c].resumed \subseteq mem'[c].resumed
    <3>1. CASE \E start \in Starts : Connects(c, start)
      BY <3>1, ConnectsEffect
    <3>2. CASE Replays(c)
      BY <3>2, ReplaysEffect DEF Shape
    <3>3. CASE EndsReplay(c) \/ Disconnects(c)
      BY <3>3, ModeEffect DEF Shape
    <3>4. CASE Delivers(c)
      BY <3>4, DeliversEffect DEF Shape
    <3> QED
      BY <1>5, <3>1, <3>2, <3>3, <3>4
  <2> QED
    BY <1>a, <2>1 DEF Shape, Outgoing
<1>6. ASSUME NEW f \in Followers, Joins(f) \/ Reads(f) \/ Tires(f) \/ Asks(f)
      PROVE  Goal
  <2>1. /\ UNCHANGED <<log, trimmed, pub, sub, mem, unsent, faults>>
        /\ streams' \in 0 .. MaxStreams /\ follow' \in [Followers -> Readers]
    BY <1>6, FollowerEffect
  <2> QED
    BY <1>a, <2>1 DEF Shape, Outgoing
<1> QED
  BY <1>1, <1>2, <1>3, <1>4, <1>5, <1>6 DEF Next

\* A run logs its events in their order, and the id it holds is of its last entry.
LogOrder ==
  /\ \A k \in 1 .. Len(log) : log[k][2] <= pub[log[k][1]].n
  /\ \A j, k \in 1 .. Len(log) :
       j < k /\ log[j][1] = log[k][1] => log[j][2] <= log[k][2]
  /\ \A p \in Publishers, k \in 1 .. Len(log) :
       pub[p].id > 0 /\ log[k] = Event(p) => k <= pub[p].id

LEMMA LogAt ==
  ASSUME Shape
  PROVE  /\ Len(log) \in Nat
         /\ \A k \in 1 .. Len(log) :
              log[k] \in Events /\ log[k][1] \in Publishers /\ log[k][2] \in 1 .. Length
<1>1. Len(log) \in Nat /\ \A k \in 1 .. Len(log) : log[k] \in Events
  BY DEF Shape
<1> QED
  BY <1>1 DEF Events

LEMMA LogOrderStep == Shape /\ Outgoing /\ LogOrder /\ [Next]_vars => LogOrder'
<1> SUFFICES ASSUME Shape, Outgoing, LogOrder, [Next]_vars PROVE LogOrder'
  OBVIOUS
<1>a. /\ Len(log) \in Nat
      /\ \A k \in 1 .. Len(log) : log[k] \in Events /\ log[k][1] \in Publishers /\ log[k][2] \in Nat
      /\ \A p \in Publishers : pub[p].n \in Nat /\ pub[p].id \in Nat
  BY LogAt DEF Shape, Marks
<1>b. \A p \in Publishers : pub[p].n <= pub'[p].n /\ pub'[p].n \in Nat
  BY Growth DEF Shape, Marks
<1>c. ASSUME log' = log,
             \A p \in Publishers :
               pub'[p].id = 0 \/ (pub'[p].id = pub[p].id /\ pub'[p].n = pub[p].n)
      PROVE  LogOrder'
  <2>1. \A k \in 1 .. Len(log) : log[k][2] <= pub'[log[k][1]].n
    <3> SUFFICES ASSUME NEW k \in 1 .. Len(log) PROVE log[k][2] <= pub'[log[k][1]].n
      OBVIOUS
    <3> DEFINE p == log[k][1]  n == log[k][2]
    <3>1. p \in Publishers /\ n \in Nat /\ n <= pub[p].n
      BY <1>a DEF LogOrder
    <3>2. pub[p].n \in Nat /\ pub[p].n <= pub'[p].n /\ pub'[p].n \in Nat
      BY <1>a, <1>b, <3>1
    <3> HIDE DEF p, n
    <3> QED
      BY <3>1, <3>2 DEF p, n
  <2>2. ASSUME NEW p \in Publishers, NEW k \in 1 .. Len(log),
               pub'[p].id > 0, log[k] = Event(p)'
        PROVE  k <= pub'[p].id
    BY <1>a, <1>c, <2>2 DEF LogOrder, Event
  <2> QED
    BY <1>c, <2>1, <2>2 DEF LogOrder
<1>1. ASSUME NEW p \in Publishers,
             AppendsToLog(p) \/ SkipsLog(p) \/ Settles(p) \/ CancelsPending(p) \/ Dies(p)
      PROVE  LogOrder'
  <2>1. /\ pub'[p].n = pub[p].n /\ \A q \in Publishers \ {p} : pub'[q] = pub[q]
        /\ \/ log' = log /\ pub'[p].id \in {0, pub[p].id}
           \/ /\ log' = Append(log, Event(p)) /\ pub'[p].id \in {0, Len(log) + 1}
              /\ pub[p].n <= Length
    BY <1>1, WorkerEffect
  <2>2. CASE log' = log /\ pub'[p].id \in {0, pub[p].id}
    BY <1>c, <2>1, <2>2
  <2>3. CASE /\ log' = Append(log, Event(p)) /\ pub'[p].id \in {0, Len(log) + 1}
             /\ pub[p].n <= Length
    <3>1. /\ Len(log') = Len(log) + 1 /\ log'[Len(log) + 1] = Event(p)
          /\ \A k \in 1 .. Len(log) : log'[k] = log[k]
      BY <2>3, ReadyType, AppendAt DEF Shape
    <3>2. Event(p)[1] = p /\ Event(p)[2] = pub[p].n /\ \A q \in Publishers : Event(q)' = Event(q)
      BY <2>1 DEF Event
    <3>3. \A k \in 1 .. Len(log') : log'[k][2] <= pub'[log'[k][1]].n
      BY <1>a, <2>1, <3>1, <3>2 DEF LogOrder
    <3>4. \A j, k \in 1 .. Len(log') :
            j < k /\ log'[j][1] = log'[k][1] => log'[j][2] <= log'[k][2]
      BY <1>a, <3>1, <3>2 DEF LogOrder
    <3>5. ASSUME NEW q \in Publishers, NEW k \in 1 .. Len(log'),
                 pub'[q].id > 0, log'[k] = Event(q)
          PROVE  k <= pub'[q].id
      <4>1. CASE q = p
        BY <1>a, <2>1, <2>3, <3>1, <3>5, <4>1
      <4>2. CASE q # p
        <5>1. Event(q) # Event(p)
          BY <4>2 DEF Event
        <5>2. k \in 1 .. Len(log)
          BY <1>a, <3>1, <3>5, <5>1
        <5> QED
          BY <2>1, <3>1, <3>5, <4>2, <5>2 DEF LogOrder
      <4> QED
        BY <4>1, <4>2
    <3> QED
      BY <3>2, <3>3, <3>4, <3>5 DEF LogOrder
  <2> QED
    BY <2>1, <2>2, <2>3
<1>2. ASSUME NEW p \in Publishers, Publishes(p) \/ Retries(p)
      PROVE  LogOrder'
  <2>1. pub[p].n <= Length
    BY <1>2 DEF Outgoing, Publishes, Retries
  <2>2. /\ log' = log /\ pub'[p].id = 0 /\ pub'[p].n \in {pub[p].n, pub[p].n + 1}
        /\ \A q \in Publishers \ {p} : pub'[q] = pub[q]
    BY <1>2, <2>1, SenderEffect
  <2>3. \A q \in Publishers : pub'[q].id = 0 \/ (pub'[q].id = pub[q].id /\ pub'[q].n = pub[q].n)
    BY <2>2
  <2> QED
    BY <1>c, <2>2, <2>3
<1>3. CASE \/ UNCHANGED vars \/ Trims
           \/ \E c \in Clients :
                \/ \E start \in Starts : Connects(c, start)
                \/ Replays(c) \/ EndsReplay(c) \/ Delivers(c) \/ Disconnects(c)
           \/ \E f \in Followers : Joins(f) \/ Reads(f) \/ Tires(f) \/ Asks(f)
  <2>1. log' = log /\ pub' = pub
    BY <1>3 DEF vars, Trims, Connects, Replays, EndsReplay, Delivers, Disconnects,
                Joins, Reads, Tires, Asks
  <2> QED
    BY <1>c, <2>1
<1> QED
  BY <1>1, <1>2, <1>3 DEF Next

-----------------------------------------------------------------------------
(* The messages of a connection *)

\* A message with an id is the copy of an entry.
StampedIn(entries, m) == m.id > 0 => m.id <= Len(entries) /\ entries[m.id] = m.ev
Stamped(m) == StampedIn(log, m)

Stamps(c) ==
  /\ \A i \in 1 .. Len(sub[c].got) : Stamped(sub[c].got[i])
  /\ \A i \in 1 .. Len(sub[c].buf) : Stamped(sub[c].buf[i])
  /\ mem[c].last <= Len(log)

ReadyStamps == \A p \in Publishers : Stamped(Ready(p))

\* Where a connection is in the log.
Place(c) ==
  /\ sub[c].mode = "off" => sub[c] = NoStream
  /\ sub[c].mode = "replay" =>
       sub[c].from >= 0 /\ \A i \in 1 .. Len(sub[c].got) : sub[c].got[i].id <= sub[c].upto
  /\ sub[c].from <= sub[c].cursor /\ sub[c].cursor <= Len(log)
  /\ sub[c].upto <= sub[c].cursor \/ sub[c].upto = 0
  /\ sub[c].from >= -1

\* Of one run, the entry l names is after the one m names.
Under(m, l) == m.id > 0 /\ l.id > 0 /\ m.ev[1] = l.ev[1] => m.id < l.id
AllUnder(s, m) == \A i \in 1 .. Len(s) : Under(s[i], m)
Rising(s) == \A i, j \in 1 .. Len(s) : i < j => Under(s[i], s[j])

\* The entries of a run come to a connection in their order, and what is still to come
\* to it is after what it got: except what the replay was ahead of.
Order(c) ==
  /\ Rising(sub[c].got) /\ Rising(sub[c].buf)
  /\ \A j \in 1 .. Len(sub[c].buf) :
       sub[c].buf[j].id > sub[c].upto => AllUnder(sub[c].got, sub[c].buf[j])
  /\ \A p \in Publishers :
       /\ AllUnder(sub[c].buf, Ready(p))
       /\ pub[p].id > sub[c].upto => AllUnder(sub[c].got, Ready(p))

LEMMA RisingAppend ==
  ASSUME NEW s \in Seq(Messages), NEW m \in Messages, Rising(s), AllUnder(s, m)
  PROVE  Rising(Append(s, m))
<1>1. /\ Len(s) \in Nat /\ Len(Append(s, m)) = Len(s) + 1 /\ Append(s, m)[Len(s) + 1] = m
      /\ \A i \in 1 .. Len(s) : Append(s, m)[i] = s[i]
  BY AppendAt
<1> HIDE DEF Under
<1> QED
  BY <1>1 DEF Rising, AllUnder

LEMMA AllUnderAppend ==
  ASSUME NEW s \in Seq(Messages), NEW m \in Messages, NEW l, AllUnder(s, l), Under(m, l)
  PROVE  AllUnder(Append(s, m), l)
<1>1. /\ Len(s) \in Nat /\ Len(Append(s, m)) = Len(s) + 1 /\ Append(s, m)[Len(s) + 1] = m
      /\ \A i \in 1 .. Len(s) : Append(s, m)[i] = s[i]
  BY AppendAt
<1> QED
  BY <1>1 DEF AllUnder

LEMMA RisingTail ==
  ASSUME NEW s \in Seq(Messages), s # <<>>, Rising(s)
  PROVE  /\ Rising(Tail(s))
         /\ \A j \in 1 .. Len(Tail(s)) : Under(Head(s), Tail(s)[j])
<1>1. /\ Len(s) \in Nat \ {0} /\ Len(Tail(s)) = Len(s) - 1 /\ Head(s) = s[1]
      /\ \A i \in 1 .. Len(s) - 1 : Tail(s)[i] = s[i + 1]
  BY TailAt
<1> QED
  BY <1>1 DEF Rising

\* A step as a client sees it: a worker moves, alone or sending; nothing it can see
\* moves (but the log may be trimmed); or it is its own.
Works(p) == AppendsToLog(p) \/ SkipsLog(p) \/ Settles(p) \/ CancelsPending(p) \/ Dies(p)
Sends(p) == Publishes(p) \/ Retries(p)
Moves(c) == \/ \E start \in Starts : Connects(c, start)
            \/ Replays(c) \/ EndsReplay(c) \/ Delivers(c) \/ Disconnects(c)
Still(c) == UNCHANGED <<log, pub, unsent>> /\ sub'[c] = sub[c] /\ mem'[c] = mem[c]

LEMMA ClientCases ==
  ASSUME Shape, [Next]_vars, NEW c \in Clients
  PROVE  \/ \E p \in Publishers : Works(p) \/ Sends(p)
         \/ Still(c) \/ Moves(c)
<1>1. CASE UNCHANGED vars
  BY <1>1 DEF vars, Still
<1>2. CASE Trims
  BY <1>2 DEF Trims, Still
<1>3. ASSUME NEW f \in Followers, Joins(f) \/ Reads(f) \/ Tires(f) \/ Asks(f)
      PROVE  Still(c)
  BY <1>3 DEF Joins, Reads, Tires, Asks, Still
<1>4. ASSUME NEW d \in Clients, d # c, Moves(d)
      PROVE  Still(c)
  <2>1. CASE \E start \in Starts : Connects(d, start)
    BY <1>4, <2>1, ConnectsEffect DEF Still
  <2>2. CASE Replays(d)
    BY <1>4, <2>2, ReplaysEffect DEF Still
  <2>3. CASE EndsReplay(d) \/ Disconnects(d)
    BY <1>4, <2>3, ModeEffect DEF Still
  <2>4. CASE Delivers(d)
    BY <1>4, <2>4, DeliversEffect DEF Still
  <2> QED
    BY <1>4, <2>1, <2>2, <2>3, <2>4 DEF Moves
<1> QED
  BY <1>1, <1>2, <1>3, <1>4 DEF Next, Works, Sends, Moves

\* What a client gets of it when a worker sends.
LEMMA SendsToClient ==
  ASSUME Shape, Outgoing, NEW c \in Clients, NEW p \in Publishers, Sends(p)
  PROVE  /\ UNCHANGED <<log, trimmed, mem>> /\ unsent \subseteq unsent'
         /\ Ready(p) \in Messages /\ Event(p) \in Events /\ pub[p].n <= Length
         /\ pub'[p].id = 0 /\ pub'[p].n \in {pub[p].n, pub[p].n + 1}
         /\ \A q \in Publishers \ {p} : pub'[q] = pub[q]
         /\ \/ /\ sub'[c] = sub[c]
               /\ ~Hears(c) \/ Event(p) \in unsent' \/ pub'[p].n = pub[p].n
            \/ /\ Hears(c) /\ sub'[c].buf = Append(sub[c].buf, Ready(p))
               /\ sub'[c].mode = sub[c].mode /\ sub'[c].from = sub[c].from
               /\ sub'[c].cursor = sub[c].cursor /\ sub'[c].upto = sub[c].upto
               /\ sub'[c].got = sub[c].got
<1>1. pub[p].n <= Length
  BY DEF Outgoing, Sends, Publishes, Retries
<1>2. Ready(p) \in Messages /\ Event(p) \in Events
  BY <1>1, ReadyType
<1>3. /\ UNCHANGED <<log, trimmed, mem>>
      /\ pub'[p].id = 0
      /\ \A q \in Publishers \ {p} : pub'[q] = pub[q]
      /\ \/ pub'[p].n = pub[p].n + 1 /\ Sent(p) /\ unsent' = unsent
         \/ /\ pub'[p].n = pub[p].n + 1 /\ UNCHANGED <<sub, follow>>
            /\ unsent' = unsent \cup {Event(p)}
         \/ /\ pub'[p].n = pub[p].n /\ unsent' = unsent
            /\ Sent(p) \/ UNCHANGED <<sub, follow>>
  BY <1>1, SenderEffect DEF Sends
<1>4. CASE Sent(p)
  BY <1>1, <1>2, <1>3, <1>4, SentEffect DEF Copied
<1>5. CASE ~Sent(p)
  BY <1>1, <1>2, <1>3, <1>5
<1> QED
  BY <1>3, <1>4, <1>5

LEMMA StampedStays ==
  ASSUME Shape, Outgoing, [Next]_vars
  PROVE  \A m \in Messages : StampedIn(log, m) => StampedIn(log', m)
<1>1. Len(log) \in Nat /\ Len(log') \in Nat
  BY Growth DEF Shape
<1> QED
  BY <1>1, Growth DEF StampedIn, Messages

LEMMA ReadyStampsStep ==
  Shape /\ Outgoing /\ ReadyStamps /\ [Next]_vars => ReadyStamps'
<1> SUFFICES ASSUME Shape, Outgoing, ReadyStamps, [Next]_vars, NEW p \in Publishers
             PROVE  StampedIn(log', Ready(p)')
  BY DEF ReadyStamps, Stamped
<1>a. StampedIn(log, Ready(p)) /\ pub[p].id \in Nat /\ Len(log) \in Nat
  BY DEF ReadyStamps, Stamped, Shape, Marks
<1>b. ASSUME Ready(p)' = Ready(p)
      PROVE  StampedIn(log', Ready(p)')
  <2>1. CASE pub[p].id > 0
    <3>1. Ready(p) \in Messages
      BY <2>1, ReadyType DEF Outgoing
    <3> QED
      BY <1>a, <1>b, <3>1, StampedStays
  <2>2. CASE ~(pub[p].id > 0)
    BY <1>a, <1>b, <2>2 DEF StampedIn, Ready
  <2> QED
    BY <2>1, <2>2
<1>c. ASSUME pub'[p].id = 0
      PROVE  StampedIn(log', Ready(p)')
  BY <1>c DEF StampedIn, Ready
<1>1. ASSUME NEW q \in Publishers, Works(q)
      PROVE  StampedIn(log', Ready(p)')
  <2>1. CASE p # q
    BY <1>1, <1>b, <2>1, WorkerEffect DEF Works, Ready, Event
  <2>2. CASE p = q
    <3>1. /\ pub'[p].n = pub[p].n
          /\ \/ log' = log /\ pub'[p].id \in {0, pub[p].id}
             \/ /\ log' = Append(log, Event(p)) /\ pub'[p].id \in {0, Len(log) + 1}
                /\ pub[p].n <= Length
      BY <1>1, <2>2, WorkerEffect DEF Works
    <3>2. CASE pub'[p].id = pub[p].id
      BY <1>b, <3>1, <3>2 DEF Ready, Event
    <3>3. CASE /\ log' = Append(log, Event(p)) /\ pub'[p].id = Len(log) + 1
               /\ pub[p].n <= Length
      <4>1. Len(log') = Len(log) + 1 /\ log'[Len(log) + 1] = Event(p)
        BY <3>3, ReadyType, AppendAt DEF Shape
      <4> QED
        BY <1>a, <3>1, <3>3, <4>1 DEF StampedIn, Ready, Event
    <3> QED
      BY <1>c, <3>1, <3>2, <3>3
  <2> QED
    BY <2>1, <2>2
<1>2. ASSUME NEW q \in Publishers, Sends(q)
      PROVE  StampedIn(log', Ready(p)')
  <2>1. pub[q].n <= Length
    BY <1>2 DEF Outgoing, Sends, Publishes, Retries
  <2>2. pub'[q].id = 0 /\ \A r \in Publishers \ {q} : pub'[r] = pub[r]
    BY <1>2, <2>1, SenderEffect DEF Sends
  <2> QED
    BY <1>b, <1>c, <2>2 DEF Ready, Event
<1>3. CASE pub' = pub
  BY <1>b, <1>3 DEF Ready, Event
<1>4. (\E q \in Publishers : Works(q) \/ Sends(q)) \/ pub' = pub
  <2>1. ASSUME NEW c \in Clients, Moves(c)
        PROVE  pub' = pub
    BY <2>1 DEF Moves, Connects, Replays, EndsReplay, Delivers, Disconnects
  <2> QED
    BY <2>1 DEF Next, vars, Trims, Joins, Reads, Tires, Asks, Works, Sends, Moves
<1> QED
  BY <1>1, <1>2, <1>3, <1>4

LEMMA MessageAt ==
  \A m \in Messages : /\ m.id \in Nat /\ m.ev \in Events
                      /\ m.ev[1] \in Publishers /\ m.ev[2] \in 1 .. Length
<1>1. \A m \in Messages : m.id \in Nat /\ m.ev \in Events
  BY DEF Messages
<1>2. \A e \in Events : e[1] \in Publishers /\ e[2] \in 1 .. Length
  BY DEF Events
<1> QED
  BY <1>1, <1>2

\* The stream of a client and its types.
LEMMA StreamAt ==
  ASSUME Shape, NEW c \in Clients
  PROVE  /\ sub[c] \in Streams /\ mem[c] \in Memories
         /\ sub[c].buf \in Seq(Messages) /\ sub[c].got \in Seq(Messages)
         /\ Len(sub[c].buf) \in Nat /\ Len(sub[c].got) \in Nat
         /\ \A i \in 1 .. Len(sub[c].buf) :
              sub[c].buf[i] \in Messages /\ sub[c].buf[i].id \in Nat
         /\ \A i \in 1 .. Len(sub[c].got) :
              sub[c].got[i] \in Messages /\ sub[c].got[i].id \in Nat
         /\ sub[c].upto \in Nat /\ sub[c].cursor \in Int /\ sub[c].from \in Int
         /\ mem[c].last \in Nat
<1>1. sub[c] \in Streams /\ mem[c] \in Memories
  BY DEF Shape
<1>2. sub[c].buf \in Seq(Messages) /\ sub[c].got \in Seq(Messages)
  BY <1>1 DEF Streams
<1>3. /\ \A i \in 1 .. Len(sub[c].buf) : sub[c].buf[i] \in Messages
      /\ \A i \in 1 .. Len(sub[c].got) : sub[c].got[i] \in Messages
  BY <1>2
<1> QED
  BY <1>1, <1>2, <1>3, MessageAt DEF Streams, Memories

\* Every message of a connection that was a copy of an entry is one still, and so is
\* one that comes.
LEMMA StampsStep ==
  ASSUME Shape, Outgoing, ReadyStamps, [Next]_vars, NEW c \in Clients, Stamps(c)
  PROVE  Stamps(c)'
<1> DEFINE got == sub[c].got  buf == sub[c].buf
<1>a. /\ got \in Seq(Messages) /\ buf \in Seq(Messages)
      /\ Len(got) \in Nat /\ Len(buf) \in Nat
      /\ \A i \in 1 .. Len(got) : got[i] \in Messages
      /\ \A i \in 1 .. Len(buf) : buf[i] \in Messages
      /\ Len(log) \in Nat /\ Len(log') \in Nat /\ Len(log) <= Len(log')
      /\ mem[c].last \in Nat
  BY StreamAt, Growth DEF Shape
<1>b. /\ \A i \in 1 .. Len(got) : StampedIn(log', got[i])
      /\ \A i \in 1 .. Len(buf) : StampedIn(log', buf[i])
      /\ mem[c].last <= Len(log')
  BY <1>a, StampedStays DEF Stamps, Stamped
<1> SUFFICES /\ \A i \in 1 .. Len(sub'[c].got) : StampedIn(log', sub'[c].got[i])
             /\ \A i \in 1 .. Len(sub'[c].buf) : StampedIn(log', sub'[c].buf[i])
             /\ mem'[c].last <= Len(log')
  BY DEF Stamps, Stamped
<1> HIDE DEF got, buf
<1>1. ASSUME sub'[c].got = got, sub'[c].buf = buf, mem'[c].last = mem[c].last
      PROVE  /\ \A i \in 1 .. Len(sub'[c].got) : StampedIn(log', sub'[c].got[i])
             /\ \A i \in 1 .. Len(sub'[c].buf) : StampedIn(log', sub'[c].buf[i])
             /\ mem'[c].last <= Len(log')
  BY <1>b, <1>1
<1>2. ASSUME NEW p \in Publishers, Works(p)
      PROVE  sub'[c].got = got /\ sub'[c].buf = buf /\ mem'[c].last = mem[c].last
  BY <1>2, WorkerEffect DEF Works, got, buf
<1>3. ASSUME NEW p \in Publishers, Sends(p)
      PROVE  /\ \A i \in 1 .. Len(sub'[c].got) : StampedIn(log', sub'[c].got[i])
             /\ \A i \in 1 .. Len(sub'[c].buf) : StampedIn(log', sub'[c].buf[i])
             /\ mem'[c].last <= Len(log')
  <2>1. /\ mem' = mem /\ Ready(p) \in Messages /\ sub'[c].got = got
        /\ sub'[c].buf = buf \/ sub'[c].buf = Append(buf, Ready(p))
    BY <1>3, SendsToClient DEF got, buf
  <2>2. StampedIn(log', Ready(p))
    BY <2>1, StampedStays DEF ReadyStamps, Stamped
  <2>3. CASE sub'[c].buf = buf
    BY <1>1, <2>1, <2>3
  <2>4. CASE sub'[c].buf = Append(buf, Ready(p))
    <3>1. /\ Len(Append(buf, Ready(p))) = Len(buf) + 1
          /\ Append(buf, Ready(p))[Len(buf) + 1] = Ready(p)
          /\ \A i \in 1 .. Len(buf) : Append(buf, Ready(p))[i] = buf[i]
      BY <1>a, <2>1, AppendAt
    <3> QED
      BY <1>a, <1>b, <2>1, <2>2, <2>4, <3>1
  <2> QED
    BY <2>1, <2>3, <2>4
<1>4. CASE Still(c)
  BY <1>1, <1>4 DEF Still, got, buf
<1>5. ASSUME NEW start \in Starts, Connects(c, start)
      PROVE  sub'[c].got = got /\ sub'[c].buf = buf /\ mem'[c].last = mem[c].last
  BY <1>5, ConnectsEffect DEF got, buf
<1>6. CASE Replays(c)
  <2>1. PICK k \in 1 .. Len(log) :
          /\ sub'[c].got = Append(got, [ev |-> log[k], id |-> k])
          /\ [ev |-> log[k], id |-> k] \in Messages
          /\ mem'[c].last = k /\ sub'[c].buf = buf /\ log' = log
    BY <1>6, ReplaysEffect DEF got, buf
  <2> DEFINE m == [ev |-> log[k], id |-> k]
  <2>2. StampedIn(log', m)
    BY <2>1 DEF StampedIn
  <2>3. /\ Len(Append(got, m)) = Len(got) + 1 /\ Append(got, m)[Len(got) + 1] = m
        /\ \A i \in 1 .. Len(got) : Append(got, m)[i] = got[i]
    BY <1>a, <2>1, AppendAt
  <2> HIDE DEF m
  <2>4. sub'[c].got = Append(got, m)
    BY <2>1 DEF m
  <2> QED
    BY <1>a, <1>b, <2>1, <2>2, <2>3, <2>4
<1>7. CASE EndsReplay(c) \/ Disconnects(c)
  <2>1. mem' = mem
    BY <1>7, ModeEffect
  <2>2. CASE sub'[c] = NoStream
    BY <1>b, <2>1, <2>2 DEF NoStream
  <2>3. CASE sub'[c].got = got /\ sub'[c].buf = buf
    BY <1>1, <2>1, <2>3
  <2> QED
    BY <1>7, <2>2, <2>3, ModeEffect DEF got, buf
<1>8. CASE Delivers(c)
  <2> DEFINE m == Head(buf)
  <2>1. /\ buf # <<>> /\ sub'[c].buf = Tail(buf) /\ log' = log
        /\ \/ /\ sub'[c].got = Append(got, m)
              /\ mem'[c].last = IF m.id > 0 THEN m.id ELSE mem[c].last
           \/ sub'[c].got = got /\ mem' = mem
    BY <1>8, DeliversEffect DEF got, buf
  <2>2. /\ Len(buf) \in Nat \ {0} /\ Len(Tail(buf)) = Len(buf) - 1
        /\ \A i \in 1 .. Len(buf) - 1 : Tail(buf)[i] = buf[i + 1]
        /\ m = buf[1] /\ m \in Messages
    BY <1>a, <2>1, TailAt
  <2>3. StampedIn(log', m) /\ \A i \in 1 .. Len(Tail(buf)) : StampedIn(log', Tail(buf)[i])
    BY <1>b, <2>2
  <2>4. CASE sub'[c].got = got /\ mem' = mem
    BY <1>b, <2>1, <2>3, <2>4
  <2>5. CASE /\ sub'[c].got = Append(got, m)
             /\ mem'[c].last = IF m.id > 0 THEN m.id ELSE mem[c].last
    <3>1. /\ Len(Append(got, m)) = Len(got) + 1 /\ Append(got, m)[Len(got) + 1] = m
          /\ \A i \in 1 .. Len(got) : Append(got, m)[i] = got[i]
      BY <1>a, <2>2, AppendAt
    <3> HIDE DEF m
    <3>2. \A i \in 1 .. Len(sub'[c].got) : StampedIn(log', sub'[c].got[i])
      BY <1>a, <1>b, <2>3, <2>5, <3>1
    <3>3. mem'[c].last <= Len(log')
      BY <1>b, <2>3, <2>5 DEF StampedIn
    <3> QED
      BY <2>1, <2>3, <3>2, <3>3
  <2> QED
    BY <2>1, <2>4, <2>5
<1> QED
  BY <1>1, <1>2, <1>3, <1>4, <1>5, <1>6, <1>7, <1>8, ClientCases DEF Moves

LEMMA PlaceStep ==
  ASSUME Shape, Outgoing, [Next]_vars, NEW c \in Clients, Stamps(c), Place(c)
  PROVE  Place(c)'
<1>a. /\ Len(log) \in Nat /\ Len(log') \in Nat /\ Len(log) <= Len(log')
      /\ sub[c].upto \in Nat /\ sub[c].cursor \in Int /\ sub[c].from \in Int
      /\ sub[c].got \in Seq(Messages) /\ Len(sub[c].got) \in Nat
      /\ \A i \in 1 .. Len(sub[c].got) : sub[c].got[i].id \in Nat
      /\ trimmed \in Nat /\ mem[c].last \in Nat /\ mem[c].last <= Len(log)
  <2>1. /\ sub[c].upto \in Nat /\ sub[c].cursor \in Int /\ sub[c].from \in Int
        /\ sub[c].got \in Seq(Messages) /\ Len(sub[c].got) \in Nat
        /\ \A i \in 1 .. Len(sub[c].got) : sub[c].got[i].id \in Nat
        /\ mem[c].last \in Nat
    BY StreamAt
  <2>2. Len(log) \in Nat /\ Len(log') \in Nat /\ Len(log) <= Len(log') /\ trimmed \in Nat
    BY Growth DEF Shape
  <2> QED
    BY <2>1, <2>2 DEF Stamps
<1>1. ASSUME NEW p \in Publishers, Works(p)
      PROVE  Place(c)'
  <2>1. sub' = sub
    BY <1>1, WorkerEffect DEF Works
  <2> QED
    BY <1>a, <2>1 DEF Place
<1>2. ASSUME NEW p \in Publishers, Sends(p)
      PROVE  Place(c)'
  <2>1. /\ log' = log
        /\ \/ sub'[c] = sub[c]
           \/ /\ Hears(c) /\ sub'[c].mode = sub[c].mode /\ sub'[c].from = sub[c].from
              /\ sub'[c].cursor = sub[c].cursor /\ sub'[c].upto = sub[c].upto
              /\ sub'[c].got = sub[c].got
    BY <1>2, SendsToClient
  <2> QED
    BY <1>a, <2>1 DEF Place, Hears
<1>3. CASE Still(c)
  BY <1>a, <1>3 DEF Still, Place
<1>4. ASSUME NEW start \in Starts, Connects(c, start)
      PROVE  Place(c)'
  <2>1. /\ log' = log /\ sub[c].mode = "off" /\ sub'[c].mode \in {"replay", "live"}
        /\ sub'[c].upto = sub[c].upto /\ sub'[c].got = sub[c].got
        /\ sub'[c].cursor = sub'[c].from /\ sub'[c].from \in {0, mem[c].last, -1}
        /\ sub'[c].mode = "replay" => sub'[c].from \in {0, mem[c].last}
    BY <1>4, ConnectsEffect
  <2>2. sub[c].upto = 0 /\ sub[c].got = <<>>
    BY <2>1 DEF Place, NoStream
  <2> QED
    BY <1>a, <2>1, <2>2 DEF Place
<1>5. CASE Replays(c)
  <2>1. PICK k \in 1 .. Len(log) :
          /\ k = (IF sub[c].cursor < trimmed THEN trimmed ELSE sub[c].cursor) + 1
          /\ sub'[c].cursor = k /\ sub'[c].upto = k
          /\ sub'[c].got = Append(sub[c].got, [ev |-> log[k], id |-> k])
          /\ [ev |-> log[k], id |-> k] \in Messages
          /\ log' = log /\ sub[c].mode = "replay" /\ sub'[c].mode = "replay"
          /\ sub'[c].from = sub[c].from
    BY <1>5, ReplaysEffect
  <2> DEFINE m == [ev |-> log[k], id |-> k]
  <2>2. /\ Len(Append(sub[c].got, m)) = Len(sub[c].got) + 1
        /\ Append(sub[c].got, m)[Len(sub[c].got) + 1] = m
        /\ \A i \in 1 .. Len(sub[c].got) : Append(sub[c].got, m)[i] = sub[c].got[i]
    BY <1>a, <2>1, AppendAt
  <2>0. /\ sub[c].from <= sub[c].cursor /\ sub[c].from >= 0
        /\ sub[c].upto <= sub[c].cursor \/ sub[c].upto = 0
    BY <2>1 DEF Place
  <2> k \in Nat /\ k > 0 /\ k <= Len(log)
    BY <1>a
  <2>3. m.id = k /\ sub[c].upto < k /\ sub[c].cursor < k /\ sub[c].from <= k
    <3>1. sub[c].cursor < k
      BY <1>a, <2>1
    <3> QED
      BY <1>a, <2>0, <3>1
  <2>4. sub'[c].got = Append(sub[c].got, m)
    BY <2>1
  <2> HIDE DEF m
  <2>5. \A i \in 1 .. Len(sub'[c].got) : sub'[c].got[i].id <= k
    <3>1. \A i \in 1 .. Len(sub[c].got) : sub[c].got[i].id <= sub[c].upto
      BY <2>1 DEF Place
    <3>2. \A i \in 1 .. Len(sub[c].got) : sub[c].got[i].id <= k
      BY <1>a, <2>3, <3>1
    <3>3. ASSUME NEW i \in 1 .. Len(sub[c].got) + 1
          PROVE  Append(sub[c].got, m)[i].id <= k
      <4>1. CASE i = Len(sub[c].got) + 1
        BY <2>2, <2>3, <4>1
      <4>2. CASE i # Len(sub[c].got) + 1
        <5>1. i \in 1 .. Len(sub[c].got)
          BY <1>a, <4>2
        <5> QED
          BY <2>2, <3>2, <5>1
      <4> QED
        BY <4>1, <4>2
    <3> QED
      BY <2>2, <2>4, <3>3
  <2>6. sub'[c].cursor = k /\ sub'[c].upto = k /\ sub'[c].from = sub[c].from
    BY <2>1
  <2>7. sub'[c].mode = "replay" /\ log' = log
    BY <2>1
  <2> QED
    BY <2>0, <2>3, <2>5, <2>6, <2>7 DEF Place
<1>6. CASE EndsReplay(c) \/ Disconnects(c)
  <2>1. CASE sub'[c] = NoStream
    BY <1>a, <2>1 DEF Place, NoStream
  <2>2. CASE /\ sub'[c].mode = "live" /\ sub'[c].from = sub[c].from
             /\ sub'[c].cursor = sub[c].cursor /\ sub'[c].upto = sub[c].upto
    BY <1>a, <2>2 DEF Place
  <2> QED
    BY <1>6, <2>1, <2>2, ModeEffect
<1>7. CASE Delivers(c)
  <2>1. /\ log' = log /\ sub'[c].mode = "live" /\ sub'[c].from = sub[c].from
        /\ sub'[c].cursor = sub[c].cursor /\ sub'[c].upto = sub[c].upto
    BY <1>7, DeliversEffect
  <2> QED
    BY <1>a, <2>1 DEF Place
<1> QED
  BY <1>1, <1>2, <1>3, <1>4, <1>5, <1>6, <1>7, ClientCases DEF Moves

LEMMA OrderStep ==
  ASSUME Shape, Outgoing, ReadyStamps, [Next]_vars,
         NEW c \in Clients, Stamps(c), Place(c), Order(c)
  PROVE  Order(c)'
<1> DEFINE got == sub[c].got  buf == sub[c].buf  upto == sub[c].upto
           OrderIn(g, b, u) ==
             /\ Rising(g) /\ Rising(b)
             /\ \A j \in 1 .. Len(b) : b[j].id > u => AllUnder(g, b[j])
           ReadyIn(g, b, u, m) == AllUnder(b, m) /\ (m.id > u => AllUnder(g, m))
<1>a. /\ got \in Seq(Messages) /\ buf \in Seq(Messages) /\ upto \in Nat
      /\ Len(got) \in Nat /\ Len(buf) \in Nat /\ Len(log) \in Nat /\ trimmed \in Nat
      /\ \A i \in 1 .. Len(got) : got[i] \in Messages /\ got[i].id \in Nat
      /\ \A i \in 1 .. Len(buf) : buf[i] \in Messages /\ buf[i].id \in Nat
  <2>1. Len(log) \in Nat /\ trimmed \in Nat
    BY DEF Shape
  <2> QED
    BY <2>1, StreamAt
<1>b. OrderIn(got, buf, upto) /\ \A p \in Publishers : ReadyIn(got, buf, upto, Ready(p))
  BY DEF Order, Ready
<1>c. ASSUME OrderIn(sub'[c].got, sub'[c].buf, sub'[c].upto),
             \A p \in Publishers : ReadyIn(sub'[c].got, sub'[c].buf, sub'[c].upto, Ready(p)')
      PROVE  Order(c)'
  BY <1>c DEF Order, Ready
<1>d. ASSUME NEW m, m.id = 0
      PROVE  \A g, b, u : u \in Nat => ReadyIn(g, b, u, m)
  BY <1>d DEF AllUnder, Under
<1> HIDE DEF got, buf, upto
<1>1. ASSUME NEW p \in Publishers, Works(p)
      PROVE  Order(c)'
  <2>1. /\ sub' = sub /\ pub'[p].n = pub[p].n
        /\ \A q \in Publishers \ {p} : pub'[q] = pub[q]
        /\ pub'[p].id \in {0, pub[p].id, Len(log) + 1}
    BY <1>1, WorkerEffect DEF Works
  <2>2. \A q \in Publishers \ {p} : Ready(q)' = Ready(q)
    BY <2>1 DEF Ready, Event
  <2>3. ReadyIn(got, buf, upto, Ready(p)')
    <3>1. CASE pub'[p].id = 0
      BY <1>a, <1>d, <3>1 DEF Ready
    <3>2. CASE pub'[p].id = pub[p].id
      BY <1>b, <2>1, <3>2 DEF Ready, Event
    <3>3. CASE pub'[p].id = Len(log) + 1
      <4>1. \A i \in 1 .. Len(got) : got[i].id <= Len(log) \/ got[i].id = 0
        BY <1>a DEF Stamps, Stamped, StampedIn, got
      <4>2. \A i \in 1 .. Len(buf) : buf[i].id <= Len(log) \/ buf[i].id = 0
        BY <1>a DEF Stamps, Stamped, StampedIn, buf
      <4>3. Ready(p)'.id = Len(log) + 1
        BY <3>3 DEF Ready
      <4>4. ASSUME NEW s \in Seq(Messages),
                   \A i \in 1 .. Len(s) : s[i].id <= Len(log) \/ s[i].id = 0
            PROVE  AllUnder(s, Ready(p)')
        <5> Len(log) \in Nat
          BY <1>a
        <5>1. \A i \in 1 .. Len(s) : s[i].id > 0 => s[i].id < Len(log) + 1
          BY <4>4, MessageAt
        <5> QED
          BY <4>3, <5>1 DEF AllUnder, Under
      <4> QED
        BY <1>a, <4>1, <4>2, <4>4
    <3> QED
      BY <2>1, <3>1, <3>2, <3>3
  <2>4. \A q \in Publishers : ReadyIn(got, buf, upto, Ready(q)')
    BY <1>b, <2>2, <2>3
  <2> HIDE DEF OrderIn, ReadyIn
  <2> QED
    BY <1>b, <1>c, <2>1, <2>4 DEF got, buf, upto
<1>2. ASSUME NEW p \in Publishers, Sends(p)
      PROVE  Order(c)'
  <2>1. /\ Ready(p) \in Messages /\ pub'[p].id = 0
        /\ \A q \in Publishers \ {p} : pub'[q] = pub[q]
        /\ \/ sub'[c] = sub[c]
           \/ /\ sub'[c].buf = Append(buf, Ready(p))
              /\ sub'[c].got = got /\ sub'[c].upto = upto
    BY <1>2, SendsToClient DEF got, buf, upto
  <2>2. \A q \in Publishers \ {p} : Ready(q)' = Ready(q)
    BY <2>1 DEF Ready, Event
  <2>3. Ready(p)'.id = 0
    BY <2>1 DEF Ready
  <2>4. CASE sub'[c] = sub[c]
    <3>1. \A q \in Publishers : ReadyIn(got, buf, upto, Ready(q)')
      BY <1>a, <1>b, <1>d, <2>2, <2>3
    <3> HIDE DEF OrderIn, ReadyIn
    <3> QED
      BY <1>b, <1>c, <2>4, <3>1 DEF got, buf, upto
  <2>5. CASE /\ sub'[c].buf = Append(buf, Ready(p))
             /\ sub'[c].got = got /\ sub'[c].upto = upto
    <3> DEFINE b == Append(buf, Ready(p))
    <3>1. /\ Len(b) = Len(buf) + 1 /\ b[Len(buf) + 1] = Ready(p) /\ b \in Seq(Messages)
          /\ \A i \in 1 .. Len(buf) : b[i] = buf[i]
      BY <1>a, <2>1, AppendAt
    <3>2. Rising(b)
      BY <1>a, <1>b, <2>1, RisingAppend
    <3>3. \A j \in 1 .. Len(b) : b[j].id > upto => AllUnder(got, b[j])
      <4> HIDE DEF b
      <4> QED
        BY <1>a, <1>b, <3>1
    <3>4. OrderIn(got, b, upto)
      BY <1>b, <3>2, <3>3
    <3>5. ASSUME NEW q \in Publishers
          PROVE  ReadyIn(got, b, upto, Ready(q)')
      <4>1. CASE q = p
        BY <1>a, <1>d, <2>3, <4>1
      <4>2. CASE q # p
        <5>1. Under(Ready(p), Ready(q))
          BY <4>2 DEF Under, Ready, Event
        <5>2. AllUnder(b, Ready(q))
          BY <1>a, <1>b, <2>1, <5>1, AllUnderAppend
        <5> QED
          BY <1>b, <2>2, <4>2, <5>2
      <4> QED
        BY <4>1, <4>2
    <3> HIDE DEF OrderIn, ReadyIn
    <3> QED
      BY <1>c, <2>5, <3>4, <3>5
  <2> QED
    BY <2>1, <2>4, <2>5
<1>3. ASSUME pub' = pub, OrderIn(sub'[c].got, sub'[c].buf, sub'[c].upto),
             \A p \in Publishers : ReadyIn(sub'[c].got, sub'[c].buf, sub'[c].upto, Ready(p))
      PROVE  Order(c)'
  <2>1. \A p \in Publishers : Ready(p)' = Ready(p)
    BY <1>3 DEF Ready, Event
  <2> HIDE DEF OrderIn, ReadyIn
  <2> QED
    BY <1>3, <1>c, <2>1
<1>4. ASSUME pub' = pub, sub'[c].got = got, sub'[c].buf = buf, sub'[c].upto = upto
      PROVE  Order(c)'
  <2> HIDE DEF OrderIn, ReadyIn
  <2> QED
    BY <1>b, <1>3, <1>4
<1>5. CASE Still(c)
  BY <1>4, <1>5 DEF Still, got, buf, upto
<1>6. ASSUME NEW start \in Starts, Connects(c, start)
      PROVE  Order(c)'
  BY <1>4, <1>6, ConnectsEffect DEF got, buf, upto
<1>7. CASE EndsReplay(c) \/ Disconnects(c)
  <2>1. pub' = pub
    BY <1>7, ModeEffect
  <2>2. CASE sub'[c] = NoStream
    <3>1. OrderIn(<<>>, <<>>, 0) /\ \A p \in Publishers : ReadyIn(<<>>, <<>>, 0, Ready(p))
      BY DEF Rising, AllUnder
    <3>2. sub'[c].got = <<>> /\ sub'[c].buf = <<>> /\ sub'[c].upto = 0
      BY <2>2 DEF NoStream
    <3> HIDE DEF OrderIn, ReadyIn
    <3> QED
      BY <1>3, <2>1, <3>1, <3>2
  <2>3. CASE sub'[c].got = got /\ sub'[c].buf = buf /\ sub'[c].upto = upto
    BY <1>4, <2>1, <2>3
  <2> QED
    BY <1>7, <2>2, <2>3, ModeEffect DEF got, buf, upto
<1>8. CASE Replays(c)
  <2>1. PICK k \in 1 .. Len(log) :
          /\ k = (IF sub[c].cursor < trimmed THEN trimmed ELSE sub[c].cursor) + 1
          /\ sub'[c].upto = k /\ sub'[c].buf = buf /\ pub' = pub
          /\ sub'[c].got = Append(got, [ev |-> log[k], id |-> k])
          /\ [ev |-> log[k], id |-> k] \in Messages
          /\ sub[c].mode = "replay"
    BY <1>8, ReplaysEffect DEF got, buf
  <2> DEFINE m == [ev |-> log[k], id |-> k]
  <2>2. m.id = k /\ m \in Messages /\ sub'[c].got = Append(got, m) /\ k \in Nat
    BY <1>a, <2>1
  <2>3. upto < k
    <3>1. sub[c].cursor < k
      BY <1>a, <2>1, StreamAt
    <3>2. upto <= sub[c].cursor \/ upto = 0
      BY DEF Place, upto
    <3> QED
      BY <1>a, <2>2, <3>1, <3>2, StreamAt
  <2>4. \A i \in 1 .. Len(got) : got[i].id < k
    <3>1. \A i \in 1 .. Len(got) : got[i].id <= upto
      BY <2>1 DEF Place, got, upto
    <3> QED
      BY <1>a, <2>2, <2>3, <3>1
  <2> HIDE DEF m
  <2>5. ASSUME NEW l, l.id > k, l.id \in Nat
        PROVE  AllUnder(Append(got, m), l)
    <3>1. AllUnder(got, l) /\ Under(m, l)
      BY <1>a, <2>2, <2>4, <2>5 DEF AllUnder, Under
    <3> QED
      BY <1>a, <2>2, <3>1, AllUnderAppend
  <2>6. Rising(Append(got, m))
    <3>1. AllUnder(got, m)
      BY <2>2, <2>4 DEF AllUnder, Under
    <3> QED
      BY <1>a, <1>b, <2>2, <3>1, RisingAppend
  <2>7. OrderIn(Append(got, m), buf, k)
    BY <1>a, <1>b, <2>5, <2>6
  <2>8. ASSUME NEW p \in Publishers
        PROVE  ReadyIn(Append(got, m), buf, k, Ready(p))
    <3>1. Ready(p).id \in Nat
      BY DEF Ready, Shape, Marks
    <3> QED
      BY <1>b, <2>5, <3>1
  <2> HIDE DEF OrderIn, ReadyIn
  <2> QED
    BY <1>3, <2>1, <2>2, <2>7, <2>8
<1>9. CASE Delivers(c)
  <2> DEFINE m == Head(buf)
  <2>1. /\ buf # <<>> /\ sub'[c].buf = Tail(buf) /\ sub'[c].upto = upto /\ pub' = pub
        /\ \/ (m.id = 0 \/ m.id > upto) /\ sub'[c].got = Append(got, m)
           \/ sub'[c].got = got
    BY <1>9, DeliversEffect DEF got, buf, upto
  <2>2. /\ Len(buf) \in Nat \ {0} /\ Len(Tail(buf)) = Len(buf) - 1
        /\ \A i \in 1 .. Len(buf) - 1 : Tail(buf)[i] = buf[i + 1]
        /\ m = buf[1] /\ m \in Messages /\ m.id \in Nat
    BY <1>a, <2>1, TailAt DEF Messages
  <2>3. Rising(Tail(buf)) /\ \A j \in 1 .. Len(Tail(buf)) : Under(m, Tail(buf)[j])
    BY <1>a, <1>b, <2>1, RisingTail
  <2>4. OrderIn(got, Tail(buf), upto)
    BY <1>a, <1>b, <2>2, <2>3
  <2>5. \A p \in Publishers : AllUnder(Tail(buf), Ready(p)) /\ Under(m, Ready(p))
    BY <1>b, <2>2 DEF AllUnder
  <2>6. CASE sub'[c].got = got
    <3>1. \A p \in Publishers : ReadyIn(got, Tail(buf), upto, Ready(p))
      BY <1>b, <2>5
    <3> HIDE DEF OrderIn, ReadyIn
    <3> QED
      BY <1>3, <2>1, <2>4, <2>6, <3>1
  <2>7. CASE (m.id = 0 \/ m.id > upto) /\ sub'[c].got = Append(got, m)
    <3>1. AllUnder(got, m)
      <4>1. CASE m.id = 0
        BY <4>1 DEF AllUnder, Under
      <4>2. CASE m.id > upto
        BY <1>b, <2>2, <4>2
      <4> QED
        BY <2>7, <4>1, <4>2
    <3> HIDE DEF m
    <3>2. Rising(Append(got, m))
      BY <1>a, <1>b, <2>2, <3>1, RisingAppend
    <3>3. \A j \in 1 .. Len(Tail(buf)) :
            Tail(buf)[j].id > upto => AllUnder(Append(got, m), Tail(buf)[j])
      BY <1>a, <2>2, <2>3, <2>4, AllUnderAppend
    <3>4. \A p \in Publishers :
            Ready(p).id > upto => AllUnder(Append(got, m), Ready(p))
      BY <1>a, <1>b, <2>2, <2>5, AllUnderAppend
    <3>5. OrderIn(Append(got, m), Tail(buf), upto)
      BY <2>3, <3>2, <3>3
    <3>6. \A p \in Publishers : ReadyIn(Append(got, m), Tail(buf), upto, Ready(p))
      BY <2>5, <3>4
    <3> HIDE DEF OrderIn, ReadyIn
    <3> QED
      BY <1>3, <2>1, <2>7, <3>5, <3>6
  <2> QED
    BY <2>1, <2>6, <2>7
<1> QED
  BY <1>1, <1>2, <1>5, <1>6, <1>7, <1>8, <1>9, ClientCases DEF Moves

-----------------------------------------------------------------------------
(* What a connection does not miss *)

\* The messages of s with the event e, and those of them that are newer than upto.
Has(s, e) == \E i \in 1 .. Len(s) : s[i].ev = e
HasNew(s, upto, e) ==
  \E i \in 1 .. Len(s) : s[i].ev = e /\ (s[i].id = 0 \/ s[i].id > upto)

LEMMA HasAppend ==
  ASSUME NEW s \in Seq(Messages), NEW m \in Messages, NEW e
  PROVE  /\ Has(s, e) => Has(Append(s, m), e)
         /\ m.ev = e => Has(Append(s, m), e)
         /\ Has(Append(s, m), e) => Has(s, e) \/ m.ev = e
<1>1. /\ Len(s) \in Nat /\ Len(Append(s, m)) = Len(s) + 1 /\ Append(s, m)[Len(s) + 1] = m
      /\ \A i \in 1 .. Len(s) : Append(s, m)[i] = s[i]
  BY AppendAt
<1> QED
  BY <1>1 DEF Has

LEMMA HasNewAppend ==
  ASSUME NEW s \in Seq(Messages), NEW m \in Messages, NEW e, NEW upto
  PROVE  /\ HasNew(s, upto, e) => HasNew(Append(s, m), upto, e)
         /\ m.ev = e /\ (m.id = 0 \/ m.id > upto) => HasNew(Append(s, m), upto, e)
<1>1. /\ Len(s) \in Nat /\ Len(Append(s, m)) = Len(s) + 1 /\ Append(s, m)[Len(s) + 1] = m
      /\ \A i \in 1 .. Len(s) : Append(s, m)[i] = s[i]
  BY AppendAt
<1> QED
  BY <1>1 DEF HasNew

LEMMA HasNewTail ==
  ASSUME NEW s \in Seq(Messages), s # <<>>, NEW e, NEW upto, HasNew(s, upto, e)
  PROVE  \/ HasNew(Tail(s), upto, e)
         \/ Head(s).ev = e /\ (Head(s).id = 0 \/ Head(s).id > upto)
<1>1. /\ Len(s) \in Nat \ {0} /\ Len(Tail(s)) = Len(s) - 1 /\ Head(s) = s[1]
      /\ \A i \in 1 .. Len(s) - 1 : Tail(s)[i] = s[i + 1]
  BY TailAt
<1>2. PICK i \in 1 .. Len(s) : s[i].ev = e /\ (s[i].id = 0 \/ s[i].id > upto)
  BY DEF HasNew
<1>3. CASE i = 1
  BY <1>1, <1>2, <1>3
<1>4. CASE i # 1
  <2>1. i - 1 \in 1 .. Len(Tail(s)) /\ Tail(s)[i - 1] = s[i]
    BY <1>1, <1>4
  <2> QED
    BY <1>2, <2>1 DEF HasNew
<1> QED
  BY <1>3, <1>4

\* Of what the log holds, everything up to the cursor of a connection came to it; what is
\* beyond came, is coming, was kept from the channel, or is still the worker's to publish.
NoneMissed(c) ==
  sub[c].mode # "off" /\ sub[c].from >= 0 =>
    \A k \in trimmed + 1 .. Len(log) : k > sub[c].from =>
      /\ k <= sub[c].cursor => Has(sub[c].got, log[k])
      /\ k > sub[c].cursor /\ sub[c].mode = "live"
         => \/ Has(sub[c].got, log[k]) \/ HasNew(sub[c].buf, sub[c].upto, log[k])
            \/ log[k] \in unsent \/ ~Out(log[k])

LEMMA NoneMissedStep ==
  ASSUME Shape, Outgoing, LogOrder, [Next]_vars,
         NEW c \in Clients, Place(c), NoneMissed(c)
  PROVE  NoneMissed(c)'
<1> DEFINE got == sub[c].got  buf == sub[c].buf  upto == sub[c].upto  cursor == sub[c].cursor
           Reached(g, b, u, e) == Has(g, e) \/ HasNew(b, u, e)
           Later(e) == pub'[e[1]].n > e[2]  \* Out, after the step
<1>a. /\ got \in Seq(Messages) /\ buf \in Seq(Messages) /\ upto \in Nat
      /\ cursor \in Int /\ sub[c].from \in Int
      /\ Len(log) \in Nat /\ Len(log') \in Nat /\ Len(log) <= Len(log')
      /\ trimmed \in Nat /\ trimmed' \in Nat /\ trimmed <= trimmed'
      /\ \A k \in 1 .. Len(log) : log'[k] = log[k]
  <2>1. /\ Len(log) \in Nat /\ Len(log') \in Nat /\ Len(log) <= Len(log')
        /\ trimmed \in Nat /\ trimmed' \in Nat /\ trimmed <= trimmed'
        /\ \A k \in 1 .. Len(log) : log'[k] = log[k]
    BY Growth DEF Shape
  <2> QED
    BY <2>1, StreamAt
<1>b. sub[c].from <= cursor /\ cursor <= Len(log) /\ (upto <= cursor \/ upto = 0)
  BY DEF Place
<1>c. sub[c].mode # "off" /\ sub[c].from >= 0 =>
        \A k \in trimmed + 1 .. Len(log) : k > sub[c].from =>
          /\ k <= cursor => Has(got, log[k])
          /\ k > cursor /\ sub[c].mode = "live"
             => Reached(got, buf, upto, log[k]) \/ log[k] \in unsent \/ ~Out(log[k])
  BY DEF NoneMissed
<1>d. ASSUME sub'[c].mode # "off" /\ sub'[c].from >= 0 =>
               \A k \in trimmed' + 1 .. Len(log') : k > sub'[c].from =>
                 /\ k <= sub'[c].cursor => Has(sub'[c].got, log'[k])
                 /\ k > sub'[c].cursor /\ sub'[c].mode = "live"
                    => \/ Reached(sub'[c].got, sub'[c].buf, sub'[c].upto, log'[k])
                       \/ log'[k] \in unsent' \/ ~Later(log'[k])
      PROVE  NoneMissed(c)'
  BY <1>d DEF NoneMissed, Out
<1>e. \A k \in 1 .. Len(log) : log[k] \in Events /\ log[k][1] \in Publishers /\ log[k][2] \in Nat
  BY LogAt
<1> HIDE DEF got, buf, upto, cursor, Reached
<1>1. ASSUME NEW p \in Publishers, Works(p)
      PROVE  NoneMissed(c)'
  <2>1. /\ sub' = sub /\ unsent' = unsent /\ trimmed' = trimmed
        /\ pub'[p].n = pub[p].n /\ \A q \in Publishers \ {p} : pub'[q] = pub[q]
        /\ \/ log' = log
           \/ log' = Append(log, Event(p)) /\ pub[p].n <= Length
    BY <1>1, WorkerEffect DEF Works
  <2>2. \A k \in 1 .. Len(log) : Later(log[k]) => Out(log[k])
    BY <1>a, <1>e, <2>1 DEF Out
  <2>3. CASE log' = log
    BY <1>c, <1>d, <1>a, <2>1, <2>2, <2>3 DEF got, buf, upto, cursor
  <2>4. CASE log' = Append(log, Event(p)) /\ pub[p].n <= Length
    <3>1. /\ Len(log') = Len(log) + 1 /\ log'[Len(log) + 1] = Event(p)
          /\ \A k \in 1 .. Len(log) : log'[k] = log[k]
      BY <2>4, ReadyType, AppendAt DEF Shape
    <3>2. ~Later(Event(p))
      <4>1. Event(p)'[1] = p /\ Event(p)'[2] = pub'[p].n /\ pub'[p].n \in Nat
        BY Growth DEF Event, Shape, Marks
      <4>2. Event(p)' = Event(p)
        BY <2>1 DEF Event
      <4> QED
        BY <4>1, <4>2 DEF Out
    <3>3. ASSUME sub[c].mode # "off", sub[c].from >= 0,
                 NEW k \in trimmed' + 1 .. Len(log'), k > sub[c].from
          PROVE  /\ k <= cursor => Has(got, log'[k])
                 /\ k > cursor /\ sub[c].mode = "live"
                    => \/ Reached(got, buf, upto, log'[k])
                       \/ log'[k] \in unsent' \/ ~Later(log'[k])
      <4>1. CASE k \in 1 .. Len(log)
        BY <1>a, <1>c, <2>1, <2>2, <3>1, <3>3, <4>1
      <4>2. CASE k = Len(log) + 1
        BY <1>a, <1>b, <3>1, <3>2, <4>2
      <4>3. k \in 1 .. Len(log) \/ k = Len(log) + 1
        BY <1>a, <3>1
      <4> QED
        BY <4>1, <4>2, <4>3
    <3> QED
      BY <1>d, <2>1, <3>3 DEF got, buf, upto, cursor
  <2> QED
    BY <2>1, <2>3, <2>4
<1>2. ASSUME NEW p \in Publishers, Sends(p)
      PROVE  NoneMissed(c)'
  <2>1. /\ UNCHANGED <<log, trimmed, mem>> /\ unsent \subseteq unsent'
        /\ Ready(p) \in Messages /\ Event(p) \in Events /\ pub[p].n <= Length
        /\ pub'[p].n \in {pub[p].n, pub[p].n + 1}
        /\ \A q \in Publishers \ {p} : pub'[q] = pub[q]
        /\ \/ /\ sub'[c] = sub[c]
              /\ ~Hears(c) \/ Event(p) \in unsent' \/ pub'[p].n = pub[p].n
           \/ /\ sub'[c].buf = Append(buf, Ready(p))
              /\ sub'[c].mode = sub[c].mode /\ sub'[c].from = sub[c].from
              /\ sub'[c].cursor = cursor /\ sub'[c].upto = upto /\ sub'[c].got = got
    BY <1>2, SendsToClient DEF got, buf, upto, cursor
  <2>2. ASSUME NEW k \in 1 .. Len(log), Later(log[k]), ~Out(log[k])
        PROVE  log[k] = Event(p) /\ pub'[p].n # pub[p].n
    <3>1. pub[p].n \in Nat
      BY DEF Shape, Marks
    <3>2. log[k][1] = p /\ pub'[p].n = pub[p].n + 1 /\ log[k][2] = pub[p].n
      BY <1>e, <2>1, <2>2, <3>1 DEF Out
    <3>3. log[k] = <<log[k][1], log[k][2]>>
      BY <1>e DEF Events
    <3> QED
      BY <3>1, <3>2, <3>3 DEF Event
  <2>3. CASE /\ sub'[c] = sub[c]
             /\ ~Hears(c) \/ Event(p) \in unsent' \/ pub'[p].n = pub[p].n
    <3>1. ASSUME sub[c].mode # "off", sub[c].from >= 0,
                 NEW k \in trimmed + 1 .. Len(log), k > sub[c].from
          PROVE  /\ k <= cursor => Has(got, log[k])
                 /\ k > cursor /\ sub[c].mode = "live"
                    => \/ Reached(got, buf, upto, log[k])
                       \/ log[k] \in unsent' \/ ~Later(log[k])
      <4>1. k \in 1 .. Len(log)
        BY <1>a
      <4>2. Later(log[k]) /\ ~Out(log[k]) => log[k] \in unsent'
        BY <2>2, <2>3, <3>1, <4>1 DEF Hears
      <4> QED
        BY <1>c, <2>1, <3>1, <4>2
    <3> QED
      BY <1>d, <2>1, <2>3, <3>1 DEF got, buf, upto, cursor
  <2>4. CASE /\ sub'[c].buf = Append(buf, Ready(p))
             /\ sub'[c].mode = sub[c].mode /\ sub'[c].from = sub[c].from
             /\ sub'[c].cursor = cursor /\ sub'[c].upto = upto /\ sub'[c].got = got
    <3> DEFINE b == Append(buf, Ready(p))
    <3>1. ASSUME sub[c].mode # "off", sub[c].from >= 0,
                 NEW k \in trimmed + 1 .. Len(log), k > sub[c].from
          PROVE  /\ k <= cursor => Has(got, log[k])
                 /\ k > cursor /\ sub[c].mode = "live"
                    => \/ Reached(got, b, upto, log[k])
                       \/ log[k] \in unsent' \/ ~Later(log[k])
      <4>1. k \in 1 .. Len(log) /\ k \in Nat
        BY <1>a
      <4>2. Reached(got, buf, upto, log[k]) => Reached(got, b, upto, log[k])
        BY <1>a, <2>1, HasNewAppend DEF Reached
      <4>3. ASSUME k > cursor, log[k] = Event(p)
            PROVE  Reached(got, b, upto, log[k])
        <5>1. pub[p].id = 0 \/ k <= pub[p].id
          BY <4>1, <4>3 DEF LogOrder, Shape, Marks
        <5>2. pub[p].id \in Nat
          BY DEF Shape, Marks
        <5>3. pub[p].id = 0 \/ pub[p].id > upto
          BY <1>a, <1>b, <4>1, <4>3, <5>1, <5>2
        <5>4. Ready(p).ev = log[k] /\ Ready(p).id = pub[p].id
          BY <4>3 DEF Ready
        <5> QED
          BY <1>a, <2>1, <5>3, <5>4, HasNewAppend DEF Reached
      <4> HIDE DEF b
      <4>4. k > cursor /\ Later(log[k]) /\ ~Out(log[k]) => Reached(got, b, upto, log[k])
        BY <2>2, <4>1, <4>3
      <4> QED
        BY <1>c, <2>1, <3>1, <4>2, <4>4
    <3> HIDE DEF b
    <3>2. sub'[c].buf = b
      BY <2>4 DEF b
    <3> QED
      BY <1>d, <2>1, <2>4, <3>1, <3>2
  <2> QED
    BY <2>1, <2>3, <2>4
<1>3. CASE Still(c)
  <2>1. log' = log /\ unsent' = unsent /\ sub'[c] = sub[c] /\ pub' = pub
    BY <1>3 DEF Still
  <2>2. \A k \in trimmed' + 1 .. Len(log') :
          k \in trimmed + 1 .. Len(log) /\ (Later(log'[k]) <=> Out(log[k]))
    BY <1>a, <2>1 DEF Out
  <2> QED
    BY <1>c, <1>d, <2>1, <2>2 DEF got, buf, upto, cursor
<1>4. ASSUME NEW start \in Starts, Connects(c, start)
      PROVE  NoneMissed(c)'
  <2>1. /\ sub'[c].cursor = sub'[c].from
        /\ sub'[c].mode = "replay" \/ sub'[c].from = -1
        /\ sub'[c].from \in {0, mem[c].last, -1} /\ mem[c].last \in Nat
    BY <1>4, ConnectsEffect, StreamAt
  <2>2. CASE sub'[c].mode = "replay"
    BY <1>a, <1>d, <2>1, <2>2
  <2>3. CASE sub'[c].from = -1
    BY <1>d, <2>3
  <2> QED
    BY <2>1, <2>2, <2>3
<1>5. CASE Replays(c)
  <2>1. PICK n \in 1 .. Len(log) :
          /\ n = (IF cursor < trimmed THEN trimmed ELSE cursor) + 1
          /\ sub'[c].cursor = n /\ trimmed' = trimmed
          /\ sub'[c].got = Append(got, [ev |-> log[n], id |-> n])
          /\ [ev |-> log[n], id |-> n] \in Messages
          /\ log' = log /\ sub[c].mode = "replay" /\ sub'[c].mode = "replay"
          /\ sub'[c].from = sub[c].from
    BY <1>5, ReplaysEffect DEF got, cursor
  <2> DEFINE m == [ev |-> log[n], id |-> n]
  <2>2. m.ev = log[n] /\ m \in Messages /\ sub'[c].got = Append(got, m)
    BY <2>1
  <2> HIDE DEF m
  <2>3. ASSUME sub[c].from >= 0, NEW k \in trimmed + 1 .. Len(log), k > sub[c].from, k <= n
        PROVE  Has(Append(got, m), log[k])
    <3>1. CASE k <= cursor
      BY <1>a, <1>c, <2>1, <2>2, <2>3, <3>1, HasAppend
    <3>2. CASE k = n
      BY <1>a, <2>2, <3>2, HasAppend
    <3> QED
      BY <1>a, <2>1, <2>3, <3>1, <3>2
  <2> QED
    BY <1>d, <2>1, <2>2, <2>3
<1>6. CASE EndsReplay(c) \/ Disconnects(c)
  <2>1. CASE sub'[c] = NoStream
    BY <1>d, <2>1 DEF NoStream
  <2>2. CASE /\ sub[c].mode = "replay" /\ sub'[c].mode = "live"
             /\ cursor >= Len(log) \/ trimmed >= Len(log)
             /\ sub'[c].from = sub[c].from /\ sub'[c].cursor = cursor /\ sub'[c].got = got
             /\ log' = log /\ trimmed' = trimmed
    BY <1>a, <1>c, <1>d, <2>2
  <2> QED
    BY <1>6, <2>1, <2>2, ModeEffect DEF got, cursor
<1>7. CASE Delivers(c)
  <2> DEFINE m == Head(buf)
  <2>1. /\ buf # <<>> /\ sub'[c].buf = Tail(buf) /\ sub'[c].upto = upto
        /\ sub'[c].cursor = cursor /\ sub'[c].from = sub[c].from
        /\ sub[c].mode = "live" /\ sub'[c].mode = "live"
        /\ UNCHANGED <<log, trimmed, pub, unsent>>
        /\ \/ sub'[c].got = Append(got, m)
           \/ m.id > 0 /\ m.id <= upto /\ sub'[c].got = got
    BY <1>7, DeliversEffect DEF got, buf, upto, cursor
  <2>2. m \in Messages /\ m.id \in Nat
    BY <1>a, <2>1, TailAt, MessageAt
  <2>3. ASSUME NEW e
        PROVE  /\ Has(got, e) => Has(sub'[c].got, e)
               /\ HasNew(buf, upto, e) => Reached(sub'[c].got, Tail(buf), upto, e)
    <3>1. CASE sub'[c].got = Append(got, m)
      <4>1. /\ Has(got, e) => Has(sub'[c].got, e)
            /\ m.ev = e => Has(sub'[c].got, e)
        BY <1>a, <2>2, <3>1, HasAppend
      <4>2. HasNew(buf, upto, e) => HasNew(Tail(buf), upto, e) \/ m.ev = e
        BY <1>a, <2>1, HasNewTail
      <4> QED
        BY <4>1, <4>2 DEF Reached
    <3>2. CASE m.id > 0 /\ m.id <= upto /\ sub'[c].got = got
      BY <1>a, <2>1, <2>2, <3>2, HasNewTail DEF Reached
    <3> QED
      BY <2>1, <3>1, <3>2
  <2>4. \A e : Reached(got, buf, upto, e) => Reached(sub'[c].got, Tail(buf), upto, e)
    BY <2>3 DEF Reached
  <2>5. \A e : Later(e) <=> Out(e)
    BY <2>1 DEF Out
  <2> QED
    BY <1>c, <1>d, <2>1, <2>3, <2>4, <2>5
<1> QED
  BY <1>1, <1>2, <1>3, <1>4, <1>5, <1>6, <1>7, ClientCases DEF Moves

-----------------------------------------------------------------------------
(* What a client remembers, and where it resumes *)

Bounds ==
  /\ trimmed <= Len(log)
  /\ \A c \in Clients : mem[c].resumed \subseteq 1 .. Len(log)

LEMMA BoundsStep ==
  ASSUME Shape, Outgoing, Bounds, \A c \in Clients : Stamps(c), [Next]_vars
  PROVE  Bounds'
<1>a. /\ Len(log) \in Nat /\ Len(log') \in Nat /\ Len(log) <= Len(log')
      /\ trimmed \in Nat /\ trimmed' \in Nat
  BY Growth DEF Shape
<1>1. trimmed' <= Len(log')
  <2>1. trimmed' = trimmed \/ Trims
    <3>1. ASSUME NEW p \in Publishers, Works(p) \/ Sends(p)
          PROVE  trimmed' = trimmed
      BY <3>1 DEF Works, Sends, AppendsToLog, SkipsLog, Settles, CancelsPending, Dies,
                  Publishes, Retries
    <3>2. ASSUME NEW c \in Clients, Moves(c)
          PROVE  trimmed' = trimmed
      BY <3>2 DEF Moves, Connects, Replays, EndsReplay, Delivers, Disconnects
    <3> QED
      BY <3>1, <3>2 DEF Next, vars, Joins, Reads, Tires, Asks, Works, Sends, Moves
  <2>2. CASE Trims
    BY <1>a, <2>2 DEF Trims
  <2> QED
    BY <1>a, <2>1, <2>2 DEF Bounds
<1>2. ASSUME NEW c \in Clients
      PROVE  mem'[c].resumed \subseteq 1 .. Len(log')
  <2>1. mem[c].resumed \subseteq 1 .. Len(log')
    BY <1>a DEF Bounds
  <2>2. \/ /\ mem'[c].resumed \subseteq mem[c].resumed \cup {mem[c].last}
           /\ mem[c].last > 0
        \/ mem'[c].resumed = mem[c].resumed
    <3>1. ASSUME NEW p \in Publishers, Works(p) \/ Sends(p)
          PROVE  mem' = mem
      BY <3>1, WorkerEffect, SendsToClient DEF Works
    <3>2. ASSUME NEW start \in Starts, Connects(c, start)
          PROVE  \/ /\ mem'[c].resumed \subseteq mem[c].resumed \cup {mem[c].last}
                    /\ mem[c].last > 0
                 \/ mem'[c].resumed = mem[c].resumed
      BY <3>2, ConnectsEffect
    <3>3. CASE Replays(c) \/ EndsReplay(c) \/ Delivers(c) \/ Disconnects(c)
      BY <3>3, ReplaysEffect, ModeEffect, DeliversEffect
    <3> QED
      BY <3>1, <3>2, <3>3, ClientCases DEF Moves, Still
  <2>3. mem[c].last \in Nat /\ mem[c].last <= Len(log)
    BY StreamAt DEF Stamps
  <2> QED
    BY <1>a, <2>1, <2>2, <2>3
<1> QED
  BY <1>1, <1>2 DEF Bounds

\* What a connection has, its client has.
Keeps(c) == \A i \in 1 .. Len(sub[c].got) : sub[c].got[i].ev \in mem[c].seen

LEMMA KeepsStep ==
  ASSUME Shape, Outgoing, [Next]_vars, NEW c \in Clients, Keeps(c)
  PROVE  Keeps(c)'
<1> DEFINE got == sub[c].got  seen == mem[c].seen
<1>a. /\ got \in Seq(Messages) /\ Len(got) \in Nat
      /\ \A i \in 1 .. Len(got) : got[i].ev \in seen
  BY StreamAt DEF Keeps
<1>b. ASSUME NEW m \in Messages, sub'[c].got = Append(got, m), mem'[c].seen = seen \cup {m.ev}
      PROVE  Keeps(c)'
  <2>1. /\ Len(Append(got, m)) = Len(got) + 1 /\ Append(got, m)[Len(got) + 1] = m
        /\ \A i \in 1 .. Len(got) : Append(got, m)[i] = got[i]
    BY <1>a, AppendAt
  <2> HIDE DEF got, seen
  <2>2. \A i \in 1 .. Len(got) + 1 : Append(got, m)[i].ev \in seen \cup {m.ev}
    BY <1>a, <2>1
  <2> QED
    BY <1>b, <2>1, <2>2 DEF Keeps
<1>c. ASSUME sub'[c].got = got \/ sub'[c].got = <<>>, seen \subseteq mem'[c].seen
      PROVE  Keeps(c)'
  <2> HIDE DEF got, seen
  <2> QED
    BY <1>a, <1>c DEF Keeps
<1>d. seen \subseteq mem'[c].seen
  BY Growth
<1>1. ASSUME NEW p \in Publishers, Works(p)
      PROVE  Keeps(c)'
  BY <1>1, <1>c, <1>d, WorkerEffect DEF Works
<1>2. ASSUME NEW p \in Publishers, Sends(p)
      PROVE  Keeps(c)'
  BY <1>2, <1>c, <1>d, SendsToClient
<1>3. CASE Still(c)
  BY <1>3, <1>c, <1>d DEF Still
<1>4. ASSUME NEW start \in Starts, Connects(c, start)
      PROVE  Keeps(c)'
  BY <1>4, <1>c, <1>d, ConnectsEffect
<1>5. CASE Replays(c)
  <2>1. PICK k \in 1 .. Len(log) :
          /\ sub'[c].got = Append(got, [ev |-> log[k], id |-> k])
          /\ [ev |-> log[k], id |-> k] \in Messages
          /\ mem'[c].seen = seen \cup {log[k]}
    BY <1>5, ReplaysEffect
  <2> QED
    BY <1>b, <2>1
<1>6. CASE EndsReplay(c) \/ Disconnects(c)
  BY <1>6, <1>c, <1>d, ModeEffect DEF NoStream
<1>7. CASE Delivers(c)
  <2> DEFINE m == Head(sub[c].buf)
  <2>1. m \in Messages
    BY <1>7, StreamAt, TailAt, DeliversEffect
  <2>2. \/ sub'[c].got = Append(got, m) /\ mem'[c].seen = seen \cup {m.ev}
        \/ sub'[c].got = got
    BY <1>7, DeliversEffect
  <2> QED
    BY <1>b, <1>c, <1>d, <2>1, <2>2
<1> QED
  BY <1>1, <1>2, <1>3, <1>4, <1>5, <1>6, <1>7, ClientCases DEF Moves

\* The channel keeps the order of a run's events, and none is ahead of the run.
BufOrder(c) ==
  /\ \A i, j \in 1 .. Len(sub[c].buf) :
       i < j /\ sub[c].buf[i].ev[1] = sub[c].buf[j].ev[1]
       => sub[c].buf[i].ev[2] <= sub[c].buf[j].ev[2]
  /\ \A i \in 1 .. Len(sub[c].buf) : sub[c].buf[i].ev[2] <= pub[sub[c].buf[i].ev[1]].n

LEMMA BufOrderStep ==
  ASSUME Shape, Outgoing, [Next]_vars, NEW c \in Clients, BufOrder(c)
  PROVE  BufOrder(c)'
<1> DEFINE buf == sub[c].buf
           Before(b) == \A i, j \in 1 .. Len(b) :
                          i < j /\ b[i].ev[1] = b[j].ev[1] => b[i].ev[2] <= b[j].ev[2]
           Behind(b) == \A i \in 1 .. Len(b) : b[i].ev[2] <= pub'[b[i].ev[1]].n
<1>a. buf \in Seq(Messages) /\ Len(buf) \in Nat /\ \A i \in 1 .. Len(buf) : buf[i] \in Messages
  BY StreamAt
<1>b. /\ Before(buf)
      /\ \A i \in 1 .. Len(buf) : buf[i].ev[2] <= pub[buf[i].ev[1]].n
  BY DEF BufOrder
<1>c. \A p \in Publishers : pub[p].n \in Nat /\ pub'[p].n \in Nat /\ pub[p].n <= pub'[p].n
  BY Growth DEF Shape, Marks
<1>d. /\ \A m \in Messages : m.ev[1] \in Publishers /\ m.ev[2] \in Nat
      /\ \A i \in 1 .. Len(buf) : buf[i].ev[1] \in Publishers /\ buf[i].ev[2] \in Nat
  BY <1>a, MessageAt
<1>e. ASSUME Before(sub'[c].buf), Behind(sub'[c].buf)
      PROVE  BufOrder(c)'
  BY <1>e DEF BufOrder
<1> HIDE DEF buf
<1>f. Behind(buf)
  <2> SUFFICES ASSUME NEW i \in 1 .. Len(buf) PROVE buf[i].ev[2] <= pub'[buf[i].ev[1]].n
    OBVIOUS
  <2> DEFINE p == buf[i].ev[1]  n == buf[i].ev[2]
  <2>1. n <= pub[p].n /\ p \in Publishers /\ n \in Nat
    BY <1>b, <1>d
  <2> HIDE DEF p, n
  <2>2. n <= pub'[p].n
    BY <1>c, <2>1
  <2> QED
    BY <2>2 DEF p, n
<1>g. ASSUME sub'[c].buf = buf
      PROVE  BufOrder(c)'
  <2> HIDE DEF Before, Behind
  <2> QED
    BY <1>b, <1>e, <1>f, <1>g
<1>1. ASSUME NEW p \in Publishers, Works(p)
      PROVE  BufOrder(c)'
  BY <1>1, <1>g, WorkerEffect DEF Works, buf
<1>2. ASSUME NEW p \in Publishers, Sends(p)
      PROVE  BufOrder(c)'
  <2>1. /\ Ready(p) \in Messages
        /\ sub'[c].buf = buf \/ sub'[c].buf = Append(buf, Ready(p))
    BY <1>2, SendsToClient DEF buf
  <2>2. CASE sub'[c].buf = Append(buf, Ready(p))
    <3> DEFINE b == Append(buf, Ready(p))
    <3>1. /\ Len(b) = Len(buf) + 1 /\ b[Len(buf) + 1] = Ready(p)
          /\ \A i \in 1 .. Len(buf) : b[i] = buf[i]
      BY <1>a, <2>1, AppendAt
    <3>2. Ready(p).ev[1] = p /\ Ready(p).ev[2] = pub[p].n
      BY DEF Ready, Event
    <3> HIDE DEF b
    <3>3. Before(b)
      BY <1>a, <1>b, <3>1, <3>2
    <3>4. Behind(b)
      BY <1>a, <1>c, <1>f, <3>1, <3>2
    <3>5. sub'[c].buf = b
      BY <2>2 DEF b
    <3> HIDE DEF Before, Behind
    <3> QED
      BY <1>e, <3>3, <3>4, <3>5
  <2> QED
    BY <1>g, <2>1, <2>2
<1>3. CASE Still(c)
  BY <1>3, <1>g DEF Still, buf
<1>4. ASSUME NEW start \in Starts, Connects(c, start)
      PROVE  BufOrder(c)'
  BY <1>4, <1>g, ConnectsEffect DEF buf
<1>5. CASE Replays(c)
  BY <1>5, <1>g, ReplaysEffect DEF buf
<1>6. CASE EndsReplay(c) \/ Disconnects(c)
  <2>1. CASE sub'[c] = NoStream
    BY <1>e, <2>1 DEF NoStream
  <2> QED
    BY <1>6, <1>g, <2>1, ModeEffect DEF buf
<1>7. CASE Delivers(c)
  <2>1. buf # <<>> /\ sub'[c].buf = Tail(buf)
    BY <1>7, DeliversEffect DEF buf
  <2>2. /\ Len(buf) \in Nat \ {0} /\ Len(Tail(buf)) = Len(buf) - 1
        /\ \A i \in 1 .. Len(buf) - 1 : Tail(buf)[i] = buf[i + 1]
    BY <1>a, <2>1, TailAt
  <2>3. Before(Tail(buf)) /\ Behind(Tail(buf))
    BY <1>b, <1>f, <2>2
  <2> HIDE DEF Before, Behind
  <2> QED
    BY <1>e, <2>1, <2>3
<1> QED
  BY <1>1, <1>2, <1>3, <1>4, <1>5, <1>6, <1>7, ClientCases DEF Moves

\* The event of entry k came to the client, or was kept from the channel, or the client
\* resumed past it from an event of another run.
Had(c, k) ==
  \/ log[k] \in mem[c].seen \cup unsent
  \/ \E r \in mem[c].resumed : k < r /\ log[r][1] # log[k][1]

LEMMA HadStays ==
  ASSUME Shape, Outgoing, Bounds, [Next]_vars, NEW c \in Clients,
         NEW k \in 1 .. Len(log), Had(c, k)
  PROVE  Had(c, k)'
<1>1. log'[k] = log[k] /\ mem[c].seen \subseteq mem'[c].seen /\ unsent \subseteq unsent'
  BY Growth
<1>2. \A r \in mem[c].resumed : r \in mem'[c].resumed /\ log'[r] = log[r]
  BY Growth DEF Bounds
<1> QED
  BY <1>1, <1>2 DEF Had

\* Up to the event it would resume from a client had every event of that run, and up to
\* where its connection began every event of all the runs.
Resumes(c) ==
  /\ \A k \in trimmed + 1 .. mem[c].last : log[k][1] = log[mem[c].last][1] => Had(c, k)
  /\ sub[c].mode # "off" =>
       sub[c].from >= 0 /\ \A k \in trimmed + 1 .. sub[c].from : Had(c, k)

LEMMA ResumesStep ==
  ASSUME "live" \notin Starts, Shape, Outgoing, LogOrder, Bounds, [Next]_vars,
         NEW c \in Clients,
         Stamps(c), Place(c), BufOrder(c), NoneMissed(c), Keeps(c), Resumes(c)
  PROVE  Resumes(c)'
<1> DEFINE last == mem[c].last  from == sub[c].from
<1>a. /\ Len(log) \in Nat /\ Len(log') \in Nat /\ Len(log) <= Len(log')
      /\ trimmed \in Nat /\ trimmed' \in Nat /\ trimmed <= trimmed'
      /\ last \in Nat /\ from \in Int /\ sub[c].cursor \in Int
  <2>1. /\ Len(log) \in Nat /\ Len(log') \in Nat /\ Len(log) <= Len(log')
        /\ trimmed \in Nat /\ trimmed' \in Nat /\ trimmed <= trimmed'
    BY Growth DEF Shape
  <2> QED
    BY <2>1, StreamAt
<1>b. last <= Len(log) /\ from <= sub[c].cursor /\ sub[c].cursor <= Len(log)
  BY DEF Stamps, Place
<1>c. \A k \in 1 .. Len(log) : Had(c, k) => Had(c, k)'
  BY HadStays
<1>d. ASSUME sub[c].mode # "off", NEW k \in trimmed + 1 .. Len(log), k <= sub[c].cursor
      PROVE  Had(c, k)
  <2>1. CASE k <= from
    BY <1>a, <1>d, <2>1 DEF Resumes
  <2>2. CASE k > from
    <3>1. Has(sub[c].got, log[k])
      BY <1>a, <1>d, <2>2 DEF NoneMissed, Resumes
    <3> QED
      BY <3>1 DEF Has, Keeps, Had
  <2> QED
    BY <1>a, <2>1, <2>2
<1>e. ASSUME mem'[c].last = last
      PROVE  \A k \in trimmed' + 1 .. mem'[c].last :
               log'[k][1] = log'[mem'[c].last][1] => Had(c, k)'
  <2> SUFFICES ASSUME NEW k \in trimmed' + 1 .. last, log'[k][1] = log'[last][1]
               PROVE  Had(c, k)'
    BY <1>e
  <2> HIDE DEF last
  <2>0. last \in Int /\ k \in Int /\ k <= last /\ k > trimmed'
    BY <1>a
  <2>1. k \in trimmed + 1 .. last /\ k \in 1 .. Len(log) /\ last \in 1 .. Len(log)
    BY <1>a, <1>b, <2>0
  <2>2. log[k][1] = log[last][1]
    BY <2>1, Growth
  <2>3. Had(c, k)
    BY <2>1, <2>2 DEF Resumes, last
  <2> QED
    BY <1>c, <2>1, <2>3
<1>f. ASSUME \/ sub'[c].mode = "off"
             \/ sub[c].mode # "off" /\ sub'[c].from = from
      PROVE  sub'[c].mode # "off" =>
               sub'[c].from >= 0 /\ \A k \in trimmed' + 1 .. sub'[c].from : Had(c, k)'
  <2> SUFFICES ASSUME sub'[c].mode # "off", sub[c].mode # "off", sub'[c].from = from
               PROVE  from >= 0 /\ \A k \in trimmed' + 1 .. from : Had(c, k)'
    BY <1>f
  <2>1. from >= 0 /\ \A k \in trimmed + 1 .. from : Had(c, k)
    BY DEF Resumes
  <2> HIDE DEF from
  <2>2. ASSUME NEW k \in trimmed' + 1 .. from
        PROVE  k \in trimmed + 1 .. from /\ k \in 1 .. Len(log)
    <3>1. from \in Int /\ k \in Int /\ k <= from /\ k > trimmed'
      BY <1>a, <2>2
    <3> QED
      BY <1>a, <1>b, <3>1
  <2> QED
    BY <1>c, <2>1, <2>2
<1>g. ASSUME mem'[c].last = last,
             \/ sub'[c].mode = "off"
             \/ sub[c].mode # "off" /\ sub'[c].from = from
      PROVE  Resumes(c)'
  BY <1>e, <1>f, <1>g DEF Resumes
<1>1. ASSUME NEW p \in Publishers, Works(p)
      PROVE  Resumes(c)'
  BY <1>1, <1>g, WorkerEffect DEF Works
<1>2. ASSUME NEW p \in Publishers, Sends(p)
      PROVE  Resumes(c)'
  BY <1>2, <1>g, SendsToClient DEF Hears
<1>3. CASE Still(c)
  BY <1>3, <1>g DEF Still
<1>4. CASE EndsReplay(c) \/ Disconnects(c)
  BY <1>4, <1>g, ModeEffect DEF NoStream
<1>5. ASSUME NEW start \in Starts, Connects(c, start)
      PROVE  Resumes(c)'
  <2>1. /\ log' = log /\ trimmed' = trimmed /\ mem'[c].last = last
        /\ \/ sub'[c].from = 0
           \/ /\ sub'[c].from = last /\ last > 0
              /\ mem'[c].resumed = mem[c].resumed \cup {last}
    BY <1>5, ConnectsEffect
  <2>2. CASE sub'[c].from = 0
    BY <1>a, <1>e, <2>1, <2>2 DEF Resumes
  <2>3. CASE /\ sub'[c].from = last /\ last > 0
             /\ mem'[c].resumed = mem[c].resumed \cup {last}
    <3>1. ASSUME NEW k \in trimmed + 1 .. last
          PROVE  Had(c, k)'
      <4>1. k \in 1 .. Len(log)
        BY <1>a, <1>b
      <4>2. CASE log[k][1] = log[last][1]
        <5>1. Had(c, k)
          BY <4>2 DEF Resumes
        <5> QED
          BY <1>c, <4>1, <5>1
      <4>3. CASE log[k][1] # log[last][1]
        <5>1. k < last
          BY <1>a, <4>3
        <5>2. last \in mem'[c].resumed /\ log' = log
          BY <2>1, <2>3
        <5> QED
          BY <4>3, <5>1, <5>2 DEF Had
      <4> QED
        BY <4>2, <4>3
    <3> HIDE DEF last
    <3> QED
      BY <1>a, <1>e, <2>1, <2>3, <3>1 DEF Resumes
  <2> QED
    BY <2>1, <2>2, <2>3
<1>6. CASE Replays(c)
  <2>1. PICK n \in 1 .. Len(log) :
          /\ n = (IF sub[c].cursor < trimmed THEN trimmed ELSE sub[c].cursor) + 1
          /\ mem'[c].seen = mem[c].seen \cup {log[n]} /\ mem'[c].last = n
          /\ log' = log /\ trimmed' = trimmed /\ sub[c].mode = "replay"
          /\ sub'[c].from = from
    BY <1>6, ReplaysEffect
  <2>2. ASSUME NEW k \in trimmed + 1 .. n
        PROVE  Had(c, k)'
    <3>1. CASE k = n
      BY <2>1, <3>1 DEF Had
    <3>2. CASE k # n
      <4>1. k \in trimmed + 1 .. Len(log) /\ k \in 1 .. Len(log) /\ k <= sub[c].cursor
        BY <1>a, <2>1, <3>2
      <4> QED
        BY <1>c, <1>d, <2>1, <4>1
    <3> QED
      BY <3>1, <3>2
  <2> QED
    BY <1>f, <2>1, <2>2 DEF Resumes
<1>7. CASE Delivers(c)
  <2> DEFINE buf == sub[c].buf  m == Head(buf)
  <2>1. /\ buf # <<>> /\ sub[c].mode = "live" /\ sub'[c].from = from
        /\ log' = log /\ trimmed' = trimmed
        /\ \/ /\ mem'[c].last = last
           \/ /\ m.id > 0 /\ mem'[c].last = m.id /\ mem'[c].seen = mem[c].seen \cup {m.ev}
    BY <1>7, DeliversEffect
  <2>2. CASE mem'[c].last = last
    BY <1>g, <2>1, <2>2
  <2>3. CASE m.id > 0 /\ mem'[c].last = m.id /\ mem'[c].seen = mem[c].seen \cup {m.ev}
    <3>1. /\ Len(buf) \in Nat \ {0} /\ m = buf[1] /\ m \in Messages /\ m.id \in Nat
          /\ \A i \in 1 .. Len(buf) : buf[i] \in Messages
      BY <2>1, StreamAt, TailAt, MessageAt
    <3>2. m.id \in 1 .. Len(log) /\ log[m.id] = m.ev
      BY <2>3, <3>1 DEF Stamps, Stamped, StampedIn
    <3>3. ASSUME NEW k \in trimmed + 1 .. m.id, log[k][1] = log[m.id][1]
          PROVE  Had(c, k)'
      <4> DEFINE p == m.ev[1]
      <4>1. /\ k \in 1 .. Len(log) /\ k \in trimmed + 1 .. Len(log)
            /\ log[k] \in Events /\ m.ev \in Events /\ log[k][1] = p
            /\ p \in Publishers /\ log[k][2] \in Nat /\ m.ev[2] \in Nat /\ pub[p].n \in Nat
        <5>1. k \in 1 .. Len(log) /\ k \in trimmed + 1 .. Len(log)
          BY <1>a, <3>2
        <5>2. m.ev \in Events /\ p \in Publishers /\ m.ev[2] \in Nat
          BY <3>1, MessageAt
        <5>3. log[k] \in Events /\ log[k][2] \in Nat
          BY <5>1, LogAt
        <5>4. pub[p].n \in Nat
          BY <5>2 DEF Shape, Marks
        <5> QED
          BY <3>2, <3>3, <5>1, <5>2, <5>3, <5>4
      <4>2. log[k][2] <= m.ev[2] /\ m.ev[2] <= pub[p].n
        <5>1. m.ev[2] <= pub[p].n
          BY <3>1 DEF BufOrder
        <5>2. CASE k < m.id
          BY <3>2, <3>3, <4>1, <5>2 DEF LogOrder
        <5>3. CASE k = m.id
          <6>1. log[k] = m.ev
            BY <3>2, <5>3
          <6> HIDE DEF m
          <6>2. log[k][2] = m.ev[2]
            BY <6>1
          <6> QED
            BY <4>1, <5>1, <6>2
        <5> QED
          BY <3>1, <5>1, <5>2, <5>3, <4>1
      <4>3. CASE log[k][2] = m.ev[2]
        <5>1. log[k] = m.ev
          BY <4>1, <4>3 DEF Events
        <5> QED
          BY <2>1, <2>3, <5>1 DEF Had
      <4>4. CASE log[k][2] < m.ev[2]
        <5>1. Out(log[k])
          BY <4>1, <4>2, <4>4 DEF Out
        <5>2. CASE k <= sub[c].cursor
          BY <1>c, <1>d, <2>1, <4>1, <5>2
        <5>3. CASE k > sub[c].cursor
          <6>1. \/ Has(sub[c].got, log[k]) \/ HasNew(buf, sub[c].upto, log[k])
                \/ log[k] \in unsent
            <7>1. k > from /\ from >= 0
              BY <1>a, <1>b, <2>1, <4>1, <5>3 DEF Resumes
            <7> QED
              BY <2>1, <4>1, <5>1, <5>3, <7>1 DEF NoneMissed
          <6>2. CASE HasNew(buf, sub[c].upto, log[k])
            <7>1. PICK i \in 1 .. Len(buf) : buf[i].ev = log[k]
              BY <6>2 DEF HasNew
            <7>2. CASE i = 1
              BY <3>1, <4>1, <4>4, <7>1, <7>2
            <7>3. CASE i > 1
              <8>1. m.ev[2] <= buf[i].ev[2]
                <9>1. 1 \in 1 .. Len(buf) /\ 1 < i
                  BY <3>1, <7>3
                <9>2. buf[1].ev[1] = buf[i].ev[1]
                  BY <3>1, <4>1, <7>1
                <9> QED
                  BY <3>1, <9>1, <9>2 DEF BufOrder
              <8> QED
                BY <4>1, <4>4, <7>1, <8>1
            <7> QED
              BY <3>1, <7>2, <7>3
          <6>3. CASE Has(sub[c].got, log[k]) \/ log[k] \in unsent
            BY <1>c, <4>1, <6>3 DEF Has, Keeps, Had
          <6> QED
            BY <6>1, <6>2, <6>3
        <5> QED
          BY <1>a, <4>1, <5>2, <5>3
      <4> QED
        BY <4>1, <4>2, <4>3, <4>4
    <3> HIDE DEF m
    <3>4. sub'[c].mode # "off" =>
            sub'[c].from >= 0 /\ \A k \in trimmed' + 1 .. sub'[c].from : Had(c, k)'
      BY <1>f, <2>1
    <3> QED
      BY <2>1, <2>3, <3>3, <3>4 DEF Resumes
  <2> QED
    BY <2>1, <2>2, <2>3
<1> QED
  BY <1>1, <1>2, <1>3, <1>4, <1>5, <1>6, <1>7, ClientCases DEF Moves

-----------------------------------------------------------------------------
(* The followers *)

In(s, e) == \E i \in 1 .. Len(s) : s[i] = e

\* Each event the run has published since a follower joined reached it, is buffered for
\* it, or was kept from the channel; and so was every event before a buffered one.
Following(f) ==
  LET p == RunOf[f] got == follow[f].got buf == follow[f].buf IN
  /\ follow[f].step = "off" => buf = <<>>
  /\ follow[f].step # "off" => follow[f].since <= pub[p].n
  /\ follow[f].step \in {"reading", "asking"} =>
       /\ \A n \in follow[f].since .. pub[p].n - 1 :
            <<p, n>> \in unsent \/ In(got, <<p, n>>) \/ In(buf, <<p, n>>)
       /\ \A j \in 1 .. Len(buf) :
            /\ buf[j][1] = p
            /\ \A n \in follow[f].since .. buf[j][2] - 1 :
                 \/ <<p, n>> \in unsent \/ In(got, <<p, n>>)
                 \/ \E i \in 1 .. j - 1 : buf[i] = <<p, n>>
  /\ follow[f].step = "ended" =>
       \A n \in follow[f].since .. Length - 1 : <<p, n>> \in unsent \/ In(got, <<p, n>>)

LEMMA FollowingStep ==
  ASSUME Shape, Outgoing, [Next]_vars, NEW f \in Followers, Following(f)
  PROVE  Following(f)'
<1> DEFINE p == RunOf[f]  got == follow[f].got  buf == follow[f].buf
           since == follow[f].since  step == follow[f].step  n0 == pub[p].n
           Seen(u, g, n) == <<p, n>> \in u \/ In(g, <<p, n>>)
           All(u, g, b, s, m) == \A n \in s .. m - 1 : Seen(u, g, n) \/ In(b, <<p, n>>)
           Each(u, g, b, s) ==
             \A j \in 1 .. Len(b) :
               /\ b[j][1] = p
               /\ \A n \in s .. b[j][2] - 1 : Seen(u, g, n) \/ \E i \in 1 .. j - 1 : b[i] = <<p, n>>
           Ended(u, g, s) == \A n \in s .. Length - 1 : Seen(u, g, n)
<1>a. /\ p \in Publishers /\ n0 \in Nat /\ pub'[p].n \in Nat /\ n0 <= pub'[p].n
      /\ since \in Nat /\ got \in Seq(Events) /\ buf \in Seq(Events)
      /\ Len(got) \in Nat /\ Len(buf) \in Nat /\ Length \in Nat
      /\ unsent \subseteq unsent'
  <2>1. p \in Publishers /\ Length \in Nat
    BY ConstantsAssumption
  <2>2. follow[f] \in Readers /\ pub[p] \in Marks
    BY <2>1 DEF Shape
  <2>3. n0 \in Nat /\ pub'[p].n \in Nat /\ n0 <= pub'[p].n /\ unsent \subseteq unsent'
    <3>1. Shape' /\ pub[p].n <= pub'[p].n /\ unsent \subseteq unsent'
      BY <2>1, Growth
    <3>2. pub'[p] \in Marks
      BY <2>1, <3>1 DEF Shape
    <3> QED
      BY <2>2, <3>1, <3>2 DEF Marks
  <2>4. since \in Nat /\ got \in Seq(Events) /\ buf \in Seq(Events)
    BY <2>2 DEF Readers
  <2> QED
    BY <2>1, <2>3, <2>4
<1>b. /\ step = "off" => buf = <<>>
      /\ step # "off" => since <= n0
      /\ step \in {"reading", "asking"} =>
           All(unsent, got, buf, since, n0) /\ Each(unsent, got, buf, since)
      /\ step = "ended" => Ended(unsent, got, since)
  BY DEF Following
<1>c. ASSUME /\ follow'[f].step = "off" => follow'[f].buf = <<>>
             /\ follow'[f].step # "off" => follow'[f].since <= pub'[p].n
             /\ follow'[f].step \in {"reading", "asking"} =>
                  /\ All(unsent', follow'[f].got, follow'[f].buf, follow'[f].since, pub'[p].n)
                  /\ Each(unsent', follow'[f].got, follow'[f].buf, follow'[f].since)
             /\ follow'[f].step = "ended" => Ended(unsent', follow'[f].got, follow'[f].since)
      PROVE  Following(f)'
  BY <1>c DEF Following
<1>d. /\ \A n : Seen(unsent, got, n) => Seen(unsent', got, n)
      /\ Each(unsent, got, buf, since) => Each(unsent', got, buf, since)
      /\ Ended(unsent, got, since) => Ended(unsent', got, since)
  BY <1>a
<1> HIDE DEF p, got, buf, since, step, n0
\* the follower and its run stand still
<1>e. ASSUME follow'[f] = follow[f], pub'[p].n = n0
      PROVE  Following(f)'
  <2>1. All(unsent, got, buf, since, n0) => All(unsent', got, buf, since, n0)
    BY <1>d
  <2> HIDE DEF All, Each, Ended
  <2> QED
    BY <1>b, <1>c, <1>d, <1>e, <2>1 DEF got, buf, since, step
<1>1. ASSUME NEW q \in Publishers, Works(q)
      PROVE  Following(f)'
  BY <1>1, <1>a, <1>e, WorkerEffect DEF Works, n0
<1>2. ASSUME NEW q \in Publishers, Sends(q)
      PROVE  Following(f)'
  <2>1. pub[q].n <= Length
    BY <1>2 DEF Outgoing, Sends, Publishes, Retries
  <2>2. /\ \A r \in Publishers \ {q} : pub'[r] = pub[r]
        /\ \/ pub'[q].n = pub[q].n + 1 /\ Sent(q)
           \/ /\ pub'[q].n = pub[q].n + 1 /\ UNCHANGED <<sub, follow>>
              /\ Event(q) \in unsent'
           \/ pub'[q].n = pub[q].n /\ (Sent(q) \/ UNCHANGED <<sub, follow>>)
    BY <1>2, <2>1, SenderEffect DEF Sends
  <2>3. Sent(q) =>
          /\ follow'[f].buf = Heard(q, f) /\ follow'[f].step = step
          /\ follow'[f].since = since /\ follow'[f].got = got
    BY <2>1, SentEffect DEF step, since, got
  <2>4. CASE q # p
    <3>1. pub'[p].n = n0
      BY <1>a, <2>2, <2>4 DEF n0
    <3>2. CASE Sent(q)
      <4>1. follow'[f].buf = buf
        BY <2>3, <2>4, <3>2 DEF Heard, Follows, p, buf
      <4>2. All(unsent, got, buf, since, n0) => All(unsent', got, buf, since, n0)
        BY <1>d
      <4> HIDE DEF All, Each, Ended
      <4> QED
        BY <1>b, <1>c, <1>d, <2>3, <3>1, <3>2, <4>1, <4>2
    <3> QED
      BY <1>e, <2>2, <3>1, <3>2
  <2>5. CASE q = p
    <3>0. Event(q) = <<p, n0>> /\ Event(q) \in Events
      BY <2>1, <2>5, ReadyType DEF Event, n0
    <3>1. pub'[p].n \in {n0, n0 + 1}
      BY <2>2, <2>5 DEF n0
    <3>2. CASE Sent(q) /\ step \in {"reading", "asking"}
      <4> DEFINE b == Append(buf, <<p, n0>>)
      <4>1. follow'[f].buf = b
        BY <2>3, <2>5, <3>0, <3>2 DEF Heard, Follows, p, buf, step
      <4>2. /\ Len(b) = Len(buf) + 1 /\ b[Len(buf) + 1] = <<p, n0>>
            /\ \A i \in 1 .. Len(buf) : b[i] = buf[i]
        BY <1>a, <3>0, AppendAt
      <4> HIDE DEF b
      <4>3. \A e : In(buf, e) => In(b, e)
        BY <1>a, <4>2 DEF In
      <4>4. In(b, <<p, n0>>)
        BY <1>a, <4>2 DEF In
      <4>5. All(unsent', got, b, since, pub'[p].n)
        <5> SUFFICES ASSUME NEW n \in since .. pub'[p].n - 1
                     PROVE  Seen(unsent', got, n) \/ In(b, <<p, n>>)
          OBVIOUS
        <5>1. CASE n = n0
          BY <4>4, <5>1
        <5>2. CASE n # n0
          <6>1. n \in since .. n0 - 1
            BY <1>a, <3>1, <5>2
          <6> QED
            BY <1>b, <1>d, <3>2, <4>3, <6>1
        <5> QED
          BY <5>1, <5>2
      <4>6. Each(unsent', got, b, since)
        <5> SUFFICES ASSUME NEW j \in 1 .. Len(b)
                     PROVE  /\ b[j][1] = p
                            /\ \A n \in since .. b[j][2] - 1 :
                                 Seen(unsent', got, n) \/ \E i \in 1 .. j - 1 : b[i] = <<p, n>>
          OBVIOUS
        <5>1. CASE j \in 1 .. Len(buf)
          <6>1. /\ buf[j][1] = p
                /\ \A n \in since .. buf[j][2] - 1 :
                     Seen(unsent', got, n) \/ \E i \in 1 .. j - 1 : buf[i] = <<p, n>>
            BY <1>b, <1>d, <3>2, <5>1
          <6>2. \A i \in 1 .. j - 1 : b[i] = buf[i]
            BY <1>a, <4>2, <5>1
          <6> HIDE DEF Seen
          <6> QED
            BY <4>2, <5>1, <6>1, <6>2
        <5>2. CASE j = Len(buf) + 1
          <6>1. b[j][1] = p /\ b[j][2] = n0
            BY <4>2, <5>2
          <6>2. \A n \in since .. n0 - 1 : Seen(unsent', got, n) \/ In(buf, <<p, n>>)
            BY <1>b, <1>d, <3>2
          <6>3. \A e : In(buf, e) => \E i \in 1 .. j - 1 : b[i] = e
            BY <1>a, <4>2, <5>2 DEF In
          <6> HIDE DEF Seen
          <6> QED
            BY <6>1, <6>2, <6>3
        <5>3. j \in 1 .. Len(buf) \/ j = Len(buf) + 1
          BY <1>a, <4>2
        <5> QED
          BY <5>1, <5>2, <5>3
      <4> HIDE DEF All, Each, Ended
      <4>7. since <= pub'[p].n
        BY <1>a, <1>b, <3>2
      <4> QED
        BY <1>c, <2>3, <3>2, <4>1, <4>5, <4>6, <4>7
    <3>3. CASE ~(step \in {"reading", "asking"})
      <4>1. /\ follow'[f].buf = buf /\ follow'[f].step = step
            /\ follow'[f].since = since /\ follow'[f].got = got
        BY <2>2, <2>3, <3>3 DEF Heard, Follows, buf, step, since, got
      <4>2. step # "off" => since <= pub'[p].n
        BY <1>a, <1>b
      <4> HIDE DEF All, Each, Ended
      <4> QED
        BY <1>b, <1>c, <1>d, <3>3, <4>1, <4>2
    <3>4. CASE follow' = follow /\ (pub'[p].n = n0 \/ <<p, n0>> \in unsent')
      <4>1. step \in {"reading", "asking"} => All(unsent', got, buf, since, pub'[p].n)
        BY <1>a, <1>b, <1>d, <3>1, <3>4
      <4>2. step # "off" => since <= pub'[p].n
        BY <1>a, <1>b
      <4> HIDE DEF All, Each, Ended
      <4> QED
        BY <1>b, <1>c, <1>d, <3>4, <4>1, <4>2 DEF buf, step, since, got
    <3> QED
      BY <2>2, <2>5, <3>0, <3>2, <3>3, <3>4 DEF n0
  <2> QED
    BY <2>4, <2>5
<1>3. CASE \/ UNCHANGED vars \/ Trims
           \/ \E c \in Clients : Moves(c)
  <2>1. follow' = follow /\ pub' = pub
    BY <1>3 DEF vars, Trims, Moves, Connects, Replays, EndsReplay, Delivers, Disconnects
  <2> QED
    BY <1>e, <2>1 DEF n0
<1>4. ASSUME NEW g \in Followers, Joins(g) \/ Reads(g) \/ Tires(g) \/ Asks(g)
      PROVE  Following(f)'
  <2>0. pub' = pub /\ unsent' = unsent /\ pub'[p].n = n0
    BY <1>4, FollowerEffect DEF n0
  <2>1. CASE g # f
    <3>1. follow'[f] = follow[f]
      BY <1>4, <2>1, FollowerEffect
    <3> QED
      BY <1>e, <2>0, <3>1
  <2>2. CASE g = f
    <3>1. \/ /\ step = "off" /\ follow'[f].step = "reading"
             /\ follow'[f].since = n0
             /\ follow'[f].buf = buf /\ follow'[f].got = got
          \/ /\ step = "reading" /\ buf # <<>> /\ follow'[f].since = since
             /\ Done(Head(buf)) /\ follow'[f].step = "ended" /\ follow'[f].got = got
          \/ /\ step = "reading" /\ buf # <<>> /\ follow'[f].since = since
             /\ follow'[f].step = "reading" /\ follow'[f].buf = Tail(buf)
             /\ follow'[f].got = Append(got, Head(buf))
          \/ /\ step \in {"reading", "asking"}
             /\ follow'[f].step \in {"reading", "asking"} /\ follow'[f].since = since
             /\ follow'[f].buf = buf /\ follow'[f].got = got
          \/ follow'[f].step = "quit" /\ follow'[f].since = 0
      BY <1>4, <2>2, FollowerEffect DEF step, since, got, buf, n0, p
    <3>2. CASE /\ step = "off" /\ follow'[f].step = "reading"
               /\ follow'[f].since = n0
               /\ follow'[f].buf = buf /\ follow'[f].got = got
      <4>1. All(unsent', got, <<>>, n0, n0) /\ Each(unsent', got, <<>>, n0)
        BY <1>a
      <4> HIDE DEF All, Each, Ended
      <4> QED
        BY <1>a, <1>b, <1>c, <2>0, <3>2, <4>1
    <3>3. CASE /\ step = "reading" /\ buf # <<>> /\ follow'[f].since = since
               /\ Done(Head(buf)) /\ follow'[f].step = "ended" /\ follow'[f].got = got
      <4>1. Head(buf) = buf[1] /\ 1 \in 1 .. Len(buf)
        BY <1>a, <3>3, TailAt
      <4>2. buf[1][2] = Length
        BY <3>3, <4>1 DEF Done
      <4>3. Ended(unsent', got, since)
        BY <1>a, <1>b, <1>d, <3>3, <4>1, <4>2
      <4> HIDE DEF All, Each, Ended
      <4> QED
        BY <1>b, <1>c, <2>0, <3>3, <4>3
    <3>4. CASE /\ step = "reading" /\ buf # <<>> /\ follow'[f].since = since
               /\ follow'[f].step = "reading" /\ follow'[f].buf = Tail(buf)
               /\ follow'[f].got = Append(got, Head(buf))
      <4> DEFINE h == Head(buf)  t == Tail(buf)  g2 == Append(got, h)
      <4>1. /\ Len(buf) \in Nat \ {0} /\ Len(t) = Len(buf) - 1 /\ h = buf[1] /\ h \in Events
            /\ \A i \in 1 .. Len(buf) - 1 : t[i] = buf[i + 1]
        BY <1>a, <3>4, TailAt
      <4>2. /\ Len(g2) = Len(got) + 1 /\ g2[Len(got) + 1] = h
            /\ \A i \in 1 .. Len(got) : g2[i] = got[i]
        BY <1>a, <4>1, AppendAt
      <4> HIDE DEF h, t, g2
      <4>3. In(g2, h) /\ \A e : In(got, e) => In(g2, e)
        BY <1>a, <4>2 DEF In
      <4>4. \A n : Seen(unsent, got, n) => Seen(unsent', g2, n)
        BY <2>0, <4>3
      <4>5. \A e : In(buf, e) => In(t, e) \/ e = h
        <5> SUFFICES ASSUME NEW e, NEW i \in 1 .. Len(buf), buf[i] = e, e # h
                     PROVE  In(t, e)
          BY DEF In
        <5>1. i - 1 \in 1 .. Len(t) /\ t[i - 1] = e
          BY <4>1
        <5> QED
          BY <5>1 DEF In
      <4>6. All(unsent', g2, t, since, n0)
        BY <1>b, <3>4, <4>3, <4>4, <4>5
      <4>7. Each(unsent', g2, t, since)
        <5> SUFFICES ASSUME NEW j \in 1 .. Len(t)
                     PROVE  /\ t[j][1] = p
                            /\ \A n \in since .. t[j][2] - 1 :
                                 Seen(unsent', g2, n) \/ \E i \in 1 .. j - 1 : t[i] = <<p, n>>
          OBVIOUS
        <5>1. j + 1 \in 1 .. Len(buf) /\ t[j] = buf[j + 1] /\ (j + 1) - 1 = j
          BY <4>1
        <5>2. /\ t[j][1] = p
              /\ \A n \in since .. t[j][2] - 1 :
                   Seen(unsent, got, n) \/ \E i \in 1 .. j : buf[i] = <<p, n>>
          BY <1>b, <3>4, <5>1
        <5>3. ASSUME NEW n, NEW i \in 1 .. j, buf[i] = <<p, n>>
              PROVE  Seen(unsent', g2, n) \/ \E l \in 1 .. j - 1 : t[l] = <<p, n>>
          <6>1. CASE i = 1
            BY <4>1, <4>3, <5>3, <6>1
          <6>2. CASE i # 1
            <7>1. i - 1 \in 1 .. j - 1 /\ t[i - 1] = buf[i]
              BY <4>1, <6>2
            <7> QED
              BY <5>3, <7>1
          <6> QED
            BY <6>1, <6>2
        <5> HIDE DEF Seen
        <5> QED
          BY <4>4, <5>2, <5>3
      <4>8. follow'[f].buf = t /\ follow'[f].got = g2
        BY <3>4 DEF t, g2, h
      <4> HIDE DEF All, Each, Ended
      <4> QED
        BY <1>b, <1>c, <2>0, <3>4, <4>6, <4>7, <4>8
    <3>5. CASE /\ step \in {"reading", "asking"}
               /\ follow'[f].step \in {"reading", "asking"} /\ follow'[f].since = since
               /\ follow'[f].buf = buf /\ follow'[f].got = got
      <4> HIDE DEF All, Each, Ended
      <4> QED
        BY <1>b, <1>c, <2>0, <3>5
    <3>6. CASE follow'[f].step = "quit" /\ follow'[f].since = 0
      <4> HIDE DEF All, Each, Ended
      <4> QED
        BY <1>a, <1>c, <2>0, <3>6
    <3> QED
      BY <3>1, <3>2, <3>3, <3>4, <3>5, <3>6
  <2> QED
    BY <2>1, <2>2
<1> QED
  BY <1>1, <1>2, <1>3, <1>4 DEF Next, Works, Sends, Moves

-----------------------------------------------------------------------------
(* The invariant and the theorems *)

Connection(c) ==
  Stamps(c) /\ Place(c) /\ Order(c) /\ NoneMissed(c) /\ Keeps(c) /\ BufOrder(c)

Inv ==
  /\ Shape /\ Outgoing /\ LogOrder /\ ReadyStamps /\ Bounds
  /\ \A c \in Clients : Connection(c)
  /\ \A f \in Followers : Following(f)

LEMMA InitInv == Init => Inv
<1> SUFFICES ASSUME Init PROVE Inv
  OBVIOUS
<1>1. Shape
  BY InitShape
<1>2. log = <<>> /\ Len(log) = 0 /\ trimmed = 0
  BY DEF Init
<1>3. \A p \in Publishers : pub[p].n = 1 /\ pub[p].step = "ready" /\ pub[p].id = 0
  BY DEF Init
<1>4. \A c \in Clients : sub[c] = NoStream /\ mem[c].last = 0 /\ mem[c].resumed = {}
  BY DEF Init
<1>5. Outgoing /\ LogOrder /\ Bounds
  BY <1>2, <1>3, <1>4 DEF Outgoing, LogOrder, Bounds
<1>6. \A p \in Publishers : Ready(p).id = 0
  BY <1>3 DEF Ready
<1>7. ReadyStamps
  BY <1>6 DEF ReadyStamps, Stamped, StampedIn
<1>8. ASSUME NEW c \in Clients
      PROVE  Connection(c)
  <2>1. /\ sub[c].mode = "off" /\ sub[c].got = <<>> /\ sub[c].buf = <<>>
        /\ sub[c].from = 0 /\ sub[c].cursor = 0 /\ sub[c].upto = 0
        /\ sub[c] = NoStream /\ mem[c].last = 0
    BY <1>4 DEF NoStream
  <2>2. Stamps(c) /\ Place(c) /\ Keeps(c) /\ NoneMissed(c) /\ BufOrder(c)
    BY <1>2, <2>1 DEF Stamps, Place, Keeps, NoneMissed, BufOrder
  <2>3. Order(c)
    BY <1>3, <2>1 DEF Order, Rising, AllUnder
  <2> QED
    BY <2>2, <2>3 DEF Connection
<1>9. ASSUME NEW f \in Followers
      PROVE  Following(f)
  <2>1. follow[f].step = "off" /\ follow[f].buf = <<>>
    BY DEF Init, Idle
  <2> QED
    BY <2>1 DEF Following
<1> QED
  BY <1>1, <1>5, <1>7, <1>8, <1>9 DEF Inv

LEMMA NextInv == Inv /\ [Next]_vars => Inv'
<1> SUFFICES ASSUME Inv, [Next]_vars PROVE Inv'
  OBVIOUS
<1>1. Shape' /\ Outgoing' /\ LogOrder' /\ ReadyStamps'
  BY Growth, LogOrderStep, ReadyStampsStep DEF Inv
<1>2. Bounds'
  BY BoundsStep DEF Inv, Connection
<1>3. ASSUME NEW c \in Clients
      PROVE  Connection(c)'
  <2>1. Shape /\ Outgoing /\ LogOrder /\ ReadyStamps
    BY DEF Inv
  <2>2. Stamps(c) /\ Place(c) /\ Order(c) /\ NoneMissed(c) /\ Keeps(c) /\ BufOrder(c)
    BY DEF Inv, Connection
  <2>3. Stamps(c)' /\ Place(c)' /\ Order(c)'
    BY <2>1, <2>2, StampsStep, PlaceStep, OrderStep
  <2>4. NoneMissed(c)' /\ Keeps(c)' /\ BufOrder(c)'
    BY <2>1, <2>2, NoneMissedStep, KeepsStep, BufOrderStep
  <2> QED
    BY <2>3, <2>4 DEF Connection
<1>4. ASSUME NEW f \in Followers
      PROVE  Following(f)'
  BY FollowingStep DEF Inv
<1> QED
  BY <1>1, <1>2, <1>3, <1>4 DEF Inv

LEMMA Invariance == Spec => []Inv
<1> QED
  BY InitInv, NextInv, PTL DEF Spec

LEMMA BoundedTypes == Inv => TypeOK
<1> SUFFICES ASSUME Inv PROVE TypeOK
  OBVIOUS
<1>1. log \in Seq(Events) /\ Len(log) \in Nat /\ trimmed \in 0 .. Len(log)
      /\ unsent \subseteq Events /\ faults \in 0 .. MaxFaults /\ streams \in 0 .. MaxStreams
  BY DEF Inv, Shape, Bounds
<1>2. ASSUME NEW p \in Publishers
      PROVE  /\ pub[p].n \in 1 .. Length + 1
             /\ pub[p].step \in {"ready", "logged", "gone"} /\ pub[p].id \in 0 .. Len(log)
             /\ pub[p].final \in BOOLEAN
  <2>1. pub[p] \in Marks
    BY DEF Inv, Shape
  <2>2. pub[p].id > 0 => pub[p].id <= Len(log)
    BY DEF Inv, ReadyStamps, Stamped, StampedIn, Ready
  <2> QED
    BY <1>1, <2>1, <2>2 DEF Marks
<1>3. ASSUME NEW c \in Clients
      PROVE  /\ sub[c].mode \in {"off", "replay", "live"}
             /\ sub[c].from \in -1 .. Len(log)
             /\ sub[c].cursor \in -1 .. Len(log) /\ sub[c].upto \in 0 .. Len(log)
             /\ sub[c].buf \in Seq(Messages) /\ sub[c].got \in Seq(Messages)
             /\ mem[c].last \in 0 .. Len(log) /\ mem[c].seen \subseteq Events
             /\ mem[c].resumed \subseteq 1 .. Len(log)
  <2>1. sub[c] \in Streams /\ mem[c] \in Memories
    BY DEF Inv, Shape
  <2>2. /\ sub[c].mode \in {"off", "replay", "live"} /\ sub[c].from \in Int
        /\ sub[c].cursor \in Int /\ sub[c].upto \in Nat
        /\ sub[c].buf \in Seq(Messages) /\ sub[c].got \in Seq(Messages)
        /\ mem[c].last \in Nat /\ mem[c].seen \subseteq Events
    BY <2>1 DEF Streams, Memories
  <2>3. /\ sub[c].from >= -1 /\ sub[c].from <= sub[c].cursor /\ sub[c].cursor <= Len(log)
        /\ sub[c].upto <= sub[c].cursor \/ sub[c].upto = 0
        /\ mem[c].last <= Len(log) /\ mem[c].resumed \subseteq 1 .. Len(log)
    BY DEF Inv, Connection, Place, Stamps, Bounds
  <2>4. sub[c].from \in -1 .. Len(log) /\ sub[c].cursor \in -1 .. Len(log)
    BY <1>1, <2>2, <2>3
  <2>5. sub[c].upto \in 0 .. Len(log) /\ mem[c].last \in 0 .. Len(log)
    BY <1>1, <2>2, <2>3
  <2> QED
    BY <2>2, <2>3, <2>4, <2>5
<1>4. ASSUME NEW f \in Followers
      PROVE  /\ follow[f].step \in {"off", "reading", "asking", "ended", "quit"}
             /\ follow[f].buf \in Seq(Events) /\ follow[f].got \in Seq(Events)
  <2>1. follow[f] \in Readers
    BY DEF Inv, Shape
  <2> QED
    BY <2>1 DEF Readers
<1> QED
  BY <1>1, <1>2, <1>3, <1>4 DEF TypeOK

\* The variables keep their types: the ids that the runs, the connections and the
\* clients hold are of entries the log has had.
THEOREM TypeCorrect == Spec => []TypeOK
<1> QED
  BY Invariance, BoundedTypes, PTL

\* The messages of a connection that carry an id are the entries of those ids, and of
\* one run they come in the order of the log.
LEMMA InTheLog ==
  ASSUME Inv, NEW c \in Clients,
         NEW i \in 1 .. Len(sub[c].got), NEW j \in 1 .. Len(sub[c].got), i < j,
         sub[c].got[i].id > 0, sub[c].got[j].id > 0
  PROVE  LET m == sub[c].got[i] l == sub[c].got[j] IN
         /\ m.id \in 1 .. Len(log) /\ l.id \in 1 .. Len(log)
         /\ log[m.id] = m.ev /\ log[l.id] = l.ev
         /\ m.ev[1] = l.ev[1] => m.id < l.id
<1>1. Stamps(c) /\ Order(c) /\ Shape
  BY DEF Inv, Connection
<1>2. sub[c].got[i].id \in Nat /\ sub[c].got[j].id \in Nat
  BY <1>1, StreamAt
<1>3. Under(sub[c].got[i], sub[c].got[j])
  BY <1>1 DEF Order, Rising
<1> QED
  BY <1>1, <1>2, <1>3 DEF Stamps, Stamped, StampedIn, Under

\* No client gets an entry twice on one connection, from wherever it began, though the
\* log and the channel both have it and the worker may send it again.
THEOREM NoDuplicates == Spec => []OnceEach
<1>1. Inv => OnceEach
  <2> SUFFICES ASSUME Inv, NEW c \in Clients,
                      NEW i \in DOMAIN sub[c].got, NEW j \in DOMAIN sub[c].got,
                      sub[c].got[i].id > 0, sub[c].got[i].id = sub[c].got[j].id
               PROVE  i = j
    BY DEF OnceEach
  <2>1. i \in 1 .. Len(sub[c].got) /\ j \in 1 .. Len(sub[c].got) /\ Len(sub[c].got) \in Nat
    BY StreamAt DEF Inv
  <2>2. ASSUME NEW a \in 1 .. Len(sub[c].got), NEW b \in 1 .. Len(sub[c].got), a < b,
               sub[c].got[a].id > 0, sub[c].got[a].id = sub[c].got[b].id
        PROVE  FALSE
    <3>1. /\ sub[c].got[a].ev = sub[c].got[b].ev
          /\ sub[c].got[a].ev[1] = sub[c].got[b].ev[1] => sub[c].got[a].id < sub[c].got[b].id
          /\ sub[c].got[a].id \in 1 .. Len(log)
      BY <2>2, InTheLog
    <3> QED
      BY <2>2, <3>1
  <2>3. i < j \/ j < i \/ i = j
    BY <2>1
  <2> QED
    BY <2>1, <2>2, <2>3
<1> QED
  BY <1>1, Invariance, PTL

\* Of one run a connection gets the entries in the order they were published, from the
\* log or from the channel.
THEOREM PublicationOrder == Spec => []InOrder
<1>1. Inv => InOrder
  <2> SUFFICES ASSUME Inv, NEW c \in Clients,
                      NEW i \in DOMAIN sub[c].got, NEW j \in DOMAIN sub[c].got, i < j,
                      sub[c].got[i].id > 0, sub[c].got[j].id > 0,
                      sub[c].got[i].ev[1] = sub[c].got[j].ev[1]
               PROVE  sub[c].got[i].ev[2] <= sub[c].got[j].ev[2]
    BY DEF InOrder
  <2> DEFINE m == sub[c].got[i]  l == sub[c].got[j]
  <2>1. i \in 1 .. Len(sub[c].got) /\ j \in 1 .. Len(sub[c].got)
    BY StreamAt DEF Inv
  <2>2. /\ m.id \in 1 .. Len(log) /\ l.id \in 1 .. Len(log)
        /\ log[m.id] = m.ev /\ log[l.id] = l.ev /\ m.id < l.id
    BY <2>1, InTheLog
  <2>3. m.ev[1] = l.ev[1]
    OBVIOUS
  <2> HIDE DEF m, l
  <2>4. log[m.id][1] = log[l.id][1]
    BY <2>2, <2>3
  <2>5. log[m.id][2] <= log[l.id][2]
    BY <2>2, <2>4 DEF Inv, LogOrder
  <2> QED
    BY <2>2, <2>5 DEF m, l
<1> QED
  BY <1>1, Invariance, PTL

\* A client that asked for everything and has caught up has every event that the log
\* still holds and that reached the channel.
THEOREM NothingBetween == Spec => []CaughtUpHasAll
<1>1. Inv => CaughtUpHasAll
  <2> SUFFICES ASSUME Inv, NEW c \in Clients, CaughtUp(c), sub[c].from = 0,
                      NEW ev \in Events, Out(ev), Logged(ev), ev \notin unsent
               PROVE  ev \in Got(c)
    BY DEF CaughtUpHasAll
  <2>1. PICK k \in trimmed + 1 .. Len(log) : log[k] = ev
    BY DEF Logged
  <2>2. Shape /\ NoneMissed(c) /\ trimmed \in Nat /\ Len(log) \in Nat
    BY DEF Inv, Connection, Shape
  <2>3. sub[c].mode = "live" /\ sub[c].buf = <<>>
    BY DEF CaughtUp
  <2>4. ~HasNew(sub[c].buf, sub[c].upto, ev)
    BY <2>3 DEF HasNew
  <2>5. k > 0 /\ k \in Int /\ sub[c].cursor \in Int
    BY <2>2, StreamAt
  <2>6. Has(sub[c].got, ev)
    BY <2>1, <2>2, <2>3, <2>4, <2>5 DEF NoneMissed
  <2> QED
    BY <2>2, <2>6, StreamAt DEF Has, Got
<1> QED
  BY <1>1, Invariance, PTL

\* A follower that the done marker ends has every event of its run that reached the
\* channel after it joined.
THEOREM MarkerComesLast == Spec => []DoneComesLast
<1>1. Inv => DoneComesLast
  <2> SUFFICES ASSUME Inv, NEW f \in Followers, follow[f].step = "ended",
                      NEW n \in follow[f].since .. Length - 1
               PROVE  \/ <<RunOf[f], n>> \in unsent
                      \/ \E i \in DOMAIN follow[f].got : follow[f].got[i] = <<RunOf[f], n>>
    BY DEF DoneComesLast
  <2>1. <<RunOf[f], n>> \in unsent \/ In(follow[f].got, <<RunOf[f], n>>)
    BY DEF Inv, Following
  <2>2. follow[f].got \in Seq(Events)
    BY DEF Inv, Shape, Readers
  <2> QED
    BY <2>1, <2>2 DEF In
<1> QED
  BY <1>1, Invariance, PTL

LEMMA Resumption ==
  ASSUME "live" \notin Starts
  PROVE  Spec => [](\A c \in Clients : Resumes(c))
<1>1. Init => \A c \in Clients : Resumes(c)
  <2> SUFFICES ASSUME Init, NEW c \in Clients PROVE Resumes(c)
    OBVIOUS
  <2>1. sub[c].mode = "off" /\ mem[c].last = 0 /\ trimmed = 0
    BY DEF Init, NoStream
  <2> QED
    BY <2>1 DEF Resumes
<1>2. Inv /\ (\A c \in Clients : Resumes(c)) /\ [Next]_vars => (\A c \in Clients : Resumes(c))'
  BY ResumesStep DEF Inv, Connection
<1> QED
  BY <1>1, <1>2, Invariance, PTL DEF Spec

\* What a client lacks that only ever began at the beginning or resumed is what another
\* run's event had overtaken on the channel when it resumed.
THEOREM OnlyOvertakenSkipped ==
  ASSUME "live" \notin Starts
  PROVE  Spec => []SkipsOvertaken
<1>1. Inv /\ (\A c \in Clients : Resumes(c)) => SkipsOvertaken
  <2> SUFFICES ASSUME Inv, NEW c \in Clients, Resumes(c), CaughtUp(c), sub[c].from > 0,
                      NEW k \in trimmed + 1 .. Len(log),
                      Out(log[k]), log[k] \notin unsent \cup mem[c].seen
               PROVE  \E from \in mem[c].resumed : k < from /\ log[from][1] # log[k][1]
    BY DEF SkipsOvertaken
  <2>1. Shape /\ NoneMissed(c) /\ Keeps(c)
    BY DEF Inv, Connection
  <2>2. sub[c].mode = "live" /\ sub[c].buf = <<>>
    BY DEF CaughtUp
  <2>3. /\ trimmed \in Nat /\ k \in Int /\ sub[c].from \in Int /\ sub[c].cursor \in Int
    BY <2>1, StreamAt DEF Shape
  <2>4. CASE k <= sub[c].from
    <3>1. Had(c, k)
      BY <2>2, <2>3, <2>4 DEF Resumes
    <3> QED
      BY <3>1 DEF Had
  <2>5. CASE k > sub[c].from
    <3>1. ~HasNew(sub[c].buf, sub[c].upto, log[k])
      BY <2>2 DEF HasNew
    <3>2. Has(sub[c].got, log[k])
      BY <2>1, <2>2, <2>3, <2>5, <3>1 DEF NoneMissed
    <3> QED
      BY <2>1, <3>2 DEF Has, Keeps
  <2> QED
    BY <2>3, <2>4, <2>5
<1> QED
  BY <1>1, Invariance, Resumption, PTL

=============================================================================
