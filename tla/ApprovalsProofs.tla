-------------------------- MODULE ApprovalsProofs --------------------------
(***************************************************************************)
(* Safety of approvals, for any interrupts, pages and requests, whatever   *)
(* fails.                                                                  *)
(*                                                                         *)
(* What a page has of the thread is an account of the log: of a part it    *)
(* has been replayed and a part it has heard (Recorded), of the end of a   *)
(* run (Called, Loads), and of what its last render made of it (Offered,   *)
(* Unlocked); a page that has heard nothing has what it was hydrated with  *)
(* (Opening).  Of the log it is enough that what is open was asked for,    *)
(* and that the last end of a run says whether anything was left open      *)
(* (Chronicle).  Since all of it is about one page, a step of another      *)
(* page, of the server or of the graph disturbs it only through the log    *)
(* and the open interrupts (FollowingKept, FollowingGrown), and a step of  *)
(* the page itself is looked at alone.                                     *)
(***************************************************************************)
EXTENDS Approvals, FiniteSetTheorems, SequenceTheorems, TLAPS

\* The elements of a finite set, each in its place.
LEMMA SetToSeqIs ==
  ASSUME NEW S, IsFiniteSet(S)
  PROVE  /\ Cardinality(S) \in Nat
         /\ SetToSeq(S) \in [1 .. Cardinality(S) -> S]
         /\ \A x \in S : \E k \in 1 .. Cardinality(S) : SetToSeq(S)[k] = x
<1> DEFINE n == Cardinality(S)
           s == SetToSeq(S)
<1>1. n \in Nat /\ ExistsBijection(1 .. n, S)
  BY FS_CardinalityType
<1>2. \E f \in [1 .. n -> S] : IsInjective(f)
  BY <1>1 DEF ExistsBijection, Bijection, Injection
<1>3. s \in [1 .. n -> S] /\ IsInjective(s)
  BY <1>2 DEF SetToSeq
<1>4. s \in Injection(1 .. n, S)
  BY <1>3 DEF Injection
<1>5. Cardinality(1 .. n) = n
  BY <1>1, FS_Interval
<1>6. s \in Surjection(1 .. n, S)
  BY <1>4, <1>5, FS_Injection
<1> QED
  BY <1>1, <1>3, <1>6 DEF Surjection

-----------------------------------------------------------------------------
(* Types *)

Marks == {"none", "new", "old"}
Answers == UNION {[1 .. Total[i] -> Marks] : i \in Interrupts}

EventRecords ==
  [kind : {"running", "input", "ended"}, i : Interrupts \cup {Message}, calls : BOOLEAN]

RequestRecords ==
  [page : Pages, what : Interrupts \cup {Message}, given : Answers \cup {<<>>}, heard : Nat,
   step : Steps, kind : {"none", "resume", "turn", "stray"}]

PageRecords ==
  [up : BOOLEAN, at : Nat, live : Nat, seen : Nat, due : BOOLEAN, root : SUBSET Interrupts,
   record : SUBSET Interrupts, loading : BOOLEAN, calls : BOOLEAN,
   responded : SUBSET Interrupts, queued : [Interrupts -> Answers],
   shown : SUBSET Interrupts, locked : BOOLEAN]

Shape ==
  /\ open \subseteq Interrupts
  /\ log \in Seq(EventRecords) /\ Len(log) >= 1
  /\ \A k \in 1 .. Len(log) : log[k].kind = "input" => log[k].i \in Interrupts
  /\ requests \in Seq(RequestRecords)
  /\ page \in [Pages -> PageRecords]
  /\ \A p \in Pages : \A i \in Interrupts : page[p].queued[i] \in [1 .. Total[i] -> Marks]

LEMMA MessageIs == \A i \in Interrupts : i # Message
BY ConstantsAssumption

LEMMA LogIs ==
  ASSUME Shape, NEW k \in 1 .. Len(log)
  PROVE  /\ log[k] \in EventRecords /\ log[k].kind \in {"running", "input", "ended"}
         /\ log[k].kind = "input" => log[k].i \in Interrupts
         /\ log[k].calls \in BOOLEAN
<1>1. log[k] \in EventRecords
  BY DEF Shape
<1> QED
  BY <1>1 DEF Shape, EventRecords

LEMMA EventIs ==
  ASSUME NEW kind \in {"running", "input", "ended"}, NEW i \in Interrupts \cup {Message},
         NEW calls \in BOOLEAN
  PROVE  /\ Event(kind, i, calls) \in EventRecords
         /\ Event(kind, i, calls).kind = kind /\ Event(kind, i, calls).i = i
         /\ Event(kind, i, calls).calls = calls
BY DEF Event, EventRecords

LEMMA RunningIs ==
  /\ Event("running", Message, FALSE) \in EventRecords
  /\ Event("running", Message, FALSE).kind = "running"
BY DEF Event, EventRecords

LEMMA EndedIs ==
  ASSUME NEW calls \in BOOLEAN
  PROVE  Ended(calls) \in EventRecords /\ Ended(calls).kind = "ended" /\ Ended(calls).calls = calls
BY DEF Ended, Event, EventRecords

LEMMA UndecidedIs ==
  /\ Undecided \in [Interrupts -> Answers]
  /\ \A i \in Interrupts : /\ Undecided[i] \in [1 .. Total[i] -> Marks]
                           /\ \A k \in 1 .. Total[i] : Undecided[i][k] = "none"
<1>1. \A i \in Interrupts : Undecided[i] = [k \in 1 .. Total[i] |-> "none"]
  BY DEF Undecided
<1>2. \A i \in Interrupts : Undecided[i] \in [1 .. Total[i] -> Marks]
  BY <1>1 DEF Marks
<1> QED
  BY <1>1, <1>2 DEF Undecided, Answers

\* What a page is before it is opened.
LEMMA LoadedIs ==
  /\ Loaded \in PageRecords
  /\ ~Loaded.up /\ Loaded.at = 0 /\ Loaded.live = 0 /\ Loaded.seen = 0 /\ Loaded.root = {}
  /\ Loaded.record = {} /\ Loaded.responded = {} /\ Loaded.shown = {}
  /\ Loaded.queued = Undecided
<1> HIDE DEF Undecided
<1> QED
  BY UndecidedIs DEF Loaded, PageRecords

LEMMA BegunIs ==
  /\ Begun \in PageRecords
  /\ Begun.up /\ Begun.at = 0 /\ Begun.live = 0 /\ Begun.seen = 0 /\ Begun.root = {}
  /\ Begun.record = {} /\ Begun.responded = {} /\ Begun.shown = {} /\ ~Begun.due
  /\ Begun.queued = Undecided /\ Begun.locked /\ Begun.loading
BY LoadedIs DEF Begun, Loaded, PageRecords

\* A render changes what is shown, what is queued, and the lock.
LEMMA RenderedIs ==
  ASSUME NEW q \in PageRecords
  PROVE  /\ Rendered(q) \in PageRecords
         /\ Rendered(q).up = q.up /\ Rendered(q).at = q.at /\ Rendered(q).live = q.live
         /\ Rendered(q).root = q.root /\ Rendered(q).record = q.record
         /\ Rendered(q).loading = q.loading /\ Rendered(q).calls = q.calls
         /\ Rendered(q).responded = q.responded
         /\ Rendered(q).seen = q.at /\ Rendered(q).due = FALSE
         /\ Rendered(q).shown = Pending(q)
         /\ Rendered(q).locked <=> q.loading \/ Pending(q) # {} \/ q.root # {}
         /\ \A i \in Interrupts :
              Rendered(q).queued[i] = LET kept == IF i \in Pending(q) THEN q.queued[i]
                                                                      ELSE Undecided[i]
                                      IN  IF i \in q.shown THEN kept ELSE Aged(kept)
<1> DEFINE alive == Pending(q)
           locks == q.loading \/ alive # {} \/ q.root # {}
           pruned == [i \in Interrupts |-> IF i \in alive THEN q.queued[i] ELSE Undecided[i]]
           queue == [i \in Interrupts |-> IF i \in q.shown THEN pruned[i] ELSE Aged(pruned[i])]
           rec == [q EXCEPT !.queued = queue, !.shown = alive, !.due = FALSE, !.seen = q.at,
                            !.locked = locks]
<1>1. alive \subseteq Interrupts
  BY DEF Pending, Candidates, PageRecords
<1>2. locks \in BOOLEAN
  OBVIOUS
<1>3. ASSUME NEW i \in Interrupts, NEW given \in Answers
      PROVE  Aged(given) \in Answers
  <2>1. PICK j \in Interrupts : given \in [1 .. Total[j] -> Marks]
    BY <1>3 DEF Answers
  <2>2. Aged(given) \in [1 .. Total[j] -> Marks]
    BY <2>1 DEF Aged, Marks
  <2> QED
    BY <2>2 DEF Answers
<1>4. pruned \in [Interrupts -> Answers]
  BY UndecidedIs DEF PageRecords
<1>5. queue \in [Interrupts -> Answers]
  <2> HIDE DEF pruned
  <2> QED
    BY <1>3, <1>4
<1>6. Rendered(q) = rec
  <2> DEFINE first == [q EXCEPT !.queued = pruned]
  <2>1. Pruned(q, alive) = first /\ first.queued = pruned
    <3> HIDE DEF alive
    <3> QED
      BY DEF Pruned, PageRecords
  <2>2. Rendered(q) = [first EXCEPT !.shown = alive, !.due = FALSE, !.seen = q.at,
                                    !.locked = locks,
                                    !.queued = [i \in Interrupts |->
                                       IF i \in q.shown THEN @[i] ELSE Aged(@[i])]]
    BY <2>1 DEF Rendered
  <2>3. Rendered(q) = [first EXCEPT !.shown = alive, !.due = FALSE, !.seen = q.at,
                                    !.locked = locks, !.queued = queue]
    <3> HIDE DEF pruned, locks, alive, first
    <3> QED
      BY <2>1, <2>2
  <2> HIDE DEF pruned, locks, alive, queue
  <2> QED
    BY <2>3 DEF PageRecords
<1>7. \A i \in Interrupts :
        queue[i] = LET kept == IF i \in alive THEN q.queued[i] ELSE Undecided[i]
                   IN  IF i \in q.shown THEN kept ELSE Aged(kept)
  OBVIOUS
<1> HIDE DEF locks, queue, pruned
<1>8. /\ rec \in PageRecords
      /\ rec.up = q.up /\ rec.at = q.at /\ rec.live = q.live
      /\ rec.root = q.root /\ rec.record = q.record
      /\ rec.loading = q.loading /\ rec.calls = q.calls /\ rec.responded = q.responded
      /\ rec.seen = q.at /\ rec.due = FALSE /\ rec.shown = alive /\ rec.locked = locks
      /\ rec.queued = queue
  <2> HIDE DEF alive
  <2> QED
    BY <1>1, <1>2, <1>5 DEF PageRecords
<1> HIDE DEF rec
<1> QED
  BY <1>6, <1>7, <1>8 DEF locks

LEMMA RenderedKeeps ==
  ASSUME NEW q \in PageRecords
  PROVE  Rendered(q) \in PageRecords /\ Rendered(q).up = q.up /\ Rendered(q).responded = q.responded
BY RenderedIs

-----------------------------------------------------------------------------
(* What each step does *)

\* A page that has not been opened has nothing.
Unopened == \A p \in Pages : ~page[p].up => page[p] = Loaded

LEMMA OpensEffect ==
  ASSUME Shape, Unopened, NEW p \in Pages, Opens(p)
  PROVE  LET q == page'[p] IN
         /\ page' \in [Pages -> PageRecords] /\ q \in PageRecords /\ ~page[p].up
         /\ \A o \in Pages : o # p => page'[o] = page[o]
         /\ q.up /\ q.at = 0 /\ q.live = Len(log) /\ q.seen = 0 /\ q.root = open
         /\ q.record = {} /\ q.responded = {} /\ q.shown = open
         /\ open # {} => q.calls
         /\ ~q.locked => open = {}
         /\ \A i \in Interrupts : /\ q.queued[i] \in [1 .. Total[i] -> Marks]
                                  /\ \A k \in 1 .. Total[i] : q.queued[i][k] = "none"
<1>1. page[p] = Loaded /\ ~page[p].up
  BY DEF Opens, Unopened
<1>2. PICK calls \in IF open # {} THEN {TRUE} ELSE {log[Len(log)].calls} :
        page' = [page EXCEPT ![p] =
          Rendered([@ EXCEPT !.up = TRUE, !.live = Len(log), !.root = open, !.calls = calls,
                             !.loading = \E n \in DOMAIN requests : requests[n].step \in Active])]
  BY DEF Opens
<1> DEFINE busy == \E n \in DOMAIN requests : requests[n].step \in Active
           rec == [Loaded EXCEPT !.up = TRUE, !.live = Len(log), !.root = open,
                                 !.calls = calls, !.loading = busy]
<1>3. page' = [page EXCEPT ![p] = Rendered(rec)]
  BY <1>1, <1>2
<1>4. calls \in BOOLEAN /\ (open # {} => calls) /\ Len(log) \in Nat /\ open \subseteq Interrupts
  <2>1. Len(log) \in 1 .. Len(log)
    BY DEF Shape
  <2>2. log[Len(log)].calls \in BOOLEAN
    BY <2>1, LogIs
  <2>3. CASE open = {}
    BY <1>2, <2>2, <2>3 DEF Shape
  <2>4. CASE open # {}
    BY <1>2, <2>4 DEF Shape
  <2> QED
    BY <2>3, <2>4
<1>5. busy \in BOOLEAN
  OBVIOUS
<1> HIDE DEF busy
<1>6. /\ rec \in PageRecords /\ rec.up /\ rec.at = 0 /\ rec.live = Len(log) /\ rec.root = open
      /\ rec.record = {} /\ rec.responded = {} /\ rec.shown = {} /\ rec.calls = calls
      /\ rec.queued = Undecided
  BY <1>4, <1>5, LoadedIs DEF PageRecords
<1> HIDE DEF rec
<1>7. Pending(rec) = open
  BY <1>6 DEF Pending, Candidates
<1>8. ASSUME NEW i \in Interrupts
      PROVE  /\ Rendered(rec).queued[i] \in [1 .. Total[i] -> Marks]
             /\ \A k \in 1 .. Total[i] : Rendered(rec).queued[i][k] = "none"
  <2>1. Rendered(rec).queued[i] = Aged(Undecided[i])
    BY <1>6, <1>8, RenderedIs
  <2>2. DOMAIN Undecided[i] = 1 .. Total[i]
    BY UndecidedIs
  <2> QED
    BY <2>1, <2>2, UndecidedIs DEF Aged, Marks
<1>9. page' \in [Pages -> PageRecords] /\ page'[p] = Rendered(rec)
      /\ \A o \in Pages : o # p => page'[o] = page[o]
  BY <1>3, <1>6, RenderedIs DEF Shape
<1>10. /\ Rendered(rec) \in PageRecords
       /\ Rendered(rec).up /\ Rendered(rec).at = 0 /\ Rendered(rec).live = Len(log)
       /\ Rendered(rec).seen = 0 /\ Rendered(rec).root = open /\ Rendered(rec).record = {}
       /\ Rendered(rec).responded = {} /\ Rendered(rec).shown = open
       /\ Rendered(rec).calls = calls /\ (~Rendered(rec).locked => open = {})
  BY <1>6, <1>7, RenderedIs
<1> QED
  BY <1>1, <1>4, <1>8, <1>9, <1>10

LEMMA RendersEffect ==
  ASSUME Shape, NEW p \in Pages, Renders(p)
  PROVE  /\ page' \in [Pages -> PageRecords] /\ page[p].up
         /\ \A o \in Pages : o # p => page'[o] = page[o]
         /\ page'[p] = Rendered(page[p])
BY RenderedIs DEF Shape, Renders

\* The three kinds of events a page hears.
LEMMA HearsEffect ==
  ASSUME Shape, NEW p \in Pages, Hears(p)
  PROVE  LET q == page[p]
             r == page'[p]
             e == log[q.at + 1]
         IN
         /\ page' \in [Pages -> PageRecords] /\ r \in PageRecords
         /\ \A o \in Pages : o # p => page'[o] = page[o]
         /\ q.up /\ q.at >= q.live /\ q.at + 1 \in 1 .. Len(log) /\ r.at = q.at + 1
         /\ r.up = q.up /\ r.live = q.live /\ r.seen = q.seen /\ r.responded = q.responded
         /\ r.queued = q.queued /\ r.shown = q.shown /\ r.locked = q.locked
         /\ \/ /\ e.kind = "running" /\ r.root = {} /\ r.record = q.record /\ r.due
               /\ r.calls = q.calls
            \/ /\ e.kind = "input" /\ e.i \in Interrupts /\ r.record = q.record \cup {e.i}
               /\ r.calls = q.calls
               /\ \/ r.root = q.root /\ r.due = q.due
                  \/ r.root = q.root \cup {e.i} /\ r.due
            \/ /\ e.kind = "ended" /\ r.root = q.root /\ r.record = q.record /\ r.due
               /\ r.calls = e.calls /\ ~r.loading
<1> DEFINE q == page[p]
           e == log[q.at + 1]
           rec == [Heard(q, e) EXCEPT !.at = q.at + 1]
<1>1. q \in PageRecords /\ q.at \in Nat /\ q.live \in Nat
  BY DEF Shape, PageRecords
<1>2. q.up /\ q.at >= q.live /\ q.at + 1 \in 1 .. Len(log)
  BY <1>1 DEF Hears, Shape
<1>3. /\ e \in EventRecords /\ e.kind \in {"running", "input", "ended"}
      /\ e.kind = "input" => e.i \in Interrupts
      /\ e.calls \in BOOLEAN
  BY <1>2, LogIs
<1>4. page' = [page EXCEPT ![p] = rec]
  BY DEF Hears
<1>5. /\ rec \in PageRecords /\ rec.at = q.at + 1
      /\ rec.up = q.up /\ rec.live = q.live /\ rec.seen = q.seen /\ rec.responded = q.responded
      /\ rec.queued = q.queued /\ rec.shown = q.shown /\ rec.locked = q.locked
      /\ \/ /\ e.kind = "running" /\ rec.root = {} /\ rec.record = q.record /\ rec.due = TRUE
            /\ rec.calls = q.calls
         \/ /\ e.kind = "input" /\ e.i \in Interrupts /\ rec.record = q.record \cup {e.i}
            /\ rec.calls = q.calls
            /\ \/ rec.root = q.root /\ rec.due = q.due
               \/ rec.root = q.root \cup {e.i} /\ rec.due = TRUE
         \/ /\ e.kind = "ended" /\ rec.root = q.root /\ rec.record = q.record /\ rec.due = TRUE
            /\ rec.calls = e.calls /\ rec.loading = FALSE
  <2> HIDE DEF q, e
  <2>1. CASE e.kind = "running"
    <3> DEFINE heard == [q EXCEPT !.loading = TRUE, !.root = {}, !.due = TRUE]
    <3>1. Heard(q, e) = heard
      BY <2>1 DEF Heard
    <3>2. /\ heard \in PageRecords
          /\ heard.root = {} /\ heard.record = q.record /\ heard.due = TRUE /\ heard.calls = q.calls
          /\ heard.up = q.up /\ heard.live = q.live /\ heard.seen = q.seen
          /\ heard.responded = q.responded /\ heard.queued = q.queued
          /\ heard.shown = q.shown /\ heard.locked = q.locked
      BY <1>1 DEF PageRecords
    <3>3. rec = [heard EXCEPT !.at = q.at + 1]
      BY <3>1
    <3> HIDE DEF heard, rec
    <3>4. /\ rec \in PageRecords /\ rec.at = q.at + 1
          /\ rec.root = {} /\ rec.record = q.record /\ rec.due = TRUE /\ rec.calls = q.calls
          /\ rec.up = q.up /\ rec.live = q.live /\ rec.seen = q.seen
          /\ rec.responded = q.responded /\ rec.queued = q.queued
          /\ rec.shown = q.shown /\ rec.locked = q.locked
      BY <1>1, <3>2, <3>3 DEF PageRecords
    <3> QED
      BY <1>3, <2>1, <3>4
  <2>2. CASE e.kind = "input" /\ e.i \in Deep
    <3> DEFINE heard == [q EXCEPT !.record = @ \cup {e.i}]
    <3>1. Heard(q, e) = heard
      BY <2>2 DEF Heard
    <3>2. /\ heard \in PageRecords
          /\ heard.root = q.root /\ heard.record = q.record \cup {e.i} /\ heard.due = q.due
          /\ heard.calls = q.calls
          /\ heard.up = q.up /\ heard.live = q.live /\ heard.seen = q.seen
          /\ heard.responded = q.responded /\ heard.queued = q.queued
          /\ heard.shown = q.shown /\ heard.locked = q.locked
      BY <1>1, <1>3, <2>2 DEF PageRecords
    <3>3. rec = [heard EXCEPT !.at = q.at + 1]
      BY <3>1
    <3> HIDE DEF heard, rec
    <3>4. /\ rec \in PageRecords /\ rec.at = q.at + 1
          /\ rec.root = q.root /\ rec.record = q.record \cup {e.i} /\ rec.due = q.due
          /\ rec.calls = q.calls
          /\ rec.up = q.up /\ rec.live = q.live /\ rec.seen = q.seen
          /\ rec.responded = q.responded /\ rec.queued = q.queued
          /\ rec.shown = q.shown /\ rec.locked = q.locked
      BY <1>1, <3>2, <3>3 DEF PageRecords
    <3> QED
      BY <1>3, <2>2, <3>4
  <2>3. CASE e.kind = "input" /\ e.i \notin Deep
    <3> DEFINE heard == [q EXCEPT !.record = @ \cup {e.i}, !.root = @ \cup {e.i}, !.due = TRUE]
    <3>1. Heard(q, e) = heard
      BY <2>3 DEF Heard
    <3>2. /\ heard \in PageRecords
          /\ heard.root = q.root \cup {e.i} /\ heard.record = q.record \cup {e.i}
          /\ heard.due = TRUE
          /\ heard.calls = q.calls
          /\ heard.up = q.up /\ heard.live = q.live /\ heard.seen = q.seen
          /\ heard.responded = q.responded /\ heard.queued = q.queued
          /\ heard.shown = q.shown /\ heard.locked = q.locked
      BY <1>1, <1>3, <2>3 DEF PageRecords
    <3>3. rec = [heard EXCEPT !.at = q.at + 1]
      BY <3>1
    <3> HIDE DEF heard, rec
    <3>4. /\ rec \in PageRecords /\ rec.at = q.at + 1
          /\ rec.root = q.root \cup {e.i} /\ rec.record = q.record \cup {e.i} /\ rec.due = TRUE
          /\ rec.calls = q.calls
          /\ rec.up = q.up /\ rec.live = q.live /\ rec.seen = q.seen
          /\ rec.responded = q.responded /\ rec.queued = q.queued
          /\ rec.shown = q.shown /\ rec.locked = q.locked
      BY <1>1, <3>2, <3>3 DEF PageRecords
    <3> QED
      BY <1>3, <2>3, <3>4
  <2>4. CASE e.kind = "ended"
    <3> DEFINE heard == [q EXCEPT !.loading = FALSE, !.calls = e.calls, !.due = TRUE]
    <3>1. Heard(q, e) = heard
      BY <2>4 DEF Heard
    <3>2. /\ heard \in PageRecords
          /\ heard.root = q.root /\ heard.record = q.record /\ heard.due = TRUE
          /\ heard.calls = e.calls /\ heard.loading = FALSE
          /\ heard.up = q.up /\ heard.live = q.live /\ heard.seen = q.seen
          /\ heard.responded = q.responded /\ heard.queued = q.queued
          /\ heard.shown = q.shown /\ heard.locked = q.locked
      BY <1>1, <1>3 DEF PageRecords
    <3>3. rec = [heard EXCEPT !.at = q.at + 1]
      BY <3>1
    <3> HIDE DEF heard, rec
    <3>4. /\ rec \in PageRecords /\ rec.at = q.at + 1
          /\ rec.root = q.root /\ rec.record = q.record /\ rec.due = TRUE
          /\ rec.calls = e.calls /\ rec.loading = FALSE
          /\ rec.up = q.up /\ rec.live = q.live /\ rec.seen = q.seen
          /\ rec.responded = q.responded /\ rec.queued = q.queued
          /\ rec.shown = q.shown /\ rec.locked = q.locked
      BY <1>1, <3>2, <3>3 DEF PageRecords
    <3> QED
      BY <1>3, <2>4, <3>4
  <2> QED
    BY <1>3, <2>1, <2>2, <2>3, <2>4
<1> HIDE DEF rec
<1>6. page' \in [Pages -> PageRecords] /\ page'[p] = rec
      /\ \A o \in Pages : o # p => page'[o] = page[o]
  BY <1>4, <1>5 DEF Shape
<1> QED
  BY <1>2, <1>5, <1>6

LEMMA ReplaysEffect ==
  ASSUME Shape, NEW p \in Pages, Replays(p), page[p].live <= Len(log)
  PROVE  LET q == page[p]
             r == page'[p]
         IN
         /\ page' \in [Pages -> PageRecords] /\ r \in PageRecords
         /\ \A o \in Pages : o # p => page'[o] = page[o]
         /\ q.up /\ q.at < q.live /\ r.at = q.live /\ r.seen = q.live
         /\ \A k \in 1 .. q.live : log[k].kind = "input" => log[k].i \in r.record
         /\ r.record \subseteq Raised
         /\ r.up = q.up /\ r.live = q.live /\ r.responded = q.responded
         /\ r.queued = q.queued /\ r.shown = q.shown /\ r.locked = q.locked
         /\ r.root = q.root /\ r.due = q.due /\ r.calls = q.calls
<1> DEFINE q == page[p]
           past == InputsOf(SubSeq(log, 1, q.live))
           rec == [q EXCEPT !.at = q.live, !.seen = q.live, !.record = past]
<1>1. q \in PageRecords /\ q.at \in Nat /\ q.live \in Nat
  BY DEF Shape, PageRecords
<1>2. q.up /\ q.at < q.live
  BY DEF Replays
<1>3. /\ DOMAIN SubSeq(log, 1, q.live) = 1 .. q.live
      /\ \A k \in 1 .. q.live : SubSeq(log, 1, q.live)[k] = log[k]
  BY <1>1 DEF Shape
<1>4. 1 .. q.live \subseteq DOMAIN log /\ DOMAIN log = 1 .. Len(log)
  BY <1>1 DEF Shape
<1>5. /\ past \subseteq Raised
      /\ \A k \in 1 .. q.live : log[k].kind = "input" => log[k].i \in past
  BY <1>3, <1>4 DEF InputsOf, Raised
<1>6. past \subseteq Interrupts
  BY <1>3, <1>4, LogIs DEF InputsOf
<1>7. page' = [page EXCEPT ![p] = rec]
  BY DEF Replays
<1> HIDE DEF past
<1>8. /\ rec \in PageRecords /\ rec.at = q.live /\ rec.seen = q.live /\ rec.record = past
      /\ rec.up = q.up /\ rec.live = q.live /\ rec.responded = q.responded
      /\ rec.queued = q.queued /\ rec.shown = q.shown /\ rec.locked = q.locked
      /\ rec.root = q.root /\ rec.due = q.due /\ rec.calls = q.calls
  BY <1>1, <1>6 DEF PageRecords
<1> HIDE DEF rec
<1>9. page' \in [Pages -> PageRecords] /\ page'[p] = rec
      /\ \A o \in Pages : o # p => page'[o] = page[o]
  BY <1>7, <1>8 DEF Shape
<1> QED
  BY <1>2, <1>5, <1>8, <1>9

LEMMA RequestIs ==
  ASSUME NEW p \in Pages, NEW what \in Interrupts \cup {Message},
         NEW given \in Answers \cup {<<>>}, page[p].seen \in Nat
  PROVE  /\ Request(p, what, given) \in RequestRecords
         /\ Request(p, what, given).page = p /\ Request(p, what, given).what = what
         /\ Request(p, what, given).given = given
         /\ Request(p, what, given).heard = page[p].seen
         /\ Request(p, what, given).step = "sent" /\ Request(p, what, given).kind = "none"
BY DEF Request, RequestRecords, Steps

\* A request is added behind those there are.
LEMMA AppendEffect ==
  ASSUME Shape, NEW r \in RequestRecords, requests' = Append(requests, r)
  PROVE  /\ requests' \in Seq(RequestRecords) /\ Len(requests') = Len(requests) + 1
         /\ Len(requests) \in Nat /\ requests'[Len(requests) + 1] = r
         /\ \A n \in 1 .. Len(requests) : requests'[n] = requests[n]
BY DEF Shape

LEMMA DecidesEffect ==
  ASSUME Shape, NEW p \in Pages, NEW i \in Interrupts, NEW k \in 1 .. Total[i], Decides(p, i, k)
  PROVE  LET q == page[p]
             r == page'[p]
         IN
         /\ page' \in [Pages -> PageRecords] /\ r \in PageRecords
         /\ \A o \in Pages : o # p => page'[o] = page[o]
         /\ q.up /\ i \in q.shown /\ i \notin q.responded
         /\ r.up = q.up /\ r.at = q.at /\ r.live = q.live /\ r.seen = q.seen
         /\ r.root = q.root /\ r.record = q.record /\ r.loading = q.loading
         /\ r.calls = q.calls /\ r.shown = q.shown /\ r.locked = q.locked
         /\ r.queued[i] \in [1 .. Total[i] -> Marks]
         /\ \A j \in 1 .. Total[i] : r.queued[i][j] = IF j = k THEN "new" ELSE q.queued[i][j]
         /\ \A o \in Interrupts : o # i => r.queued[o] = q.queued[o]
         /\ \/ requests' = requests /\ r.responded = q.responded /\ r.due = q.due
            \/ /\ requests' = Append(requests, Request(p, i, r.queued[i]))
               /\ r.responded = q.responded \cup {i} /\ r.due
               /\ \A j \in 1 .. Total[i] : r.queued[i][j] # "none"
<1> DEFINE q == page[p]
           given == [q.queued[i] EXCEPT ![k] = "new"]
           whole == \A j \in 1 .. Total[i] : given[j] # "none"
           queue == [q.queued EXCEPT ![i] = given]
           answered == IF whole THEN q.responded \cup {i} ELSE q.responded
           due == q.due \/ whole
           rec == [q EXCEPT !.queued = queue, !.responded = answered, !.due = due]
<1>1. q \in PageRecords /\ q.queued[i] \in [1 .. Total[i] -> Marks]
  BY DEF Shape
<1>2. given \in [1 .. Total[i] -> Marks]
      /\ \A j \in 1 .. Total[i] : given[j] = IF j = k THEN "new" ELSE q.queued[i][j]
  BY <1>1 DEF Marks
<1>3. given \in Answers
  BY <1>2 DEF Answers
<1>4. q.up /\ i \in q.shown /\ i \notin q.responded
  BY DEF Decides
<1>5. page' = [page EXCEPT ![p] = rec]
  BY DEF Decides
<1>6. requests' = IF whole THEN Append(requests, Request(p, i, given)) ELSE requests
  BY DEF Decides
<1>7. due \in BOOLEAN /\ whole \in BOOLEAN /\ (whole => due) /\ (~whole => due = q.due)
  BY <1>1 DEF PageRecords
<1> HIDE DEF given, whole, due
<1>8. queue \in [Interrupts -> Answers] /\ queue[i] = given
      /\ \A o \in Interrupts : o # i => queue[o] = q.queued[o]
  BY <1>1, <1>3 DEF PageRecords
<1>9. answered \subseteq Interrupts
  BY <1>1 DEF PageRecords
<1> HIDE DEF queue, answered
<1>10. /\ rec \in PageRecords
       /\ rec.up = q.up /\ rec.at = q.at /\ rec.live = q.live /\ rec.seen = q.seen
       /\ rec.root = q.root /\ rec.record = q.record /\ rec.loading = q.loading
       /\ rec.calls = q.calls /\ rec.shown = q.shown /\ rec.locked = q.locked
       /\ rec.queued = queue /\ rec.responded = answered /\ rec.due = due
  BY <1>1, <1>7, <1>8, <1>9 DEF PageRecords
<1> HIDE DEF rec
<1>11. page' \in [Pages -> PageRecords] /\ page'[p] = rec
       /\ \A o \in Pages : o # p => page'[o] = page[o]
  BY <1>5, <1>10 DEF Shape
<1>12. \/ ~whole /\ requests' = requests /\ answered = q.responded /\ due = q.due
       \/ /\ whole /\ requests' = Append(requests, Request(p, i, given))
          /\ answered = q.responded \cup {i} /\ due
          /\ \A j \in 1 .. Total[i] : given[j] # "none"
  BY <1>6, <1>7 DEF answered, whole
<1> QED
  BY <1>2, <1>4, <1>8, <1>10, <1>11, <1>12

LEMMA SendsEffect ==
  ASSUME Shape, NEW p \in Pages, Sends(p)
  PROVE  LET q == page[p]
             r == page'[p]
         IN
         /\ page' \in [Pages -> PageRecords] /\ r \in PageRecords
         /\ \A o \in Pages : o # p => page'[o] = page[o]
         /\ q.up /\ ~q.locked /\ r.loading /\ r.locked
         /\ \E s \in PageRecords : /\ s.queued = q.queued /\ s.shown = q.shown
                                   /\ r = Rendered(s)
         /\ r.up = q.up /\ r.at = q.at /\ r.live = q.live /\ r.seen = q.at
         /\ r.root = q.root /\ r.record = q.record /\ r.calls = q.calls
         /\ r.responded = q.responded /\ r.due = FALSE
         /\ r.root \subseteq r.shown \cup r.responded
         /\ r.shown \subseteq q.root
         /\ requests' = Append(requests, Request(p, Message, <<>>))
<1> DEFINE q == page[p]
           sent == [q EXCEPT !.loading = TRUE]
<1>1. q \in PageRecords
  BY DEF Shape
<1>2. /\ sent \in PageRecords /\ sent.queued = q.queued /\ sent.shown = q.shown
      /\ sent.up = q.up /\ sent.at = q.at /\ sent.live = q.live
      /\ sent.root = q.root /\ sent.record = q.record /\ sent.calls = q.calls
      /\ sent.responded = q.responded /\ sent.loading = TRUE
  BY <1>1 DEF PageRecords
<1>3. /\ page' = [page EXCEPT ![p] = Rendered(sent)] /\ q.up /\ ~q.locked
      /\ requests' = Append(requests, Request(p, Message, <<>>))
  BY DEF Sends
<1> HIDE DEF sent
<1>4. page' \in [Pages -> PageRecords] /\ page'[p] = Rendered(sent)
      /\ \A o \in Pages : o # p => page'[o] = page[o]
  <2>1. Rendered(sent) \in PageRecords
    BY <1>2, RenderedKeeps
  <2> QED
    BY <1>3, <2>1 DEF Shape
<1>5. Pending(sent) = q.root \ q.responded
  BY <1>2 DEF Pending, Candidates
<1> HIDE DEF q
<1>6. LET r == Rendered(sent) IN
      /\ r \in PageRecords /\ r.loading /\ r.locked
      /\ r.up = q.up /\ r.at = q.at /\ r.live = q.live /\ r.seen = q.at
      /\ r.root = q.root /\ r.record = q.record /\ r.calls = q.calls
      /\ r.responded = q.responded /\ r.due = FALSE /\ r.shown = q.root \ q.responded
  BY <1>2, <1>5, RenderedIs
<1> QED
  BY <1>2, <1>3, <1>4, <1>6 DEF q

LEMMA RequestFields ==
  ASSUME Shape, NEW n \in 1 .. Len(requests)
  PROVE  /\ requests[n] \in RequestRecords /\ requests[n].page \in Pages
         /\ requests[n].what \in Interrupts \cup {Message} /\ requests[n].heard \in Nat
         /\ requests[n].step \in Steps
         /\ requests[n].kind \in {"none", "resume", "turn", "stray"}
<1>1. requests[n] \in RequestRecords
  BY DEF Shape
<1> QED
  BY <1>1 DEF RequestRecords

\* One request takes a step of its life.
Moved(n, step, kind, heard) ==
  /\ requests' \in Seq(RequestRecords) /\ Len(requests') = Len(requests)
  /\ \A m \in 1 .. Len(requests) : m # n => requests'[m] = requests[m]
  /\ requests'[n].page = requests[n].page /\ requests'[n].what = requests[n].what
  /\ requests'[n].given = requests[n].given
  /\ requests'[n].step = step /\ requests'[n].kind = kind /\ requests'[n].heard = heard

LEMMA MovesEffect ==
  ASSUME Shape, NEW n \in DOMAIN requests, NEW step \in Steps,
         NEW kind \in {"none", "resume", "turn", "stray"}, Moves(n, step, kind)
  PROVE  n \in 1 .. Len(requests) /\ Moved(n, step, kind, requests[n].heard)
<1> DEFINE rec == [requests[n] EXCEPT !.step = step, !.kind = kind]
<1>1. n \in 1 .. Len(requests) /\ requests[n] \in RequestRecords
  BY DEF Shape
<1>2. /\ rec \in RequestRecords /\ rec.page = requests[n].page /\ rec.what = requests[n].what
      /\ rec.given = requests[n].given /\ rec.step = step /\ rec.kind = kind
      /\ rec.heard = requests[n].heard
  BY <1>1 DEF RequestRecords
<1>3. requests' = [requests EXCEPT ![n] = rec]
  BY DEF Moves
<1> HIDE DEF rec
<1> QED
  BY <1>1, <1>2, <1>3 DEF Shape, Moved

\* The log is longer than it was.
Longer ==
  /\ log' \in Seq(EventRecords) /\ Len(log') > Len(log) /\ Len(log') >= 1
  /\ \A k \in 1 .. Len(log') : log'[k].kind = "input" => log'[k].i \in Interrupts
  /\ \A k \in 1 .. Len(log) : log'[k] = log[k]

LEMMA AddsEffect ==
  ASSUME Shape, NEW events \in Seq(EventRecords), Len(events) >= 1,
         \A k \in 1 .. Len(events) : events[k].kind = "input" => events[k].i \in Interrupts,
         Adds(events)
  PROVE  /\ Longer /\ Len(log') = Len(log) + Len(events)
         /\ \A k \in 1 .. Len(events) : log'[Len(log) + k] = events[k]
         /\ Raised \subseteq Raised'
<1>1. log' = log \o events
  BY DEF Adds
<1>2. /\ log' \in Seq(EventRecords) /\ Len(log') = Len(log) + Len(events)
      /\ \A k \in 1 .. Len(log) : log'[k] = log[k]
      /\ \A k \in 1 .. Len(events) : log'[Len(log) + k] = events[k]
  BY <1>1 DEF Shape
<1>3. ASSUME NEW k \in 1 .. Len(log')
      PROVE  \/ k \in 1 .. Len(log) /\ log'[k] = log[k]
             \/ k - Len(log) \in 1 .. Len(events) /\ log'[k] = events[k - Len(log)]
  BY <1>1, <1>2 DEF Shape
<1>4. \A k \in 1 .. Len(log') : log'[k].kind = "input" => log'[k].i \in Interrupts
  BY <1>3 DEF Shape
<1>5. Raised \subseteq Raised'
  <2>1. DOMAIN log = 1 .. Len(log) /\ DOMAIN log' = 1 .. Len(log')
    BY <1>2 DEF Shape
  <2>2. 1 .. Len(log) \subseteq 1 .. Len(log')
    BY <1>2 DEF Shape
  <2> QED
    BY <1>2, <2>1, <2>2 DEF Raised, InputsOf
<1>6. Len(log') > Len(log) /\ Len(log') >= 1
  BY <1>2 DEF Shape
<1> QED
  BY <1>2, <1>4, <1>5, <1>6 DEF Longer

LEMMA CreatesEffect ==
  ASSUME Shape, NEW n \in DOMAIN requests, Creates(n)
  PROVE  /\ n \in 1 .. Len(requests)
         /\ requests[n].step = IF requests[n].what = Message THEN "sent" ELSE "valid"
         /\ \E kind \in {"none", "resume", "turn", "stray"} :
              /\ Moved(n, "running", kind, 0)
              /\ requests[n].what = Message /\ kind = "stray" => open # {}
         /\ Longer /\ Raised \subseteq Raised' /\ Len(log') = Len(log) + 1
         /\ log'[Len(log) + 1].kind = "running"
         /\ UNCHANGED <<open, page>>
<1>1. n \in 1 .. Len(requests) /\ requests[n] \in RequestRecords
  BY DEF Shape
<1>2. PICK interrupted \in Interrupted :
        requests' = [requests EXCEPT ![n].step = "running", ![n].heard = 0,
                                     ![n].kind = RunKind(requests[n].what, interrupted)]
  BY DEF Creates
<1> DEFINE kind == RunKind(requests[n].what, interrupted)
           rec == [requests[n] EXCEPT !.step = "running", !.heard = 0, !.kind = kind]
           e == Event("running", Message, FALSE)
<1>3. kind \in {"none", "resume", "turn", "stray"}
      /\ (requests[n].what = Message /\ kind = "stray" => open # {})
  BY <1>2 DEF RunKind, Interrupted
<1> HIDE DEF kind
<1>4. /\ rec \in RequestRecords /\ rec.page = requests[n].page /\ rec.what = requests[n].what
      /\ rec.given = requests[n].given /\ rec.step = "running" /\ rec.kind = kind
      /\ rec.heard = 0
  BY <1>1, <1>3 DEF RequestRecords, Steps
<1>5. requests' = [requests EXCEPT ![n] = rec]
  BY <1>2 DEF kind
<1> HIDE DEF rec
<1>6. Moved(n, "running", kind, 0)
  BY <1>1, <1>4, <1>5 DEF Shape, Moved
<1>7. e \in EventRecords /\ e.kind = "running"
  BY RunningIs
<1>8. Adds(<<e>>)
  BY DEF Creates
<1> HIDE DEF e
<1> DEFINE es == <<e>>
<1>9. /\ es \in Seq(EventRecords) /\ Len(es) = 1 /\ es[1] = e
      /\ \A k \in 1 .. Len(es) : es[k].kind = "input" => es[k].i \in Interrupts
  BY <1>7
<1> HIDE DEF es
<1>10. /\ Longer /\ Len(log') = Len(log) + Len(es) /\ Raised \subseteq Raised'
       /\ \A k \in 1 .. Len(es) : log'[Len(log) + k] = es[k]
  <2>1. Adds(es)
    BY <1>8 DEF es
  <2> QED
    BY <1>9, <2>1, AddsEffect
<1>11. /\ requests[n].step = IF requests[n].what = Message THEN "sent" ELSE "valid"
       /\ UNCHANGED <<open, page>>
  BY DEF Creates, AtStep
<1> QED
  BY <1>1, <1>3, <1>6, <1>7, <1>9, <1>10, <1>11

\* A run that ends says so last, with the calls that are left open.
LEMMA EndsEffect ==
  ASSUME Shape, open \subseteq Raised, NEW n \in DOMAIN requests,
         Finishes(n) \/ Breaks(n) \/ \E new \in SUBSET (Interrupts \ Raised) : Pauses(n, new)
  PROVE  /\ n \in 1 .. Len(requests) /\ requests[n].step \in Active
         /\ Moved(n, "ended", requests[n].kind, requests[n].heard)
         /\ open' \subseteq Interrupts /\ page' = page
         /\ Longer /\ open' \subseteq Raised'
         /\ log'[Len(log')].kind = "ended" /\ (log'[Len(log')].calls \/ open' = {})
<1>1. n \in 1 .. Len(requests) /\ requests[n].kind \in {"none", "resume", "turn", "stray"}
  BY RequestFields DEF Shape
<1>2. /\ Goes(n, "ended") /\ page' = page /\ requests[n].step \in Active
  BY DEF Finishes, Breaks, Pauses, AtStep, Active
<1>3. Moved(n, "ended", requests[n].kind, requests[n].heard)
  BY <1>1, <1>2, MovesEffect DEF Goes, Steps
<1>4. ASSUME NEW calls \in BOOLEAN, Adds(<<Ended(calls)>>), open' = open,
             calls \/ open = {}
      PROVE  /\ Longer /\ open' \subseteq Raised'
             /\ log'[Len(log')].kind = "ended" /\ (log'[Len(log')].calls \/ open' = {})
  <2> DEFINE e == Ended(calls)
  <2>1. e \in EventRecords /\ e.kind = "ended" /\ e.calls = calls
    BY EndedIs
  <2> HIDE DEF e
  <2> DEFINE es == <<e>>
  <2>2. /\ es \in Seq(EventRecords) /\ Len(es) = 1 /\ es[1] = e
        /\ \A k \in 1 .. Len(es) : es[k].kind = "input" => es[k].i \in Interrupts
    BY <2>1
  <2>3. Adds(es)
    BY <1>4 DEF e
  <2> HIDE DEF es
  <2>4. /\ Longer /\ Len(log') = Len(log) + Len(es) /\ Raised \subseteq Raised'
        /\ \A k \in 1 .. Len(es) : log'[Len(log) + k] = es[k]
    BY <2>2, <2>3, AddsEffect
  <2>5. log'[Len(log')] = e
    BY <2>2, <2>4
  <2> QED
    BY <1>4, <2>1, <2>4, <2>5
<1>5. CASE Finishes(n)
  BY <1>1, <1>2, <1>3, <1>4, <1>5 DEF Finishes, Shape
<1>6. CASE Breaks(n)
  <2>1. PICK calls \in {TRUE} \cup {open # {}} : Adds(<<Ended(calls)>>)
    BY <1>6 DEF Breaks
  <2>2. calls \in BOOLEAN /\ (calls \/ open = {})
    BY <2>1
  <2>3. open' = open
    BY <1>6 DEF Breaks
  <2> QED
    BY <1>1, <1>2, <1>3, <1>4, <2>1, <2>2, <2>3 DEF Shape
<1>7. ASSUME NEW new \in SUBSET (Interrupts \ Raised), Pauses(n, new)
      PROVE  /\ open' \subseteq Interrupts
             /\ Longer /\ open' \subseteq Raised'
             /\ log'[Len(log')].kind = "ended" /\ (log'[Len(log')].calls \/ open' = {})
  <2> DEFINE size == Cardinality(open')
             found == SetToSeq(open')
             asks == [k \in 1 .. size |-> Event("input", found[k], TRUE)]
             e == Ended(TRUE)
             events == asks \o <<e>>
  <2>1. open' \subseteq Interrupts /\ IsFiniteSet(open')
    BY <1>7, ConstantsAssumption, FS_Subset DEF Pauses, Shape
  <2>2. /\ size \in Nat /\ found \in [1 .. size -> open']
        /\ \A x \in open' : \E k \in 1 .. size : found[k] = x
    BY <2>1, SetToSeqIs
  <2>3. Adds(events)
    BY <1>7 DEF Pauses
  <2> HIDE DEF size, found
  <2>4. \A k \in 1 .. size : /\ asks[k] \in EventRecords /\ asks[k].kind = "input"
                             /\ asks[k].i = found[k] /\ found[k] \in Interrupts
    BY <2>1, <2>2, EventIs
  <2>5. asks \in Seq(EventRecords) /\ Len(asks) = size
    <3>1. asks \in [1 .. size -> EventRecords]
      BY <2>4
    <3> HIDE DEF asks
    <3> QED
      BY <2>2, <3>1, SeqDef
  <2>6. e \in EventRecords /\ e.kind = "ended" /\ e.calls
    BY EndedIs
  <2> HIDE DEF asks, e
  <2>7. /\ events \in Seq(EventRecords) /\ Len(events) = size + 1 /\ events[size + 1] = e
        /\ \A k \in 1 .. size : events[k] = asks[k]
    BY <2>2, <2>5, <2>6
  <2> HIDE DEF events
  <2>8. \A k \in 1 .. Len(events) : events[k].kind = "input" => events[k].i \in Interrupts
    <3> TAKE k \in 1 .. Len(events)
    <3>1. k = size + 1 \/ k \in 1 .. size
      BY <2>2, <2>7
    <3> QED
      BY <2>4, <2>6, <2>7, <3>1
  <2>9. /\ Longer /\ Len(log') = Len(log) + Len(events)
        /\ \A k \in 1 .. Len(events) : log'[Len(log) + k] = events[k]
    <3>1. Len(events) >= 1
      BY <2>2, <2>7
    <3> QED
      BY <2>3, <2>7, <2>8, <3>1, AddsEffect
  <2>10. log'[Len(log')] = e
    BY <2>2, <2>7, <2>9
  <2>11. ASSUME NEW x \in open'
         PROVE  x \in Raised'
    <3>1. PICK k \in 1 .. size : found[k] = x
      BY <2>2
    <3>2. k \in 1 .. Len(events) /\ log'[Len(log) + k] = asks[k]
      <4>1. k \in 1 .. Len(events)
        BY <2>2, <2>7
      <4>2. log'[Len(log) + k] = events[k]
        BY <2>9, <4>1
      <4> QED
        BY <2>7, <4>1, <4>2
    <3>3. Len(log) + k \in DOMAIN log'
      BY <2>9, <3>2 DEF Longer, Shape
    <3> QED
      BY <2>4, <3>1, <3>2, <3>3 DEF Raised, InputsOf
  <2> QED
    BY <2>1, <2>6, <2>9, <2>10, <2>11
<1> QED
  BY <1>1, <1>2, <1>3, <1>5, <1>6, <1>7

-----------------------------------------------------------------------------
(* The inductive invariant *)

\* What is open was asked for; a run that ended last with no calls left nothing open; and
\* the log closes with the end of a run while none is under way.
Chronicle ==
  /\ open \subseteq Raised
  /\ \A k \in 1 .. Len(log) :
       log[k].kind = "ended" /\ (\A m \in 1 .. Len(log) : m > k => log[m].kind # "ended")
       => log[k].calls \/ open = {}
  /\ (\A n \in 1 .. Len(requests) : requests[n].step \notin Active)
     => log[Len(log)].kind = "ended"

\* A request comes from an open page; an answer is marked there, and a message that is under
\* way without an event since it was composed leaves nothing open that its page has not
\* answered.
Requested(n) ==
  LET r == requests[n] IN
  /\ page[r.page].up
  /\ r.what # Message => r.what \in page[r.page].responded
  /\ r.step = "valid" => r.what # Message
  /\ r.heard <= Len(log)
  /\ r.what = Message /\ r.step = "sent" /\ r.heard = Len(log)
     => open \subseteq page[r.page].responded

\* A page is somewhere in the log, and knows only what is there.
Place(p) ==
  LET q == page[p] IN
  /\ q.seen <= q.at /\ q.at <= Len(log) /\ q.live <= Len(log)
  /\ q.root \cup q.record \cup q.shown \cup q.responded \subseteq Raised

\* Decisions are queued for what is shown, and are those of this review.
Review(q) ==
  \A i \in Interrupts : \A k \in 1 .. Total[i] :
    q.queued[i][k] # "none" => q.queued[i][k] = "new" /\ i \in q.shown

\* A page that has begun to hear events has had every question before.
Recorded(p) ==
  LET q == page[p] IN
  q.up /\ q.at >= q.live =>
    \A k \in 1 .. q.at : log[k].kind = "input" => log[k].i \in q.record

\* What the last render shows: the questions of the root store, and those of the record if
\* it came after the end of a run.
Offered(p) ==
  LET q == page[p] IN
  q.up /\ ~q.due =>
    /\ q.root \subseteq q.shown \cup q.responded
    /\ q.at > q.live /\ log[q.at].kind = "ended" /\ ~q.loading /\ q.calls
       => q.record \subseteq q.shown \cup q.responded

\* A page to which nothing has happened since it was opened.
Opening(p) ==
  LET q == page[p] IN
  q.up /\ q.at <= q.live =>
    /\ Len(log) = q.live => open \subseteq q.root
    /\ ~q.locked => q.root = {}

\* The composer is free after a render that found all questions answered.
Unlocked(p) ==
  LET q == page[p] IN
  q.up /\ ~q.locked /\ q.seen = q.at /\ q.at > q.live /\ q.calls => q.record \subseteq q.responded

\* Whether there are calls without an answer, a page knows, or will hear when a run ends.
Called(p) ==
  LET q == page[p] IN
  q.up => \/ q.calls \/ open = {}
          \/ \E k \in 1 .. Len(log) : k > q.at /\ k > q.live /\ log[k].kind = "ended"

\* After the end of a run a page loads only for a message of its own.
Loads(p) ==
  LET q == page[p] IN
  q.up /\ q.at > q.live /\ log[q.at].kind = "ended" /\ q.loading =>
    \/ \E k \in 1 .. Len(log) : k > q.at /\ log[k].kind = "running"
    \/ \E n \in 1 .. Len(requests) :
         requests[n].page = p /\ requests[n].what = Message /\ requests[n].step = "sent"

Following(p) ==
  /\ Place(p) /\ Review(page[p]) /\ Recorded(p) /\ Offered(p)
  /\ Opening(p) /\ Unlocked(p) /\ Called(p) /\ Loads(p)

IInv ==
  /\ Shape /\ Unopened /\ Chronicle
  /\ \A n \in 1 .. Len(requests) : Requested(n)
  /\ \A p \in Pages : Following(p)
  /\ AnswersOnce /\ OneReview

LEMMA PageFields ==
  ASSUME Shape, NEW p \in Pages
  PROVE  /\ page[p] \in PageRecords
         /\ page[p].up \in BOOLEAN /\ page[p].due \in BOOLEAN /\ page[p].loading \in BOOLEAN
         /\ page[p].calls \in BOOLEAN /\ page[p].locked \in BOOLEAN
         /\ page[p].at \in Nat /\ page[p].live \in Nat /\ page[p].seen \in Nat
         /\ page[p].root \subseteq Interrupts /\ page[p].record \subseteq Interrupts
         /\ page[p].shown \subseteq Interrupts /\ page[p].responded \subseteq Interrupts
<1>1. page[p] \in PageRecords
  BY DEF Shape
<1> QED
  BY <1>1 DEF PageRecords

LEMMA RaisedAre ==
  ASSUME Shape
  PROVE  /\ \A k \in 1 .. Len(log) : log[k].kind = "input" => log[k].i \in Raised
         /\ \A i \in Raised : \E k \in 1 .. Len(log) : log[k].kind = "input" /\ log[k].i = i
<1>1. DOMAIN log = 1 .. Len(log)
  BY DEF Shape
<1> QED
  BY <1>1 DEF Raised, InputsOf

\* A review goes on through a render, with the same types.
LEMMA ReviewRendered ==
  ASSUME NEW q \in PageRecords, Review(q),
         \A i \in Interrupts : q.queued[i] \in [1 .. Total[i] -> Marks]
  PROVE  /\ Review(Rendered(q))
         /\ \A i \in Interrupts : Rendered(q).queued[i] \in [1 .. Total[i] -> Marks]
<1> SUFFICES ASSUME NEW i \in Interrupts
             PROVE  /\ Rendered(q).queued[i] \in [1 .. Total[i] -> Marks]
                    /\ \A k \in 1 .. Total[i] : Rendered(q).queued[i][k] # "none" =>
                         Rendered(q).queued[i][k] = "new" /\ i \in Rendered(q).shown
  BY DEF Review
<1> DEFINE kept == IF i \in Pending(q) THEN q.queued[i] ELSE Undecided[i]
<1>1. /\ Rendered(q).queued[i] = IF i \in q.shown THEN kept ELSE Aged(kept)
      /\ Rendered(q).shown = Pending(q)
  BY RenderedIs
<1>2. /\ kept \in [1 .. Total[i] -> Marks]
      /\ \A k \in 1 .. Total[i] :
           kept[k] # "none" => kept[k] = "new" /\ i \in q.shown /\ i \in Pending(q)
  BY UndecidedIs DEF Review
<1> HIDE DEF kept
<1>3. CASE i \in q.shown
  BY <1>1, <1>2, <1>3
<1>4. CASE i \notin q.shown
  <2>1. \A k \in 1 .. Total[i] : kept[k] = "none"
    BY <1>2, <1>4
  <2>2. Aged(kept) = [k \in 1 .. Total[i] |-> IF kept[k] = "none" THEN "none" ELSE "old"]
    BY <1>2 DEF Aged
  <2>3. Aged(kept) \in [1 .. Total[i] -> Marks] /\ \A k \in 1 .. Total[i] : Aged(kept)[k] = "none"
    BY <2>1, <2>2 DEF Marks
  <2> QED
    BY <1>1, <1>4, <2>3
<1> QED
  BY <1>3, <1>4

-----------------------------------------------------------------------------
(* The initial state *)

LEMMA InitInvariant == Init => IInv
<1> SUFFICES ASSUME Init PROVE IInv
  OBVIOUS
<1> DEFINE e == Event("running", Message, FALSE)
           r == [page |-> First, what |-> Message, given |-> <<>>, heard |-> 0,
                 step |-> "running", kind |-> "turn"]
<1>1. e \in EventRecords /\ e.kind = "running"
  BY RunningIs
<1>2. /\ r \in RequestRecords /\ r.what = Message /\ r.step = "running" /\ r.heard = 0
      /\ r.given = <<>> /\ r.page = First
  BY ConstantsAssumption DEF RequestRecords, Steps
<1>3. log = <<e>> /\ requests = <<r>> /\ open = {}
      /\ page = [p \in Pages |-> IF p = First THEN Begun ELSE Loaded]
  BY DEF Init
<1> HIDE DEF e, r
<1>4. log \in Seq(EventRecords) /\ Len(log) = 1 /\ log[1] = e
  BY <1>1, <1>3
<1>5. requests \in Seq(RequestRecords) /\ Len(requests) = 1 /\ requests[1] = r
  BY <1>2, <1>3
<1>6. \A p \in Pages :
        /\ page[p] \in PageRecords /\ page[p].at = 0 /\ page[p].live = 0 /\ page[p].seen = 0
        /\ page[p].root = {} /\ page[p].record = {} /\ page[p].responded = {}
        /\ page[p].shown = {} /\ page[p].queued = Undecided
        /\ page[p].up => ~page[p].due /\ page[p].locked
        /\ ~page[p].up => page[p] = Loaded
  BY <1>3, LoadedIs, BegunIs
<1>7. page \in [Pages -> PageRecords]
  BY <1>3, LoadedIs, BegunIs
<1>8. Shape
  BY <1>1, <1>3, <1>4, <1>5, <1>6, <1>7, UndecidedIs DEF Shape
<1>9. Unopened
  BY <1>6 DEF Unopened
<1>10. Chronicle
  BY <1>1, <1>2, <1>3, <1>4, <1>5 DEF Chronicle, Active
<1>11. \A n \in 1 .. Len(requests) : Requested(n)
  <2>1. page[First].up
    BY <1>3, BegunIs, ConstantsAssumption
  <2> QED
    BY <1>2, <1>4, <1>5, <2>1 DEF Requested
<1>12. ASSUME NEW p \in Pages
       PROVE  Following(p)
  <2>1. Place(p)
    BY <1>4, <1>6 DEF Place
  <2>2. Review(page[p])
    BY <1>6, UndecidedIs DEF Review
  <2>3. Recorded(p) /\ Offered(p) /\ Opening(p) /\ Unlocked(p) /\ Called(p) /\ Loads(p)
    BY <1>3, <1>4, <1>6 DEF Recorded, Offered, Opening, Unlocked, Called, Loads
  <2> QED
    BY <2>1, <2>2, <2>3 DEF Following
<1>13. AnswersOnce
  <2>1. DOMAIN requests = 1 .. 1
    BY <1>5
  <2> QED
    BY <2>1 DEF AnswersOnce
<1>14. OneReview
  <2>1. DOMAIN requests = 1 .. 1 /\ requests[1].given = <<>>
    BY <1>2, <1>5
  <2>2. DOMAIN <<>> = {}
    OBVIOUS
  <2> QED
    BY <2>1, <2>2 DEF OneReview
<1> QED
  BY <1>8, <1>9, <1>10, <1>11, <1>12, <1>13, <1>14 DEF IInv

-----------------------------------------------------------------------------
(* What a page follows *)

\* The messages page o has under way stay there.
Keeps(o) ==
  \A n \in 1 .. Len(requests) :
    requests[n].page = o /\ requests[n].what = Message /\ requests[n].step = "sent" =>
      /\ n \in 1 .. Len(requests') /\ requests'[n].page = o /\ requests'[n].what = Message
      /\ requests'[n].step = "sent"

\* A page is not disturbed by what others do, as long as no event is added.
LEMMA FollowingKept ==
  ASSUME Shape, NEW o \in Pages, Following(o), log' = log, open' \subseteq open,
         page'[o] = page[o], Keeps(o)
  PROVE  Following(o)'
<1>1. Raised' = Raised
  BY DEF Raised, InputsOf
<1>2. Place(o)' /\ Review(page[o])' /\ Recorded(o)' /\ Offered(o)'
  BY <1>1 DEF Following, Place, Review, Recorded, Offered
<1>3. Opening(o)' /\ Unlocked(o)' /\ Called(o)'
  BY DEF Following, Opening, Unlocked, Called
<1>4. Loads(o)'
  <2> SUFFICES ASSUME page[o].up, page[o].at > page[o].live, log[page[o].at].kind = "ended",
                      page[o].loading,
                      ~ \E k \in 1 .. Len(log) : k > page[o].at /\ log[k].kind = "running"
               PROVE  \E n \in 1 .. Len(requests') :
                        /\ requests'[n].page = o /\ requests'[n].what = Message
                        /\ requests'[n].step = "sent"
    BY DEF Loads
  <2>1. PICK n \in 1 .. Len(requests) :
          /\ requests[n].page = o /\ requests[n].what = Message /\ requests[n].step = "sent"
    BY DEF Following, Loads
  <2> QED
    BY <2>1 DEF Keeps
<1> QED
  BY <1>2, <1>3, <1>4 DEF Following

\* Events are added behind those a page has heard.
LEMMA FollowingGrown ==
  ASSUME Shape, NEW o \in Pages, Following(o), Longer, Raised \subseteq Raised', page' = page,
         open' \subseteq open \/ log'[Len(log')].kind = "ended",
         Keeps(o) \/ log'[Len(log')].kind = "running"
  PROVE  Following(o)'
<1>1. /\ page[o].at \in Nat /\ page[o].live \in Nat /\ page[o].at <= Len(log)
      /\ page[o].live <= Len(log) /\ Len(log) \in Nat /\ Len(log') \in Nat
      /\ Len(log') > Len(log)
  BY PageFields DEF Following, Place, Longer, Shape
<1>2. Place(o)'
  BY <1>1, PageFields DEF Following, Place
<1>3. Review(page[o])' /\ Recorded(o)'
  BY <1>1 DEF Following, Review, Recorded, Longer
<1>4. page[o].at > page[o].live => log'[page[o].at] = log[page[o].at]
  BY <1>1 DEF Longer
<1>5. Offered(o)' /\ Unlocked(o)'
  BY <1>4 DEF Following, Offered, Unlocked
<1>6. Opening(o)'
  BY <1>1 DEF Following, Opening
<1>7. 1 .. Len(log) \subseteq 1 .. Len(log')
  BY <1>1
<1>8. Called(o)'
  <2>1. CASE open' \subseteq open
    BY <1>1, <1>7, <2>1 DEF Following, Called, Longer
  <2>2. CASE log'[Len(log')].kind = "ended"
    <3>1. Len(log') \in 1 .. Len(log') /\ Len(log') > page[o].at /\ Len(log') > page[o].live
      BY <1>1
    <3> QED
      BY <2>2, <3>1 DEF Called
  <2> QED
    BY <2>1, <2>2
<1>9. Loads(o)'
  <2> SUFFICES ASSUME page[o].up, page[o].at > page[o].live, log[page[o].at].kind = "ended",
                      page[o].loading
               PROVE  \/ \E k \in 1 .. Len(log') : k > page[o].at /\ log'[k].kind = "running"
                      \/ \E n \in 1 .. Len(requests') :
                           /\ requests'[n].page = o /\ requests'[n].what = Message
                           /\ requests'[n].step = "sent"
    BY <1>4 DEF Loads
  <2>1. CASE log'[Len(log')].kind = "running"
    <3>1. Len(log') \in 1 .. Len(log') /\ Len(log') > page[o].at
      BY <1>1
    <3> QED
      BY <2>1, <3>1
  <2>2. CASE Keeps(o) /\ \E k \in 1 .. Len(log) : k > page[o].at /\ log[k].kind = "running"
    BY <1>7, <2>2 DEF Longer
  <2>3. CASE /\ Keeps(o)
             /\ \E n \in 1 .. Len(requests) : /\ requests[n].page = o
                                              /\ requests[n].what = Message
                                              /\ requests[n].step = "sent"
    <3>1. PICK n \in 1 .. Len(requests) :
            /\ requests[n].page = o /\ requests[n].what = Message /\ requests[n].step = "sent"
      BY <2>3
    <3> QED
      BY <2>3, <3>1 DEF Keeps
  <2> QED
    BY <2>1, <2>2, <2>3 DEF Following, Loads
<1> QED
  BY <1>2, <1>3, <1>5, <1>6, <1>8, <1>9 DEF Following

LEMMA OpensFollowing ==
  ASSUME Shape, Unopened, Chronicle, NEW p \in Pages, Following(p), Opens(p)
  PROVE  Following(p)'
<1> DEFINE r == page'[p]
<1>1. /\ r.up /\ r.at = 0 /\ r.live = Len(log) /\ r.seen = 0 /\ r.root = open
      /\ r.record = {} /\ r.responded = {} /\ r.shown = open /\ (open # {} => r.calls)
      /\ (~r.locked => open = {})
      /\ \A i \in Interrupts : \A k \in 1 .. Total[i] : r.queued[i][k] = "none"
  BY OpensEffect
<1>2. UNCHANGED <<open, log, requests>> /\ Len(log) \in Nat /\ Len(log) >= 1
  BY DEF Opens, Shape
<1>3. Raised' = Raised
  BY <1>2 DEF Raised, InputsOf
<1> HIDE DEF r
<1>4. Place(p)'
  BY <1>1, <1>2, <1>3 DEF Place, Chronicle, r
<1>5. Review(page[p])'
  BY <1>1 DEF Review, r
<1>6. Recorded(p)' /\ Offered(p)' /\ Unlocked(p)' /\ Loads(p)'
  BY <1>1, <1>2 DEF Recorded, Offered, Unlocked, Loads, r
<1>7. Opening(p)' /\ Called(p)'
  BY <1>1, <1>2 DEF Opening, Called, r
<1> QED
  BY <1>4, <1>5, <1>6, <1>7 DEF Following

LEMMA RendersFollowing ==
  ASSUME Shape, NEW p \in Pages, Following(p), Renders(p)
  PROVE  Following(p)'
<1> DEFINE q == page[p]
           r == page'[p]
<1>1. q \in PageRecords /\ r = Rendered(q) /\ q.up
  BY RendersEffect DEF Shape
<1> HIDE DEF q, r
<1>2. /\ r.up = q.up /\ r.at = q.at /\ r.live = q.live /\ r.root = q.root
      /\ r.record = q.record /\ r.loading = q.loading /\ r.calls = q.calls
      /\ r.responded = q.responded /\ r.seen = q.at /\ r.due = FALSE
      /\ r.shown = Pending(q)
      /\ (r.locked <=> q.loading \/ Pending(q) # {} \/ q.root # {})
  BY <1>1, RenderedIs
<1>3. UNCHANGED <<open, log, requests>> /\ Raised' = Raised
  BY DEF Renders, Raised, InputsOf
<1>4. /\ q.root \subseteq Pending(q) \cup q.responded
      /\ ~q.loading /\ q.calls => q.record \subseteq Pending(q) \cup q.responded
      /\ Pending(q) \subseteq q.root \cup q.record
  BY DEF Pending, Candidates
<1>5. Review(page[p])'
  BY <1>1, ReviewRendered DEF Following, Shape, Review, q, r
<1>6. q.at \in Nat
  BY PageFields DEF q
<1>7. Place(p)'
  BY <1>2, <1>3, <1>4, <1>6 DEF Following, Place, q, r
<1>8. Recorded(p)' /\ Called(p)' /\ Loads(p)'
  BY <1>2, <1>3 DEF Following, Recorded, Called, Loads, q, r
<1>9. Offered(p)'
  BY <1>2, <1>3, <1>4 DEF Offered, q, r
<1>10. Opening(p)' /\ Unlocked(p)'
  BY <1>2, <1>3, <1>4 DEF Following, Opening, Unlocked, q, r
<1> QED
  BY <1>5, <1>7, <1>8, <1>9, <1>10 DEF Following

LEMMA HearsFollowing ==
  ASSUME Shape, Chronicle, NEW p \in Pages, Following(p), Hears(p)
  PROVE  Following(p)'
<1> DEFINE q == page[p]
           r == page'[p]
           e == log[q.at + 1]
<1>1. /\ q.up /\ q.at >= q.live /\ q.at + 1 \in 1 .. Len(log) /\ r.at = q.at + 1
      /\ r.up = q.up /\ r.live = q.live /\ r.seen = q.seen /\ r.responded = q.responded
      /\ r.queued = q.queued /\ r.shown = q.shown /\ r.locked = q.locked
      /\ \/ /\ e.kind = "running" /\ r.root = {} /\ r.record = q.record /\ r.due
            /\ r.calls = q.calls
         \/ /\ e.kind = "input" /\ e.i \in Interrupts /\ r.record = q.record \cup {e.i}
            /\ r.calls = q.calls
            /\ \/ r.root = q.root /\ r.due = q.due
               \/ r.root = q.root \cup {e.i} /\ r.due
         \/ /\ e.kind = "ended" /\ r.root = q.root /\ r.record = q.record /\ r.due
            /\ r.calls = e.calls /\ ~r.loading
  BY HearsEffect
<1>2. UNCHANGED <<open, log, requests>> /\ Raised' = Raised
  BY DEF Hears, Raised, InputsOf
<1>3. q.at \in Nat /\ q.live \in Nat /\ q.seen \in Nat /\ q.due \in BOOLEAN
  BY PageFields
<1>4. e.kind = "input" => e.i \in Raised
  BY <1>1, RaisedAre
<1> HIDE DEF q, r, e
<1>5. Place(p)'
  <2>1. r.root \cup r.record \cup r.shown \cup r.responded \subseteq Raised
    BY <1>1, <1>4 DEF Following, Place, q
  <2>2. r.seen <= r.at /\ r.at <= Len(log) /\ r.live <= Len(log)
    BY <1>1, <1>3 DEF Following, Place, q
  <2> QED
    BY <1>2, <2>1, <2>2 DEF Place, r
<1>6. Review(page[p])'
  BY <1>1 DEF Following, Review, q, r
<1>7. Recorded(p)'
  <2>1. ASSUME NEW k \in 1 .. q.at + 1, log[k].kind = "input"
        PROVE  log[k].i \in r.record
    <3>1. CASE k = q.at + 1
      BY <1>1, <2>1, <3>1 DEF e
    <3>2. CASE k # q.at + 1
      <4>1. k \in 1 .. q.at
        BY <1>3, <3>2
      <4>2. log[k].i \in q.record
        BY <1>1, <2>1, <4>1 DEF Following, Recorded, q
      <4> QED
        BY <1>1, <4>2
    <3> QED
      BY <3>1, <3>2
  <2> QED
    BY <1>1, <1>2, <2>1 DEF Recorded, r
<1>8. Offered(p)'
  <2>1. ASSUME ~r.due
        PROVE  r.root = q.root /\ ~q.due /\ e.kind = "input"
    BY <1>1, <1>3, <2>1
  <2> QED
    BY <1>1, <1>2, <2>1 DEF Following, Offered, q, r, e
<1>9. Opening(p)' /\ Unlocked(p)'
  <2>1. r.at > r.live /\ r.seen # r.at
    BY <1>1, <1>3 DEF Following, Place, q
  <2>2. r.live \in Nat /\ r.at \in Nat
    BY <1>1, <1>3
  <2> QED
    BY <2>1, <2>2 DEF Opening, Unlocked, r
<1>10. Called(p)'
  <2>1. CASE e.kind = "ended"
    <3>1. ASSUME ~(e.calls \/ open = {})
          PROVE  \E k \in 1 .. Len(log) : k > q.at + 1 /\ log[k].kind = "ended"
      BY <1>1, <2>1, <3>1 DEF Chronicle, e
    <3>2. \A k \in 1 .. Len(log) : k > q.at + 1 => k > q.live
      BY <1>1, <1>3
    <3> QED
      BY <1>1, <1>2, <2>1, <3>1, <3>2 DEF Called, r
  <2>2. CASE e.kind # "ended"
    <3>1. \A k \in 1 .. Len(log) : k > q.at /\ log[k].kind = "ended" => k > q.at + 1
      BY <1>3, <2>2 DEF e
    <3> QED
      BY <1>1, <1>2, <2>2, <3>1 DEF Following, Called, q, r
  <2> QED
    BY <2>1, <2>2
<1>11. Loads(p)'
  BY <1>1, <1>2 DEF Loads, r, e
<1> QED
  BY <1>5, <1>6, <1>7, <1>8, <1>9, <1>10, <1>11 DEF Following

LEMMA ReplaysFollowing ==
  ASSUME Shape, NEW p \in Pages, Following(p), Replays(p)
  PROVE  Following(p)'
<1> DEFINE q == page[p]
           r == page'[p]
<1>1. /\ q.up /\ q.at < q.live /\ r.at = q.live /\ r.seen = q.live
      /\ \A k \in 1 .. q.live : log[k].kind = "input" => log[k].i \in r.record
      /\ r.record \subseteq Raised
      /\ r.up = q.up /\ r.live = q.live /\ r.responded = q.responded
      /\ r.queued = q.queued /\ r.shown = q.shown /\ r.locked = q.locked
      /\ r.root = q.root /\ r.due = q.due /\ r.calls = q.calls
  <2>1. q.live <= Len(log)
    BY DEF Following, Place
  <2> QED
    BY <2>1, ReplaysEffect
<1>2. UNCHANGED <<open, log, requests>> /\ Raised' = Raised
  BY DEF Replays, Raised, InputsOf
<1>3. q.at \in Nat /\ q.live \in Nat
  BY PageFields
<1> HIDE DEF q, r
<1>4. Place(p)' /\ Review(page[p])' /\ Recorded(p)'
  BY <1>1, <1>2, <1>3 DEF Following, Place, Review, Recorded, q, r
<1>5. Offered(p)' /\ Opening(p)'
  BY <1>1, <1>2, <1>3 DEF Following, Offered, Opening, q, r
<1>6. Unlocked(p)' /\ Called(p)' /\ Loads(p)'
  BY <1>1, <1>2, <1>3 DEF Following, Unlocked, Called, Loads, q, r
<1> QED
  BY <1>4, <1>5, <1>6 DEF Following

LEMMA DecidesFollowing ==
  ASSUME Shape, NEW p \in Pages, Following(p), NEW i \in Interrupts, NEW k \in 1 .. Total[i],
         Decides(p, i, k), Keeps(p)
  PROVE  Following(p)'
<1> DEFINE q == page[p]
           r == page'[p]
<1>1. /\ q.up /\ i \in q.shown
      /\ r.up = q.up /\ r.at = q.at /\ r.live = q.live /\ r.seen = q.seen
      /\ r.root = q.root /\ r.record = q.record /\ r.loading = q.loading
      /\ r.calls = q.calls /\ r.shown = q.shown /\ r.locked = q.locked
      /\ \A j \in 1 .. Total[i] : r.queued[i][j] = IF j = k THEN "new" ELSE q.queued[i][j]
      /\ \A o \in Interrupts : o # i => r.queued[o] = q.queued[o]
      /\ \/ r.responded = q.responded /\ r.due = q.due
         \/ r.responded = q.responded \cup {i} /\ r.due
  BY DecidesEffect
<1>2. UNCHANGED <<open, log>> /\ Raised' = Raised
  BY DEF Decides, Raised, InputsOf
<1> HIDE DEF q, r
<1>3. Place(p)' /\ Recorded(p)'
  BY <1>1, <1>2 DEF Following, Place, Recorded, q, r
<1>4. Review(page[p])'
  <2> SUFFICES ASSUME NEW o \in Interrupts, NEW j \in 1 .. Total[o], r.queued[o][j] # "none"
               PROVE  r.queued[o][j] = "new" /\ o \in r.shown
    BY DEF Review, r
  <2>1. CASE o = i
    BY <1>1, <2>1 DEF Following, Review, q
  <2>2. CASE o # i
    BY <1>1, <2>2 DEF Following, Review, q
  <2> QED
    BY <2>1, <2>2
<1>5. Offered(p)' /\ Opening(p)'
  BY <1>1, <1>2 DEF Following, Offered, Opening, q, r
<1>6. Unlocked(p)' /\ Called(p)'
  BY <1>1, <1>2 DEF Following, Unlocked, Called, q, r
<1>7. Loads(p)'
  <2> SUFFICES ASSUME q.up, q.at > q.live, log[q.at].kind = "ended", q.loading,
                      ~ \E m \in 1 .. Len(log) : m > q.at /\ log[m].kind = "running"
               PROVE  \E n \in 1 .. Len(requests') :
                        /\ requests'[n].page = p /\ requests'[n].what = Message
                        /\ requests'[n].step = "sent"
    BY <1>1, <1>2 DEF Loads, r
  <2>1. PICK n \in 1 .. Len(requests) :
          /\ requests[n].page = p /\ requests[n].what = Message /\ requests[n].step = "sent"
    BY DEF Following, Loads, q
  <2> QED
    BY <2>1 DEF Keeps
<1> QED
  BY <1>3, <1>4, <1>5, <1>6, <1>7 DEF Following

LEMMA SendsFollowing ==
  ASSUME Shape, NEW p \in Pages, Following(p), Sends(p)
  PROVE  Following(p)'
<1> DEFINE q == page[p]
           r == page'[p]
           new == Request(p, Message, <<>>)
<1>1. /\ q.up /\ r.loading /\ r.locked
      /\ r.up = q.up /\ r.at = q.at /\ r.live = q.live /\ r.seen = q.at
      /\ r.root = q.root /\ r.record = q.record /\ r.calls = q.calls
      /\ r.responded = q.responded /\ r.due = FALSE
      /\ r.root \subseteq r.shown \cup r.responded
      /\ r.shown \subseteq q.root
      /\ requests' = Append(requests, new)
  BY SendsEffect
<1>2. UNCHANGED <<open, log>> /\ Raised' = Raised
  BY DEF Sends, Raised, InputsOf
<1>3. q.at \in Nat
  BY PageFields
<1>4. /\ Len(requests) + 1 \in 1 .. Len(requests')
      /\ requests'[Len(requests) + 1].page = p /\ requests'[Len(requests) + 1].what = Message
      /\ requests'[Len(requests) + 1].step = "sent"
  <2>1. page[p].seen \in Nat /\ Message \in Interrupts \cup {Message}
        /\ <<>> \in Answers \cup {<<>>}
    BY PageFields
  <2>2. new \in RequestRecords /\ new.page = p /\ new.what = Message /\ new.step = "sent"
    <3> HIDE DEF Answers
    <3> QED
      BY <2>1, RequestIs
  <2> HIDE DEF new
  <2> QED
    BY <1>1, <2>2, AppendEffect
<1>5. Review(page[p])'
  <2>1. PICK s \in PageRecords : /\ s.queued = q.queued /\ s.shown = q.shown
                                 /\ r = Rendered(s)
    BY SendsEffect
  <2>2. Review(s) /\ \A i \in Interrupts : s.queued[i] \in [1 .. Total[i] -> Marks]
    BY <2>1 DEF Following, Review, Shape
  <2> QED
    BY <2>1, <2>2, ReviewRendered DEF Review
<1> HIDE DEF q, r
<1>6. Place(p)' /\ Recorded(p)' /\ Offered(p)'
  BY <1>1, <1>2, <1>3 DEF Following, Place, Recorded, Offered, q, r
<1>7. Opening(p)' /\ Unlocked(p)' /\ Called(p)'
  BY <1>1, <1>2 DEF Following, Opening, Unlocked, Called, q, r
<1>8. Loads(p)'
  BY <1>4 DEF Loads
<1> QED
  BY <1>5, <1>6, <1>7, <1>8 DEF Following

\* A page takes notice only of a message that was refused.
LEMMA RefusesEffect ==
  ASSUME Shape, NEW n \in DOMAIN requests, Refuses(n)
  PROVE  LET p == requests[n].page
             q == page[p]
             r == page'[p]
         IN
         /\ n \in 1 .. Len(requests) /\ requests[n].step = "sent"
         /\ Moved(n, "refused", "none", requests[n].heard)
         /\ UNCHANGED <<open, log>> /\ page' \in [Pages -> PageRecords]
         /\ p \in Pages
         /\ \A o \in Pages : o # p => page'[o] = page[o]
         /\ requests[n].what # Message => page' = page
         /\ requests[n].what = Message =>
              /\ ~r.loading /\ r.due
              /\ r.up = q.up /\ r.at = q.at /\ r.live = q.live /\ r.seen = q.seen
              /\ r.root = q.root /\ r.record = q.record /\ r.calls = q.calls
              /\ r.responded = q.responded /\ r.queued = q.queued /\ r.shown = q.shown
              /\ r.locked = q.locked
<1>1. /\ n \in 1 .. Len(requests) /\ requests[n].step = "sent" /\ UNCHANGED <<open, log>>
      /\ requests[n].page \in Pages
  BY RequestFields DEF Refuses, AtStep, Shape
<1>2. Moved(n, "refused", "none", requests[n].heard)
  BY MovesEffect DEF Refuses, Steps
<1>3. CASE requests[n].what # Message
  <2>1. page' = page
    BY <1>3 DEF Refuses
  <2> QED
    BY <1>1, <1>2, <1>3, <2>1 DEF Shape
<1>4. CASE requests[n].what = Message
  <2> DEFINE p == requests[n].page
             q == page[p]
             rec == [q EXCEPT !.loading = FALSE, !.due = TRUE]
  <2>1. q \in PageRecords
    BY <1>1 DEF Shape
  <2>2. page' = [page EXCEPT ![p].loading = FALSE, ![p].due = TRUE]
    BY <1>4 DEF Refuses
  <2>3. page' = [page EXCEPT ![p] = rec]
    <3> HIDE DEF p
    <3> QED
      BY <1>1, <2>1, <2>2 DEF Shape, PageRecords
  <2>4. /\ rec \in PageRecords /\ ~rec.loading /\ rec.due
        /\ rec.up = q.up /\ rec.at = q.at /\ rec.live = q.live /\ rec.seen = q.seen
        /\ rec.root = q.root /\ rec.record = q.record /\ rec.calls = q.calls
        /\ rec.responded = q.responded /\ rec.queued = q.queued /\ rec.shown = q.shown
        /\ rec.locked = q.locked
    BY <2>1 DEF PageRecords
  <2> HIDE DEF rec
  <2>5. page' \in [Pages -> PageRecords] /\ page'[p] = rec
        /\ \A o \in Pages : o # p => page'[o] = page[o]
    BY <1>1, <2>3, <2>4 DEF Shape
  <2> QED
    BY <1>1, <1>2, <1>4, <2>4, <2>5
<1> QED
  BY <1>3, <1>4

LEMMA RefusesFollowing ==
  ASSUME Shape, NEW n \in DOMAIN requests, Refuses(n), requests[n].what = Message,
         NEW p \in Pages, p = requests[n].page, Following(p)
  PROVE  Following(p)'
<1> DEFINE q == page[p]
           r == page'[p]
<1>1. /\ p \in Pages /\ ~r.loading /\ r.due
      /\ r.up = q.up /\ r.at = q.at /\ r.live = q.live /\ r.seen = q.seen
      /\ r.root = q.root /\ r.record = q.record /\ r.calls = q.calls
      /\ r.responded = q.responded /\ r.queued = q.queued /\ r.shown = q.shown
      /\ r.locked = q.locked
  BY RefusesEffect
<1>2. UNCHANGED <<open, log>> /\ Raised' = Raised
  BY RefusesEffect DEF Raised, InputsOf
<1> HIDE DEF q, r
<1>3. Place(p)' /\ Review(page[p])' /\ Recorded(p)'
  <2>1. Place(p)' /\ Recorded(p)'
    BY <1>1, <1>2 DEF Following, Place, Recorded, q, r
  <2>2. Review(page[p])'
    BY <1>1 DEF Following, Review, q, r
  <2> QED
    BY <2>1, <2>2
<1>4. Offered(p)' /\ Opening(p)' /\ Unlocked(p)'
  BY <1>1, <1>2 DEF Following, Offered, Opening, Unlocked, q, r
<1>5. Called(p)' /\ Loads(p)'
  BY <1>1, <1>2 DEF Following, Called, Loads, q, r
<1> QED
  BY <1>3, <1>4, <1>5 DEF Following


-----------------------------------------------------------------------------
(* The invariant, step by step *)

\* A new request leaves the others where they are.
LEMMA AppendedKeeps ==
  ASSUME Shape, NEW r \in RequestRecords, requests' = Append(requests, r), NEW o \in Pages
  PROVE  Keeps(o)
<1>1. /\ Len(requests') = Len(requests) + 1 /\ Len(requests) \in Nat
      /\ \A n \in 1 .. Len(requests) : requests'[n] = requests[n]
  BY AppendEffect
<1>2. 1 .. Len(requests) \subseteq 1 .. Len(requests')
  BY <1>1
<1> QED
  BY <1>1, <1>2 DEF Keeps

\* So does a request that moves, unless it is a message on its way.
LEMMA MovedKeeps ==
  ASSUME Shape, NEW n \in 1 .. Len(requests), NEW step, NEW kind, NEW heard,
         Moved(n, step, kind, heard), NEW o \in Pages,
         requests[n].page # o \/ requests[n].what # Message \/ requests[n].step # "sent"
  PROVE  Keeps(o)
BY DEF Moved, Keeps

\* What a request asks and answers does not change.
LEMMA MovedAnswers ==
  ASSUME Shape, AnswersOnce, OneReview, NEW n \in 1 .. Len(requests), NEW step, NEW kind,
         NEW heard, Moved(n, step, kind, heard)
  PROVE  AnswersOnce' /\ OneReview'
<1>1. \A m \in 1 .. Len(requests) :
        /\ requests'[m].page = requests[m].page /\ requests'[m].what = requests[m].what
        /\ requests'[m].given = requests[m].given
  BY DEF Moved
<1>2. DOMAIN requests = 1 .. Len(requests) /\ DOMAIN requests' = 1 .. Len(requests)
  BY DEF Shape, Moved
<1>3. AnswersOnce'
  BY <1>1, <1>2 DEF AnswersOnce
<1>4. OneReview'
  BY <1>1, <1>2 DEF OneReview
<1> QED
  BY <1>3, <1>4

\* A page opens, renders or hears: nothing else changes.
LEMMA PageStep ==
  ASSUME IInv, NEW p \in Pages, UNCHANGED <<open, log, requests>>,
         page' \in [Pages -> PageRecords], \A o \in Pages : o # p => page'[o] = page[o],
         page'[p].up, page[p].responded \subseteq page'[p].responded, Following(p)',
         \A i \in Interrupts : page'[p].queued[i] \in [1 .. Total[i] -> Marks]
  PROVE  IInv'
<1> USE DEF IInv
<1>1. Shape'
  BY DEF Shape
<1>2. Unopened'
  BY DEF Unopened
<1>3. Chronicle'
  BY DEF Chronicle, Raised, InputsOf
<1>4. \A n \in 1 .. Len(requests') : Requested(n)'
  <2> TAKE n \in 1 .. Len(requests')
  <2>1. requests[n].page \in Pages /\ Requested(n)
    BY RequestFields
  <2>2. page[requests[n].page].responded \subseteq page'[requests[n].page].responded
    BY <2>1
  <2> QED
    BY <2>1, <2>2 DEF Requested
<1>5. \A o \in Pages : Following(o)'
  <2> TAKE o \in Pages
  <2>1. CASE o # p
    <3>1. Keeps(o)
      BY DEF Keeps
    <3> QED
      BY <2>1, <3>1, FollowingKept
  <2> QED
    BY <2>1
<1>6. AnswersOnce' /\ OneReview'
  BY DEF AnswersOnce, OneReview
<1> QED
  BY <1>1, <1>2, <1>3, <1>4, <1>5, <1>6

\* A page sends a request.
LEMMA RequestStep ==
  ASSUME IInv, NEW p \in Pages, NEW r \in RequestRecords, requests' = Append(requests, r),
         UNCHANGED <<open, log>>,
         page' \in [Pages -> PageRecords], \A o \in Pages : o # p => page'[o] = page[o],
         page'[p].up, page[p].responded \subseteq page'[p].responded, Following(p)',
         \A i \in Interrupts : page'[p].queued[i] \in [1 .. Total[i] -> Marks],
         r.page = p, r.step = "sent", r.heard <= Len(log),
         r.what # Message => r.what \in page'[p].responded /\ r.what \notin page[p].responded,
         r.what = Message /\ r.heard = Len(log) => open \subseteq page'[p].responded,
         \A k \in DOMAIN r.given : r.given[k] = "new"
  PROVE  IInv'
<1> USE DEF IInv
<1> DEFINE new == Len(requests) + 1
<1>1. /\ requests' \in Seq(RequestRecords) /\ Len(requests') = new /\ Len(requests) \in Nat
      /\ requests'[new] = r /\ \A n \in 1 .. Len(requests) : requests'[n] = requests[n]
  BY AppendEffect
<1>2. \A n \in 1 .. Len(requests') : n \in 1 .. Len(requests) \/ n = new
  BY <1>1
<1>3. 1 .. Len(requests) \subseteq 1 .. Len(requests')
  BY <1>1
<1>4. DOMAIN requests = 1 .. Len(requests) /\ DOMAIN requests' = 1 .. Len(requests')
  BY <1>1 DEF Shape
<1> HIDE DEF new
<1>5. Shape'
  BY <1>1 DEF Shape
<1>6. Unopened'
  BY DEF Unopened
<1>7. Chronicle'
  <2>1. Raised' = Raised
    BY DEF Raised, InputsOf
  <2>2. (\A n \in 1 .. Len(requests') : requests'[n].step \notin Active)
        => \A n \in 1 .. Len(requests) : requests[n].step \notin Active
    BY <1>1, <1>3
  <2> QED
    BY <2>1, <2>2 DEF Chronicle
<1>8. \A n \in 1 .. Len(requests') : Requested(n)'
  <2> TAKE n \in 1 .. Len(requests')
  <2>1. CASE n = new
    BY <1>1, <2>1 DEF Requested
  <2>2. CASE n \in 1 .. Len(requests)
    <3>1. requests[n].page \in Pages /\ Requested(n) /\ requests'[n] = requests[n]
      BY <1>1, <2>2, RequestFields
    <3>2. page[requests[n].page].responded \subseteq page'[requests[n].page].responded
      BY <3>1
    <3> QED
      BY <3>1, <3>2 DEF Requested
  <2> QED
    BY <1>2, <2>1, <2>2
<1>9. \A o \in Pages : Following(o)'
  <2> TAKE o \in Pages
  <2>1. CASE o # p
    BY <2>1, AppendedKeeps, FollowingKept
  <2> QED
    BY <2>1
<1>10. AnswersOnce'
  <2> SUFFICES ASSUME NEW m \in 1 .. Len(requests'), NEW n \in 1 .. Len(requests'), m # n,
                      requests'[m].what # Message,
                      requests'[m].page = requests'[n].page, requests'[m].what = requests'[n].what
               PROVE  FALSE
    BY <1>4 DEF AnswersOnce
  <2>1. CASE m = new
    <3>1. n \in 1 .. Len(requests) /\ requests'[m] = r /\ requests'[n] = requests[n]
      BY <1>1, <1>2, <2>1
    <3>2. Requested(n)
      BY <3>1
    <3> QED
      BY <3>1, <3>2 DEF Requested
  <2>2. CASE n = new
    <3>1. m \in 1 .. Len(requests) /\ requests'[n] = r /\ requests'[m] = requests[m]
      BY <1>1, <1>2, <2>2
    <3>2. Requested(m)
      BY <3>1
    <3> QED
      BY <3>1, <3>2 DEF Requested
  <2>3. CASE m # new /\ n # new
    <3>1. m \in DOMAIN requests /\ n \in DOMAIN requests
      BY <1>2, <1>4, <2>3
    <3>2. requests'[m] = requests[m] /\ requests'[n] = requests[n]
      BY <1>1, <1>4, <3>1
    <3> QED
      BY <3>1, <3>2 DEF AnswersOnce
  <2> QED
    BY <2>1, <2>2, <2>3
<1>11. OneReview'
  BY <1>1, <1>2, <1>4 DEF OneReview
<1> QED
  BY <1>5, <1>6, <1>7, <1>8, <1>9, <1>10, <1>11

\* A request moves while nothing is added to the log.
LEMMA QuietStep ==
  ASSUME IInv, NEW n \in 1 .. Len(requests), NEW step \in {"valid", "refused", "past"}, NEW kind,
         Moved(n, step, kind, requests[n].heard),
         log' = log, open' \subseteq open, page' \in [Pages -> PageRecords],
         \A p \in Pages : /\ page'[p].responded = page[p].responded
                          /\ page'[p].queued = page[p].queued /\ page'[p].up = page[p].up
                          /\ ~page[p].up => page'[p] = page[p],
         \A p \in Pages : Following(p)',
         step \in Active <=> requests[n].step \in Active,
         step = "valid" => requests[n].what # Message
  PROVE  IInv'
<1> USE DEF IInv
<1>1. /\ requests' \in Seq(RequestRecords) /\ Len(requests') = Len(requests)
      /\ \A m \in 1 .. Len(requests) : m # n => requests'[m] = requests[m]
      /\ requests'[n].page = requests[n].page /\ requests'[n].what = requests[n].what
      /\ requests'[n].step = step /\ requests'[n].heard = requests[n].heard
  BY DEF Moved
<1>2. Shape'
  BY <1>1 DEF Shape
<1>3. Unopened'
  BY DEF Unopened
<1>4. Chronicle'
  <2>1. Raised' = Raised
    BY DEF Raised, InputsOf
  <2>2. (\A m \in 1 .. Len(requests') : requests'[m].step \notin Active)
        => \A m \in 1 .. Len(requests) : requests[m].step \notin Active
    BY <1>1
  <2> QED
    BY <2>1, <2>2 DEF Chronicle
<1>5. \A m \in 1 .. Len(requests') : Requested(m)'
  <2> TAKE m \in 1 .. Len(requests')
  <2>1. requests[m].page \in Pages /\ Requested(m) /\ m \in 1 .. Len(requests)
    BY <1>1, RequestFields
  <2>2. page'[requests[m].page].responded = page[requests[m].page].responded
    BY <2>1
  <2>3. CASE m = n
    BY <1>1, <2>1, <2>2, <2>3 DEF Requested
  <2>4. CASE m # n
    BY <1>1, <2>1, <2>2, <2>4 DEF Requested
  <2> QED
    BY <2>3, <2>4
<1>6. AnswersOnce' /\ OneReview'
  BY MovedAnswers
<1> QED
  BY <1>2, <1>3, <1>4, <1>5, <1>6

\* A request moves with the log.
LEMMA GrowingStep ==
  ASSUME IInv, NEW n \in 1 .. Len(requests), NEW step \in {"running", "ended"}, NEW kind,
         NEW heard \in {0, requests[n].heard}, Moved(n, step, kind, heard),
         Longer, page' = page, open' \subseteq Interrupts, Chronicle',
         \A p \in Pages : Following(p)'
  PROVE  IInv'
<1> USE DEF IInv
<1>1. /\ requests' \in Seq(RequestRecords) /\ Len(requests') = Len(requests)
      /\ \A m \in 1 .. Len(requests) : m # n => requests'[m] = requests[m]
      /\ requests'[n].page = requests[n].page /\ requests'[n].what = requests[n].what
      /\ requests'[n].step = step /\ requests'[n].heard = heard
  BY DEF Moved
<1>2. Shape'
  BY <1>1 DEF Shape, Longer
<1>3. Unopened'
  BY DEF Unopened
<1>4. \A m \in 1 .. Len(requests') : Requested(m)'
  <2> TAKE m \in 1 .. Len(requests')
  <2>1. Requested(m) /\ m \in 1 .. Len(requests) /\ requests[m].heard \in Nat
    BY <1>1, RequestFields
  <2>2. Len(log) \in Nat /\ Len(log') \in Nat /\ Len(log') > Len(log)
    BY DEF Shape, Longer
  <2>3. requests[m].heard <= Len(log)
    BY <2>1 DEF Requested
  <2>4. CASE m = n
    <3>1. heard < Len(log')
      BY <2>1, <2>2, <2>3, <2>4
    <3> QED
      BY <1>1, <2>1, <2>2, <2>4, <3>1 DEF Requested
  <2>5. CASE m # n
    BY <1>1, <2>1, <2>2, <2>3, <2>5 DEF Requested
  <2> QED
    BY <2>4, <2>5
<1>5. AnswersOnce' /\ OneReview'
  BY MovedAnswers
<1> QED
  BY <1>2, <1>3, <1>4, <1>5

LEMMA OpensStep ==
  ASSUME IInv, NEW p \in Pages, Opens(p)
  PROVE  IInv'
<1> USE DEF IInv
<1>1. /\ page' \in [Pages -> PageRecords] /\ \A o \in Pages : o # p => page'[o] = page[o]
      /\ ~page[p].up /\ page'[p].up
      /\ \A i \in Interrupts : page'[p].queued[i] \in [1 .. Total[i] -> Marks]
  BY OpensEffect
<1>2. page[p].responded \subseteq page'[p].responded
  BY <1>1, LoadedIs DEF Unopened
<1>3. Following(p)'
  BY OpensFollowing
<1> QED
  BY <1>1, <1>2, <1>3, PageStep DEF Opens

LEMMA RendersStep ==
  ASSUME IInv, NEW p \in Pages, Renders(p)
  PROVE  IInv'
<1> USE DEF IInv
<1>1. /\ page' \in [Pages -> PageRecords] /\ \A o \in Pages : o # p => page'[o] = page[o]
      /\ page[p].up /\ page'[p] = Rendered(page[p]) /\ page[p] \in PageRecords
  BY RendersEffect, PageFields
<1>2. page'[p].up /\ page'[p].responded = page[p].responded
  BY <1>1, RenderedKeeps
<1>3. \A i \in Interrupts : page'[p].queued[i] \in [1 .. Total[i] -> Marks]
  BY <1>1, ReviewRendered DEF Following, Shape
<1>4. Following(p)'
  BY RendersFollowing
<1> QED
  BY <1>1, <1>2, <1>3, <1>4, PageStep DEF Renders

LEMMA HearsStep ==
  ASSUME IInv, NEW p \in Pages, Hears(p)
  PROVE  IInv'
<1> USE DEF IInv
<1>1. /\ page' \in [Pages -> PageRecords] /\ \A o \in Pages : o # p => page'[o] = page[o]
      /\ page'[p].up /\ page'[p].responded = page[p].responded
      /\ page'[p].queued = page[p].queued
  BY HearsEffect
<1>2. \A i \in Interrupts : page'[p].queued[i] \in [1 .. Total[i] -> Marks]
  BY <1>1 DEF Shape
<1>3. Following(p)'
  BY HearsFollowing
<1> QED
  BY <1>1, <1>2, <1>3, PageStep DEF Hears

LEMMA ReplaysStep ==
  ASSUME IInv, NEW p \in Pages, Replays(p)
  PROVE  IInv'
<1> USE DEF IInv
<1>1. page[p].live <= Len(log)
  BY DEF Following, Place
<1>2. /\ page' \in [Pages -> PageRecords] /\ \A o \in Pages : o # p => page'[o] = page[o]
      /\ page'[p].up /\ page'[p].responded = page[p].responded
      /\ page'[p].queued = page[p].queued
  BY <1>1, ReplaysEffect
<1>3. \A i \in Interrupts : page'[p].queued[i] \in [1 .. Total[i] -> Marks]
  BY <1>2 DEF Shape
<1>4. Following(p)'
  BY ReplaysFollowing
<1> QED
  BY <1>2, <1>3, <1>4, PageStep DEF Replays

LEMMA DecidesStep ==
  ASSUME IInv, NEW p \in Pages, NEW i \in Interrupts, NEW k \in 1 .. Total[i], Decides(p, i, k)
  PROVE  IInv'
<1> USE DEF IInv
<1> DEFINE given == page'[p].queued[i]
           new == Request(p, i, given)
<1>1. /\ page' \in [Pages -> PageRecords] /\ \A o \in Pages : o # p => page'[o] = page[o]
      /\ page'[p].up /\ i \in page[p].shown /\ i \notin page[p].responded
      /\ page'[p].shown = page[p].shown
      /\ page[p].responded \subseteq page'[p].responded
      /\ given \in [1 .. Total[i] -> Marks]
      /\ \A o \in Interrupts : o # i => page'[p].queued[o] = page[p].queued[o]
      /\ \/ requests' = requests
         \/ /\ requests' = Append(requests, new)
            /\ i \in page'[p].responded /\ \A j \in 1 .. Total[i] : given[j] # "none"
  BY DecidesEffect
<1>2. \A o \in Interrupts : page'[p].queued[o] \in [1 .. Total[o] -> Marks]
  <2> TAKE o \in Interrupts
  <2> QED
    BY <1>1 DEF Shape
<1>3. UNCHANGED <<open, log>>
  BY DEF Decides
<1>4. CASE requests' = requests
  <2>1. Keeps(p)
    BY <1>4 DEF Keeps
  <2>2. Following(p)'
    BY <2>1, DecidesFollowing
  <2> QED
    BY <1>1, <1>2, <1>3, <1>4, <2>2, PageStep
<1>5. CASE /\ requests' = Append(requests, new)
           /\ i \in page'[p].responded /\ \A j \in 1 .. Total[i] : given[j] # "none"
  <2>1. page[p].seen \in Nat /\ page[p].at \in Nat /\ Len(log) \in Nat
    BY PageFields DEF Shape
  <2>2. given \in Answers
    BY <1>1 DEF Answers
  <2>3. /\ new \in RequestRecords /\ new.page = p /\ new.what = i /\ new.given = given
        /\ new.heard = page[p].seen /\ new.step = "sent"
    BY <2>1, <2>2, RequestIs
  <2>4. new.heard <= Len(log)
    BY <2>1, <2>3 DEF Following, Place
  <2> HIDE DEF new
  <2>5. Following(p)'
    BY <1>5, <2>3, AppendedKeeps, DecidesFollowing
  <2>6. \A j \in DOMAIN new.given : new.given[j] = "new"
    <3>1. Review(page[p])'
      BY <2>5 DEF Following
    <3>2. \A j \in 1 .. Total[i] : given[j] = "new"
      BY <1>5, <3>1 DEF Review
    <3>3. DOMAIN given = 1 .. Total[i]
      BY <1>1
    <3> HIDE DEF given
    <3> QED
      BY <2>3, <3>2, <3>3
  <2>7. new.what # Message
    BY <2>3, MessageIs
  <2> QED
    BY <1>1, <1>2, <1>3, <1>5, <2>3, <2>4, <2>5, <2>6, <2>7, RequestStep
<1> QED
  BY <1>1, <1>4, <1>5

LEMMA SendsStep ==
  ASSUME IInv, NEW p \in Pages, Sends(p)
  PROVE  IInv'
<1> USE DEF IInv
<1> DEFINE q == page[p]
           new == Request(p, Message, <<>>)
<1>1. /\ page' \in [Pages -> PageRecords] /\ \A o \in Pages : o # p => page'[o] = page[o]
      /\ page'[p].up /\ q.up /\ ~q.locked /\ page'[p].responded = q.responded
      /\ requests' = Append(requests, new)
  BY SendsEffect
<1>2. UNCHANGED <<open, log>>
  BY DEF Sends
<1>3. q.seen \in Nat /\ q.at \in Nat /\ q.live \in Nat /\ Len(log) \in Nat
  BY PageFields DEF Shape
<1>4. /\ new \in RequestRecords /\ new.page = p /\ new.what = Message /\ new.given = <<>>
      /\ new.heard = q.seen /\ new.step = "sent"
  BY <1>3, RequestIs
<1> HIDE DEF new
<1>5. Following(p)'
  BY SendsFollowing
<1>6. \A i \in Interrupts : page'[p].queued[i] \in [1 .. Total[i] -> Marks]
  <2>1. PICK s \in PageRecords : /\ s.queued = q.queued /\ s.shown = q.shown
                                 /\ page'[p] = Rendered(s)
    BY SendsEffect
  <2>2. Review(s) /\ \A i \in Interrupts : s.queued[i] \in [1 .. Total[i] -> Marks]
    BY <2>1 DEF Following, Review, Shape
  <2> QED
    BY <2>1, <2>2, ReviewRendered
<1>7. q.seen <= q.at /\ q.at <= Len(log) /\ q.live <= Len(log)
  BY DEF Following, Place
<1>8. ASSUME q.seen = Len(log)
      PROVE  open \subseteq q.responded
  <2>1. q.at = Len(log)
    BY <1>3, <1>7, <1>8
  <2>2. CASE q.at <= q.live
    BY <1>1, <1>3, <1>7, <2>1, <2>2 DEF Following, Opening
  <2>3. CASE q.at > q.live
    <3>1. q.calls \/ open = {}
      BY <1>1, <1>3, <2>1 DEF Following, Called
    <3>2. q.calls => q.record \subseteq q.responded
      BY <1>1, <1>8, <2>1, <2>3 DEF Following, Unlocked
    <3>3. \A k \in 1 .. Len(log) : log[k].kind = "input" => log[k].i \in q.record
      BY <1>1, <1>3, <2>1, <2>3 DEF Following, Recorded
    <3>4. open \subseteq q.record
      BY <3>3, RaisedAre DEF Chronicle
    <3> QED
      BY <3>1, <3>2, <3>4
  <2> QED
    BY <1>3, <2>2, <2>3
<1>9. DOMAIN new.given = {}
  BY <1>4
<1> HIDE DEF q
<1>10. new.heard <= Len(log) /\ (new.heard = Len(log) => open \subseteq page'[p].responded)
  BY <1>1, <1>3, <1>4, <1>7, <1>8
<1>11. page[p].responded \subseteq page'[p].responded
  BY <1>1 DEF q
<1> QED
  BY <1>1, <1>2, <1>4, <1>5, <1>6, <1>9, <1>10, <1>11, RequestStep

LEMMA ValidatesStep ==
  ASSUME IInv, NEW n \in DOMAIN requests, Validates(n)
  PROVE  IInv'
<1> USE DEF IInv
<1>1. requests[n].what \in open /\ requests[n].step = "sent" /\ UNCHANGED <<open, log, page>>
  BY DEF Validates, AtStep
<1>2. n \in 1 .. Len(requests) /\ Moved(n, "valid", "none", requests[n].heard)
  BY MovesEffect DEF Validates, Steps
<1>3. requests[n].what # Message
  BY <1>1, MessageIs DEF Shape
<1>4. \A p \in Pages : Following(p)'
  BY <1>1, <1>2, <1>3, MovedKeeps, FollowingKept
<1>5. "valid" \notin Active /\ requests[n].step \notin Active
  BY <1>1 DEF Active
<1> QED
  BY <1>1, <1>2, <1>3, <1>4, <1>5, QuietStep DEF Shape

LEMMA RefusesStep ==
  ASSUME IInv, NEW n \in DOMAIN requests, Refuses(n)
  PROVE  IInv'
<1> USE DEF IInv
<1> DEFINE o == requests[n].page
<1>1. /\ n \in 1 .. Len(requests) /\ requests[n].step = "sent"
      /\ Moved(n, "refused", "none", requests[n].heard)
      /\ UNCHANGED <<open, log>> /\ page' \in [Pages -> PageRecords] /\ o \in Pages
      /\ \A p \in Pages : p # o => page'[p] = page[p]
      /\ requests[n].what # Message => page' = page
  BY RefusesEffect
<1>2. requests[n].what = Message =>
        /\ page'[o].up = page[o].up /\ page'[o].responded = page[o].responded
        /\ page'[o].queued = page[o].queued
  BY RefusesEffect
<1>3. page[o].up
  BY <1>1 DEF Requested
<1>4. \A p \in Pages : /\ page'[p].responded = page[p].responded
                       /\ page'[p].queued = page[p].queued /\ page'[p].up = page[p].up
                       /\ ~page[p].up => page'[p] = page[p]
  BY <1>1, <1>2, <1>3
<1>5. ASSUME NEW p \in Pages
      PROVE  Following(p)'
  <2>1. CASE requests[n].what = Message /\ p = o
    BY <1>1, <2>1, RefusesFollowing
  <2>2. CASE requests[n].what # Message \/ p # o
    <3>1. Keeps(p)
      BY <1>1, <2>2, MovedKeeps
    <3> QED
      BY <1>1, <2>2, <3>1, FollowingKept
  <2> QED
    BY <2>1, <2>2
<1>6. "refused" \notin Active /\ requests[n].step \notin Active
  BY <1>1 DEF Active
<1> QED
  BY <1>1, <1>4, <1>5, <1>6, QuietStep

LEMMA ConsumesStep ==
  ASSUME IInv, NEW n \in DOMAIN requests, Consumes(n)
  PROVE  IInv'
<1> USE DEF IInv
<1>1. /\ requests[n].step = "running" /\ open' \subseteq open /\ UNCHANGED <<log, page>>
      /\ Goes(n, "past")
  BY DEF Consumes, AtStep
<1>2. n \in 1 .. Len(requests) /\ requests[n].kind \in {"none", "resume", "turn", "stray"}
  BY RequestFields DEF Shape
<1>3. Moved(n, "past", requests[n].kind, requests[n].heard)
  BY <1>1, <1>2, MovesEffect DEF Goes, Steps
<1>4. \A p \in Pages : Following(p)'
  BY <1>1, <1>2, <1>3, MovedKeeps, FollowingKept
<1>5. "past" \in Active /\ requests[n].step \in Active
  BY <1>1 DEF Active
<1> QED
  BY <1>1, <1>2, <1>3, <1>4, <1>5, QuietStep DEF Shape

LEMMA CreatesStep ==
  ASSUME IInv, NEW n \in DOMAIN requests, Creates(n)
  PROVE  IInv'
<1> USE DEF IInv
<1>1. PICK kind \in {"none", "resume", "turn", "stray"} : Moved(n, "running", kind, 0)
  BY CreatesEffect
<1>2. /\ n \in 1 .. Len(requests)
      /\ Longer /\ Raised \subseteq Raised' /\ Len(log') = Len(log) + 1
      /\ log'[Len(log) + 1].kind = "running"
      /\ UNCHANGED <<open, page>>
  BY CreatesEffect
<1>3. Len(log) \in Nat /\ Len(log) >= 1
  BY DEF Shape
<1>4. log'[Len(log')].kind = "running"
  BY <1>2
<1>5. \A p \in Pages : Following(p)'
  BY <1>2, <1>4, FollowingGrown
<1>6. Chronicle'
  <2>1. open' \subseteq Raised'
    BY <1>2 DEF Chronicle
  <2>2. ASSUME NEW k \in 1 .. Len(log'), log'[k].kind = "ended",
               \A m \in 1 .. Len(log') : m > k => log'[m].kind # "ended"
        PROVE  log'[k].calls \/ open' = {}
    <3>1. k # Len(log')
      BY <1>4, <2>2
    <3>2. k \in 1 .. Len(log) /\ log'[k] = log[k]
      BY <1>2, <1>3, <3>1 DEF Longer
    <3>3. \A m \in 1 .. Len(log) : m \in 1 .. Len(log') /\ log'[m] = log[m]
      BY <1>2, <1>3 DEF Longer
    <3> QED
      BY <1>2, <2>2, <3>2, <3>3 DEF Chronicle
  <2>3. n \in 1 .. Len(requests') /\ requests'[n].step \in Active
    BY <1>1, <1>2 DEF Moved, Active
  <2> QED
    BY <2>1, <2>2, <2>3 DEF Chronicle
<1> QED
  BY <1>1, <1>2, <1>5, <1>6, GrowingStep DEF Shape

LEMMA EndsStep ==
  ASSUME IInv, NEW n \in DOMAIN requests,
         Finishes(n) \/ Breaks(n) \/ \E new \in SUBSET (Interrupts \ Raised) : Pauses(n, new)
  PROVE  IInv'
<1> USE DEF IInv
<1>1. /\ n \in 1 .. Len(requests) /\ requests[n].step \in Active
      /\ Moved(n, "ended", requests[n].kind, requests[n].heard)
      /\ open' \subseteq Interrupts /\ page' = page
      /\ Longer /\ open' \subseteq Raised'
      /\ log'[Len(log')].kind = "ended" /\ (log'[Len(log')].calls \/ open' = {})
  BY EndsEffect DEF Chronicle
<1>2. Raised \subseteq Raised'
  <2>1. DOMAIN log = 1 .. Len(log) /\ DOMAIN log' = 1 .. Len(log') /\ Len(log) \in Nat
        /\ Len(log') \in Nat
    BY <1>1 DEF Shape, Longer
  <2>2. 1 .. Len(log) \subseteq 1 .. Len(log')
    BY <1>1, <2>1 DEF Longer
  <2> QED
    BY <1>1, <2>1, <2>2 DEF Longer, Raised, InputsOf
<1>3. requests[n].step # "sent"
  BY <1>1 DEF Active
<1>4. \A p \in Pages : Following(p)'
  BY <1>1, <1>2, <1>3, MovedKeeps, FollowingGrown
<1>5. Chronicle'
  <2>1. Len(log') \in 1 .. Len(log') /\ \A k \in 1 .. Len(log') : k = Len(log') \/ Len(log') > k
    BY <1>1 DEF Longer
  <2> QED
    BY <1>1, <2>1 DEF Chronicle
<1> QED
  BY <1>1, <1>4, <1>5, GrowingStep

\* No step of the pages, the server or the graph breaks the invariant.
LEMMA NextInvariant == IInv /\ [Next]_vars => IInv'
<1> SUFFICES ASSUME IInv, [Next]_vars PROVE IInv'
  OBVIOUS
<1>1. CASE UNCHANGED vars
  <2>1. IInv' <=> IInv
    BY <1>1 DEF IInv, vars, Shape, Unopened, Chronicle, Raised, InputsOf, Requested, Following,
                Place, Review, Recorded, Offered, Opening, Unlocked, Called, Loads, AnswersOnce,
                OneReview
  <2> QED
    BY <2>1
<1>2. CASE Runs
  BY <1>2, ConsumesStep, EndsStep DEF Runs
<1>3. CASE Serves
  BY <1>3, ValidatesStep, RefusesStep, CreatesStep DEF Serves
<1>4. ASSUME NEW p \in Pages,
             \/ Opens(p) \/ Hears(p) \/ Replays(p) \/ Renders(p) \/ Sends(p)
             \/ \E i \in Interrupts : \E k \in 1 .. Total[i] : Decides(p, i, k)
      PROVE  IInv'
  BY <1>4, OpensStep, HearsStep, ReplaysStep, RendersStep, SendsStep, DecidesStep
<1> QED
  BY <1>1, <1>2, <1>3, <1>4 DEF Next

-----------------------------------------------------------------------------
(* Theorems *)

\* Each page's account of the thread is right, in every behaviour.
THEOREM Invariance == Spec => []IInv
BY InitInvariant, NextInvariant, PTL DEF Spec

\* What the pages have is what the thread has asked, and they are somewhere in its events.
THEOREM TypeCorrect == Spec => []TypeOK
<1>1. ASSUME IInv
      PROVE  TypeOK
  <2> USE <1>1 DEF IInv
  <2>1. open \subseteq Raised
    BY DEF Chronicle
  <2>2. \A k \in DOMAIN log : log[k].kind \in {"running", "input", "ended"}
    BY LogIs DEF Shape
  <2>3. ASSUME NEW n \in DOMAIN requests
        PROVE  /\ requests[n].what \in Interrupts \cup {Message}
               /\ requests[n].step \in Steps
               /\ requests[n].kind \in {"none", "resume", "turn", "stray"}
               /\ requests[n].step = "valid" => requests[n].what \in Interrupts
    <3>1. n \in 1 .. Len(requests)
      BY DEF Shape
    <3> QED
      BY <3>1, RequestFields DEF Requested
  <2>4. ASSUME NEW p \in Pages
        PROVE  /\ page[p].up \in BOOLEAN
               /\ page[p].seen <= page[p].at /\ page[p].at \in 0 .. Len(log)
               /\ page[p].root \cup page[p].record \cup page[p].shown \cup page[p].responded
                    \subseteq Raised
               /\ \A i \in Interrupts : \A k \in 1 .. Total[i] :
                    page[p].queued[i][k] \in {"none", "new", "old"}
    <3>1. Len(log) \in Nat
      BY DEF Shape
    <3>2. \A i \in Interrupts : \A k \in 1 .. Total[i] : page[p].queued[i][k] \in Marks
      BY DEF Shape
    <3> QED
      BY <3>1, <3>2, PageFields DEF Following, Place, Marks
  <2> QED
    BY <2>1, <2>2, <2>3, <2>4 DEF TypeOK
<1> QED
  BY <1>1, Invariance, PTL

\* useInterruptApprovals marks an interrupt as responded before it submits the answer, so
\* whatever brings the interrupt back, the page answers it once.
THEOREM AnswersOnceHolds == Spec => []AnswersOnce
BY Invariance, PTL DEF IInv

\* A decision is dropped when its interrupt stops pending, so that an answer never mixes
\* decisions of two reviews.
THEOREM OneReviewHolds == Spec => []OneReview
BY Invariance, PTL DEF IInv

\* The candidates of a page that has caught up contain every open interrupt: the root store
\* those it was opened with and those it has heard, and the record, which counts once a run
\* has ended with calls left, those it has only heard of.
THEOREM OffersReviewHolds == Spec => []OffersReview
<1>1. ASSUME IInv
      PROVE  OffersReview
  <2> USE <1>1 DEF IInv
  <2> SUFFICES ASSUME NEW p \in Pages,
                      page[p].up, page[p].at = Len(log), ~page[p].due,
                      \A n \in DOMAIN requests : requests[n].step \notin
                        Active \cup (IF requests[n].what = Message THEN {"sent"} ELSE {})
               PROVE  open \subseteq page[p].responded \cup page[p].shown
    BY DEF OffersReview
  <2> DEFINE q == page[p]
  <2>1. q.live \in Nat /\ Len(log) \in Nat /\ q.live <= Len(log)
    BY PageFields DEF Following, Place, Shape
  <2>2. \A n \in 1 .. Len(requests) :
          /\ requests[n].step \notin Active
          /\ requests[n].what = Message => requests[n].step # "sent"
    BY DEF Shape
  <2>3. CASE q.at <= q.live
    <3>1. open \subseteq q.root
      BY <2>1, <2>3 DEF Following, Opening
    <3> QED
      BY <3>1 DEF Following, Offered
  <2>4. CASE q.at > q.live
    <3>1. log[q.at].kind = "ended"
      BY <2>2 DEF Chronicle
    <3>2. ~q.loading
      BY <2>1, <2>2, <2>4, <3>1 DEF Following, Loads
    <3>3. q.calls \/ open = {}
      BY <2>1 DEF Following, Called
    <3>4. \A k \in 1 .. Len(log) : log[k].kind = "input" => log[k].i \in q.record
      BY <2>1, <2>4 DEF Following, Recorded
    <3>5. open \subseteq q.record
      BY <3>4, RaisedAre DEF Chronicle
    <3> QED
      BY <2>4, <3>1, <3>2, <3>3, <3>5 DEF Following, Offered
  <2> QED
    BY <2>1, <2>3, <2>4
<1> QED
  BY <1>1, Invariance, PTL

\* Only a creation takes a message for an answer. Until events come, what was open when the
\* composer was free its page has answered.
THEOREM ComposerLocksHolds == Spec => ComposerLocks
<1> DEFINE Locks(n) ==
      requests[n].what = Message /\ requests[n].kind = "none" /\ requests'[n].kind = "stray"
      => \/ requests[n].heard < Len(log)
         \/ open \subseteq page[requests[n].page].responded
<1>1. ASSUME IInv, [Next]_vars, NEW n \in DOMAIN requests
      PROVE  Locks(n)
  <2> USE <1>1 DEF IInv
  <2>1. n \in 1 .. Len(requests) /\ Len(log) \in Nat /\ requests[n].heard \in Nat
    BY RequestFields DEF Shape
  <2>2. CASE requests'[n].kind \in {"none", requests[n].kind}
    BY <2>2
  <2>3. ASSUME NEW m \in DOMAIN requests, Creates(m)
        PROVE  Locks(n)
    <3>1. PICK kind \in {"none", "resume", "turn", "stray"} : Moved(m, "running", kind, 0)
      BY <2>3, CreatesEffect
    <3>2. CASE m # n
      BY <2>1, <3>1, <3>2 DEF Moved
    <3>3. CASE m = n
      <4> SUFFICES ASSUME requests[n].what = Message, ~(requests[n].heard < Len(log))
                   PROVE  open \subseteq page[requests[n].page].responded
        OBVIOUS
      <4>1. requests[n].step = "sent"
        BY <2>3, <3>3, CreatesEffect
      <4>2. requests[n].heard = Len(log)
        BY <2>1 DEF Requested
      <4> QED
        BY <2>1, <4>1, <4>2 DEF Requested
    <3> QED
      BY <3>2, <3>3
  <2>4. ASSUME NEW m \in 1 .. Len(requests), NEW step, NEW kind \in {"none", requests[m].kind},
               NEW heard, Moved(m, step, kind, heard)
        PROVE  Locks(n)
    <3>1. requests'[n].kind \in {"none", requests[n].kind}
      BY <2>1, <2>4 DEF Moved
    <3> QED
      BY <2>2, <3>1
  <2>5. CASE Serves
    <3>1. PICK m \in DOMAIN requests : Validates(m) \/ Refuses(m) \/ Creates(m)
      BY <2>5 DEF Serves
    <3>2. CASE Validates(m)
      <4>1. m \in 1 .. Len(requests) /\ Moved(m, "valid", "none", requests[m].heard)
        BY <3>2, MovesEffect DEF Validates, Steps
      <4> QED
        BY <2>4, <4>1
    <3>3. CASE Refuses(m)
      <4>1. m \in 1 .. Len(requests) /\ Moved(m, "refused", "none", requests[m].heard)
        BY <3>3, RefusesEffect
      <4> QED
        BY <2>4, <4>1
    <3> QED
      BY <2>3, <3>1, <3>2, <3>3
  <2>6. CASE Runs
    <3>1. PICK m \in DOMAIN requests :
            \/ Consumes(m) \/ Finishes(m) \/ Breaks(m)
            \/ \E new \in SUBSET (Interrupts \ Raised) : Pauses(m, new)
      BY <2>6 DEF Runs
    <3>2. \E step \in Steps : Goes(m, step)
      BY <3>1 DEF Consumes, Finishes, Breaks, Pauses, Steps
    <3>3. m \in 1 .. Len(requests) /\ requests[m].kind \in {"none", "resume", "turn", "stray"}
      BY RequestFields DEF Shape
    <3>4. \E step \in Steps : Moved(m, step, requests[m].kind, requests[m].heard)
      BY <3>2, <3>3, MovesEffect DEF Goes
    <3> QED
      BY <2>4, <3>3, <3>4
  <2>7. ASSUME NEW p \in Pages,
               \/ Opens(p) \/ Hears(p) \/ Replays(p) \/ Renders(p) \/ Sends(p)
               \/ \E i \in Interrupts : \E k \in 1 .. Total[i] : Decides(p, i, k)
        PROVE  Locks(n)
    <3>1. \/ requests' = requests
          \/ \E r : requests' = Append(requests, r)
      BY <2>7 DEF Opens, Hears, Replays, Renders, Sends, Decides
    <3>2. requests'[n] = requests[n]
      BY <2>1, <3>1 DEF Shape
    <3> QED
      BY <2>2, <3>2
  <2>8. CASE UNCHANGED vars
    BY <2>2, <2>8 DEF vars
  <2> QED
    BY <2>5, <2>6, <2>7, <2>8 DEF Next
<1>2. IInv /\ [Next]_vars => \A n \in DOMAIN requests : Locks(n)
  BY <1>1
<1>3. IInv /\ [Next]_vars =>
        [\A n \in DOMAIN requests :
           LET r == requests[n] IN
           r.what = Message /\ r.kind = "none" /\ requests'[n].kind = "stray"
           => r.heard < Len(log) \/ open \subseteq page[r.page].responded]_vars
  BY <1>2
<1> QED
  BY <1>3, Invariance, PTL DEF Spec, ComposerLocks
=============================================================================
