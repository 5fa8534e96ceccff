----------------------------- MODULE Approvals -----------------------------
(***************************************************************************)
(* Human approval of tool calls: what useInterruptApprovals shows and      *)
(* collects in each open page of a thread, the composer beside it, the     *)
(* commands input.respond and run.start that leave a page, and how the     *)
(* server turns either into a run.                                         *)
(*                                                                         *)
(* The graph, and the SDK that keeps a page's interrupts, thread record    *)
(* and isLoading, are external: a page hears the thread's events in their  *)
(* order, and what happened before it was opened only replays interrupts   *)
(* into the thread record.                                                 *)
(***************************************************************************)
EXTENDS Integers, Sequences, FiniteSets, SequencesExt

CONSTANTS
  Interrupts,   \* interrupts the graph may raise, each under an id of its own
  Deep,         \* those raised by a subagent
  Total,        \* the number of actions each one asks to review
  Pages,        \* loads of the page; one that is left or reloaded does no more
  MaxRequests,  \* responds and chat messages, the first one included (bound)
  MaxEvents,    \* events of the thread (bound)
  First,        \* the page where the thread begins
  Message,      \* what a request carries that answers no interrupt
  Faults        \* "refuse", "stop", "state"

ASSUME ConstantsAssumption ==
  /\ IsFiniteSet(Interrupts) /\ Deep \subseteq Interrupts
  /\ Total \in [Interrupts -> Nat \ {0}]
  /\ MaxRequests \in Nat /\ MaxEvents \in Nat /\ Message \notin Interrupts /\ First \in Pages
  /\ Faults \subseteq {"refuse", "stop", "state"}

VARIABLES
  open,      \* the interrupts in the thread's state
  log,       \* the thread's events: a run starts, asks for input, ends
  requests,  \* calls of the pages, each with the run it led to
  page       \* each page, what it has of the SDK and the state of its hook

vars == <<open, log, requests, page>>

Event(kind, i, calls) == [kind |-> kind, i |-> i, calls |-> calls]
InputsOf(events) == {events[k].i : k \in {k \in DOMAIN events : events[k].kind = "input"}}
Raised == InputsOf(log)
Undecided == [i \in Interrupts |-> [k \in 1 .. Total[i] |-> "none"]]

Steps == {"sent", "valid", "refused", "running", "past", "ended"}
Active == {"running", "past"}

TypeOK ==
  /\ open \subseteq Raised
  /\ \A k \in DOMAIN log : log[k].kind \in {"running", "input", "ended"}
  /\ \A n \in DOMAIN requests :
       /\ requests[n].what \in Interrupts \cup {Message}
       /\ requests[n].step \in Steps /\ requests[n].kind \in {"none", "resume", "turn", "stray"}
       /\ requests[n].step = "valid" => requests[n].what \in Interrupts
  /\ \A p \in Pages :
       /\ page[p].up \in BOOLEAN
       /\ page[p].seen <= page[p].at /\ page[p].at \in 0 .. Len(log)
       /\ page[p].root \cup page[p].record \cup page[p].shown \cup page[p].responded
            \subseteq Raised
       /\ \A i \in Interrupts : \A k \in 1 .. Total[i] :
            page[p].queued[i][k] \in {"none", "new", "old"}

\* A page that loads an empty thread, and one whose user has sent a message there.
Loaded == [up |-> FALSE, at |-> 0, live |-> 0, seen |-> 0, due |-> FALSE,
           root |-> {}, record |-> {}, loading |-> FALSE, calls |-> FALSE,
           responded |-> {}, queued |-> Undecided, shown |-> {}, locked |-> FALSE]
Begun == [Loaded EXCEPT !.up = TRUE, !.loading = TRUE, !.locked = TRUE]

Init ==
  /\ open = {} /\ log = <<Event("running", Message, FALSE)>>
  /\ requests = <<[page |-> First, what |-> Message, given |-> <<>>, heard |-> 0,
                   step |-> "running", kind |-> "turn"]>>
  /\ page = [p \in Pages |-> IF p = First THEN Begun ELSE Loaded]

\* The events a step adds; the thread goes on as long as the bound leaves room.
Adds(events) == log' = log \o events /\ Len(log') <= MaxEvents

-----------------------------------------------------------------------------
(* A page: useInterruptApprovals, and the composer *)

\* Mutant of Candidates: the root store alone.
RootCandidates(q) == q.root

\* The root store is authoritative; the record, which replays interrupts that were
\* resolved, counts while the page is idle with unanswered calls.
Candidates(q) == q.root \cup (IF ~q.loading /\ q.calls THEN q.record ELSE {})

Pending(q) == Candidates(q) \ q.responded

\* Mutant of Pruned: the decisions stay.
PrunedNothing(q, alive) == q

\* Mutant of Pruned: it forgets what it responded to as well.
PrunedMarkers(q, alive) ==
  [q EXCEPT !.responded = @ \cap alive,
            !.queued = [i \in Interrupts |-> IF i \in alive THEN @[i] ELSE Undecided[i]]]

\* Decisions for interrupts that are no longer pending are dropped.
Pruned(q, alive) ==
  [q EXCEPT !.queued = [i \in Interrupts |-> IF i \in alive THEN @[i] ELSE Undecided[i]]]

\* History: decisions made before the interrupt was shown this time.
Aged(given) == [k \in DOMAIN given |-> IF given[k] = "none" THEN "none" ELSE "old"]

\* A render derives what is pending, the effect after it prunes, and the composer's
\* lock is that of the last render.
Rendered(q) ==
  [Pruned(q, Pending(q)) EXCEPT
     !.shown = Pending(q), !.due = FALSE, !.seen = q.at,
     !.locked = q.loading \/ Pending(q) # {} \/ q.root # {},
     !.queued = [i \in Interrupts |-> IF i \in q.shown THEN @[i] ELSE Aged(@[i])]]

Renders(p) ==
  /\ page[p].up /\ page[p].due
  /\ page' = [page EXCEPT ![p] = Rendered(@)]
  /\ UNCHANGED <<open, log, requests>>

\* The thread is hydrated: its interrupts, whoever raised them, its messages, and
\* whether a run is in flight; the stream is read again from its beginning.
Opens(p) ==
  /\ ~page[p].up
  /\ \E calls \in IF open # {} THEN {TRUE} ELSE {log[Len(log)].calls} :
       page' = [page EXCEPT ![p] =
         Rendered([@ EXCEPT !.up = TRUE, !.live = Len(log), !.root = open, !.calls = calls,
                            !.loading = \E n \in DOMAIN requests : requests[n].step \in Active])]
  /\ UNCHANGED <<open, log, requests>>

\* A live event changes what the SDK has; an interrupt of a subagent reaches the
\* record only, which renders nothing.
Heard(q, e) ==
  CASE e.kind = "running" -> [q EXCEPT !.loading = TRUE, !.root = {}, !.due = TRUE]
    [] e.kind = "input" /\ e.i \in Deep -> [q EXCEPT !.record = @ \cup {e.i}]
    [] e.kind = "input" /\ e.i \notin Deep ->
         [q EXCEPT !.record = @ \cup {e.i}, !.root = @ \cup {e.i}, !.due = TRUE]
    [] e.kind = "ended" -> [q EXCEPT !.loading = FALSE, !.calls = e.calls, !.due = TRUE]

\* Mutant of Hears: the end of a run renders nothing.
HearsEndUnrendered(p) ==
  LET q == page[p] e == log[q.at + 1] IN
  /\ q.up /\ q.at \in q.live .. Len(log) - 1
  /\ page' = [page EXCEPT ![p] = [Heard(@, e) EXCEPT !.at = @ + 1,
                                                    !.due = e.kind # "ended" /\ @]]
  /\ UNCHANGED <<open, log, requests>>

\* Mutant of Hears: an event is passed over.
HearsEverySecond(p) ==
  LET q == page[p] e == log[q.at + 1] IN
  /\ q.up /\ q.at \in q.live .. Len(log) - 1
  /\ page' = [page EXCEPT ![p] = [Heard(@, e) EXCEPT !.at = @ + 2]]
  /\ UNCHANGED <<open, log, requests>>

Hears(p) ==
  LET q == page[p] e == log[q.at + 1] IN
  /\ q.up /\ q.at \in q.live .. Len(log) - 1
  /\ page' = [page EXCEPT ![p] = [Heard(q, e) EXCEPT !.at = q.at + 1]]
  /\ UNCHANGED <<open, log, requests>>

\* What the stream replays of the time before the page was loaded fills the record.
Replays(p) ==
  LET q == page[p] IN
  /\ q.up /\ q.at < q.live
  /\ page' = [page EXCEPT ![p].at = q.live, ![p].seen = q.live,
                          ![p].record = InputsOf(SubSeq(log, 1, q.live))]
  /\ UNCHANGED <<open, log, requests>>

Request(p, what, given) ==
  [page |-> p, what |-> what, given |-> given, heard |-> page[p].seen,
   step |-> "sent", kind |-> "none"]

\* decide, on a card of the last render: the decision is queued, and the last one of
\* an interrupt sends them all in one respond and marks it, both before any render.
Decides(p, i, k) ==
  LET q == page[p]
      given == [q.queued[i] EXCEPT ![k] = "new"]
      whole == \A j \in 1 .. Total[i] : given[j] # "none"
  IN
  /\ q.up /\ i \in q.shown /\ i \notin q.responded
  /\ Len(requests) < MaxRequests
  /\ page' = [page EXCEPT ![p].queued[i] = given,
                          ![p].responded = IF whole THEN @ \cup {i} ELSE @,
                          ![p].due = @ \/ whole]
  /\ requests' = IF whole THEN Append(requests, Request(p, i, given)) ELSE requests
  /\ UNCHANGED <<open, log>>

\* sendMessage, unless the composer is locked; unlike a respond it makes the page load.
Sends(p) ==
  /\ page[p].up /\ ~page[p].locked /\ Len(requests) < MaxRequests
  /\ requests' = Append(requests, Request(p, Message, <<>>))
  /\ page' = [page EXCEPT ![p] = Rendered([@ EXCEPT !.loading = TRUE])]
  /\ UNCHANGED <<open, log>>

-----------------------------------------------------------------------------
(* The server: each request has a manager of its own, without a session *)

Moves(n, step, kind) ==
  requests' = [requests EXCEPT ![n].step = step, ![n].kind = kind]
AtStep(n, step) == requests[n].step = step

\* input.respond looks for the interrupt in the thread's state.
Validates(n) ==
  /\ AtStep(n, "sent") /\ requests[n].what \in open
  /\ Moves(n, "valid", "none")
  /\ UNCHANGED <<open, log, page>>

\* no_such_interrupt, a state that cannot be read, a quota, a lost call: of a respond
\* the page takes no notice.
Refuses(n) ==
  /\ AtStep(n, "sent")
  /\ requests[n].what \notin open \cup {Message} \/ "refuse" \in Faults
  /\ Moves(n, "refused", "none")
  /\ page' = IF requests[n].what = Message
              THEN [page EXCEPT ![requests[n].page].loading = FALSE,
                                ![requests[n].page].due = TRUE]
              ELSE page
  /\ UNCHANGED <<open, log>>

\* _has_pending_interrupts reads the state once more; a read that fails finds none.
Interrupted == {open # {}} \cup (IF "state" \in Faults THEN {FALSE} ELSE {})

\* _create_or_resume_run: whatever comes while the thread has interrupts is a
\* resume, and an answer that comes when it has none is the graph's input.
RunKind(what, interrupted) ==
  CASE interrupted /\ what # Message -> "resume"
    [] ~interrupted /\ what = Message -> "turn"
    [] OTHER -> "stray"

Creates(n) ==
  /\ AtStep(n, IF requests[n].what = Message THEN "sent" ELSE "valid")
  /\ \E interrupted \in Interrupted :
       requests' = [requests EXCEPT ![n].step = "running", ![n].heard = 0,
                                    ![n].kind = RunKind(requests[n].what, interrupted)]
  /\ Adds(<<Event("running", Message, FALSE)>>)
  /\ UNCHANGED <<open, page>>

-----------------------------------------------------------------------------
(* Runs of the graph, external *)

Goes(n, step) == Moves(n, step, requests[n].kind)
Ended(calls) == Event("ended", Message, calls)

\* A resume answers its interrupt, a new turn leaves those there were.
Consumes(n) ==
  /\ AtStep(n, "running") /\ requests[n].kind # "stray" /\ Goes(n, "past")
  /\ open' = IF requests[n].kind = "turn" THEN {} ELSE open \ {requests[n].what}
  /\ UNCHANGED <<log, page>>

\* The run stops at interrupts, those it finds unanswered and new ones.
Pauses(n, new) ==
  /\ AtStep(n, "past") /\ open \cup new # {} /\ Goes(n, "ended")
  /\ open' = open \cup new
  /\ Adds([k \in 1 .. Cardinality(open') |-> Event("input", SetToSeq(open')[k], TRUE)]
            \o <<Ended(TRUE)>>)
  /\ UNCHANGED page

Finishes(n) ==
  /\ AtStep(n, "past") /\ open = {} /\ Goes(n, "ended")
  /\ Adds(<<Ended(FALSE)>>)
  /\ UNCHANGED <<open, page>>

\* A user stops the run, maybe with calls unanswered; input the graph cannot take
\* ends it too.
Breaks(n) ==
  /\ \/ AtStep(n, "running") /\ (requests[n].kind = "stray" \/ "stop" \in Faults)
     \/ AtStep(n, "past") /\ "stop" \in Faults
  /\ Goes(n, "ended")
  /\ \E calls \in {TRUE} \cup {open # {}} : Adds(<<Ended(calls)>>)
  /\ UNCHANGED <<open, page>>

-----------------------------------------------------------------------------
Runs ==
  \E n \in DOMAIN requests :
    \/ Consumes(n) \/ Finishes(n) \/ Breaks(n)
    \/ \E new \in SUBSET (Interrupts \ Raised) : Pauses(n, new)

Serves == \E n \in DOMAIN requests : Validates(n) \/ Refuses(n) \/ Creates(n)

Next ==
  \/ Runs \/ Serves
  \/ \E p \in Pages :
       \/ Opens(p) \/ Hears(p) \/ Replays(p) \/ Renders(p) \/ Sends(p)
       \/ \E i \in Interrupts : \E k \in 1 .. Total[i] : Decides(p, i, k)

Spec == Init /\ [][Next]_vars

-----------------------------------------------------------------------------
(* Properties *)

\* However often an interrupt comes back, by replay or because the run met it
\* again, a page answers it once: double clicks and phantom cards send nothing.
AnswersOnce ==
  \A m, n \in DOMAIN requests :
    m # n /\ requests[m].what # Message
    => <<requests[m].page, requests[m].what>> # <<requests[n].page, requests[n].what>>

\* The decisions of one respond were all made in one review: none is left over from
\* when the interrupt was shown before.
OneReview ==
  \A n \in DOMAIN requests :
    \A k \in DOMAIN requests[n].given : requests[n].given[k] = "new"

\* A chat message is taken for an answer only when the thread has changed since the
\* page it came from last rendered, or that page has answered all there is.
ComposerLocks ==
  [][\A n \in DOMAIN requests :
       LET r == requests[n] IN
       r.what = Message /\ r.kind = "none" /\ requests'[n].kind = "stray"
       => r.heard < Len(log) \/ open \subseteq page[r.page].responded]_vars

\* A page that has heard and rendered all there is, while no run and no message is
\* under way, shows every open interrupt it has not answered, however it came to know
\* it.
OffersReview ==
  \A p \in Pages :
    /\ page[p].up /\ page[p].at = Len(log) /\ ~page[p].due
    /\ \A n \in DOMAIN requests :
         requests[n].step \notin Active \cup (IF requests[n].what = Message THEN {"sent"} ELSE {})
    => open \subseteq page[p].responded \cup page[p].shown
=============================================================================
