----------------------------- MODULE ChatFiles -----------------------------
(***************************************************************************)
(* The Files panel of the workspace: the list useChat keeps of the files   *)
(* in the object store, the fetches that replace it (refreshFiles, and the *)
(* one at the end of setFiles), and what the user does beside them: saves  *)
(* in the editor, uploads, and deletes one file or a selection.  The agent *)
(* writes to the same store while it runs.                                 *)
(*                                                                         *)
(* A fetch lists the store and then reads each file by a request of its    *)
(* own; fetches overlap, and the one that ends last is shown.  A content   *)
(* is a number, 0 for a file that does not exist.                          *)
(***************************************************************************)
EXTENDS Integers, FiniteSets

CONSTANTS
  Files,        \* paths in the artifact areas
  MaxContents,  \* contents written in all (bound)
  MaxFetches,   \* fetches begun in all (bound)
  MaxFaults     \* requests that fail, or whose answer is lost (bound)

ASSUME ConstantsAssumption ==
  /\ IsFiniteSet(Files)
  /\ MaxContents \in Nat \ {0} /\ MaxFetches \in Nat \ {0} /\ MaxFaults \in Nat

VARIABLES
  store,     \* content of each file
  newest,    \* the last content that was written
  running,   \* a run of the agent is in flight
  loading,   \* isLoading, the page's view of it
  list,      \* extendedFiles: the contents the page has
  selected,  \* the files ticked in the panel
  call,      \* the page's changes in flight, by kind
  fetch,     \* the fetches begun, by their number
  begun,     \* how many
  faults,    \* the requests that failed so far
  shown,     \* history: the fetch the list comes from, and whether it was complete
  unknown    \* history: a change the page took for failed, since the last fetch began

vars == <<store, newest, running, loading, list, selected, call, fetch, begun, faults, shown, unknown>>

Kinds == {"save", "upload", "delete"}
Contents == 0 .. MaxContents
Nothing == [f \in Files |-> 0]
FilesOf(contents) == {f \in Files : contents[f] # 0}

\* todo: what is still to be asked of the store, for each its new content; panel: the
\* panel it was called from is still there.
NoCall == [step |-> "idle", todo |-> {}, content |-> 0, single |-> FALSE, failed |-> {}, by |-> 0,
           panel |-> TRUE]
NoFetch == [step |-> "none", todo |-> {}, got |-> Nothing, complete |-> TRUE]

TypeOK ==
  /\ store \in [Files -> Contents] /\ list \in [Files -> Contents]
  /\ newest \in Contents /\ begun \in 0 .. MaxFetches /\ faults \in 0 .. MaxFaults
  /\ running \in BOOLEAN /\ loading \in BOOLEAN /\ unknown \in BOOLEAN
  /\ selected \subseteq Files
  /\ \A k \in Kinds :
       /\ call[k].step \in {"idle", "sent", "refetching"}
       /\ call[k].todo \cup call[k].failed \subseteq Files
       /\ call[k].step = "refetching" => call[k].by \in 1 .. begun
  /\ \A n \in 1 .. MaxFetches :
       /\ fetch[n].step \in {"none", "listing", "reading", "done"}
       /\ fetch[n].todo \subseteq Files
       /\ fetch[n].got \in [Files -> Contents]

\* The page has mounted and its first fetch has come back.
Init ==
  /\ store \in [Files -> {0, 1}] /\ newest = 1
  /\ running = FALSE /\ loading = FALSE
  /\ list = store /\ selected = {}
  /\ call = [k \in Kinds |-> NoCall]
  /\ fetch = [n \in 1 .. MaxFetches |-> NoFetch]
  /\ begun = 0 /\ faults = 0
  /\ shown = [by |-> 0, complete |-> TRUE] /\ unknown = FALSE

\* The bound on fetches leaves room for n more than what is under way will begin: a run
\* begins one when the page hears that it started, and one when it ended.
Room(n) ==
  begun + n + Cardinality({k \in Kinds : call[k].step = "sent"})
    + (IF running THEN 1 ELSE 0) + (IF running # loading THEN 1 ELSE 0) \leq MaxFetches

-----------------------------------------------------------------------------
(* The agent, external: it writes, rewrites and removes files during a run *)

Starts ==
  /\ ~running /\ ~loading /\ Room(2)
  /\ running' = TRUE
  /\ UNCHANGED <<store, newest, loading, list, selected, call, fetch, begun, faults, shown, unknown>>

Works(f) ==
  /\ running
  /\ \/ /\ newest < MaxContents /\ newest' = newest + 1
        /\ store' = [store EXCEPT ![f] = newest + 1]
     \/ store[f] # 0 /\ store' = [store EXCEPT ![f] = 0] /\ UNCHANGED newest
  /\ UNCHANGED <<running, loading, list, selected, call, fetch, begun, faults, shown, unknown>>

Ends ==
  /\ running /\ loading
  /\ running' = FALSE
  /\ UNCHANGED <<store, newest, loading, list, selected, call, fetch, begun, faults, shown, unknown>>

-----------------------------------------------------------------------------
(* Fetches *)

GoesWell == UNCHANGED faults
Fails == faults < MaxFaults /\ faults' = faults + 1

\* The next fetch is sent.
Begins ==
  /\ begun' = begun + 1
  /\ fetch' = [fetch EXCEPT ![begun + 1].step = "listing"]
  /\ unknown' = FALSE

\* Mutant of Hears: files are fetched when a run starts, not when it ends.
HearsStart ==
  /\ loading # running
  /\ loading' = running
  /\ IF running THEN Begins ELSE UNCHANGED <<begun, fetch, unknown>>
  /\ UNCHANGED <<store, newest, running, list, selected, call, faults, shown>>

\* The effect on isLoading.
Hears ==
  /\ loading # running
  /\ loading' = running
  /\ Begins
  /\ UNCHANGED <<store, newest, running, list, selected, call, faults, shown>>

\* /files/list; when it fails there are no files.
Lists(n) ==
  /\ fetch[n].step = "listing"
  /\ \/ /\ GoesWell
        /\ fetch' = [fetch EXCEPT ![n].step = "reading", ![n].todo = FilesOf(store)]
     \/ /\ Fails
        /\ fetch' = [fetch EXCEPT ![n].step = "reading", ![n].complete = FALSE]
  /\ UNCHANGED <<store, newest, running, loading, list, selected, call, begun, shown, unknown>>

\* Mutant of ReadsFile: a file that cannot be read stays in the list, without a content.
ReadsFileOrNone(n, f) ==
  /\ fetch[n].step = "reading" /\ f \in fetch[n].todo
  /\ \/ GoesWell /\ fetch' = [fetch EXCEPT ![n].todo = @ \ {f}, ![n].got[f] = store[f]]
     \/ Fails /\ fetch' = [fetch EXCEPT ![n].todo = @ \ {f}, ![n].got[f] = -1]
  /\ UNCHANGED <<store, newest, running, loading, list, selected, call, begun, shown, unknown>>

\* /files/read; a file that is gone by now, or cannot be read, is left out.
ReadsFile(n, f) ==
  /\ fetch[n].step = "reading" /\ f \in fetch[n].todo
  /\ \/ GoesWell /\ fetch' = [fetch EXCEPT ![n].todo = @ \ {f}, ![n].got[f] = store[f]]
     \/ /\ Fails
        /\ fetch' = [fetch EXCEPT ![n].todo = @ \ {f}, ![n].complete = FALSE]
  /\ UNCHANGED <<store, newest, running, loading, list, selected, call, begun, shown, unknown>>

\* Mutant of Selection: the failures are put back after the pruning.
SelectionUnpruned(n) ==
  (selected \cap FilesOf(fetch[n].got)) \cup
    IF call["delete"].step = "refetching" /\ call["delete"].by = n
    THEN call["delete"].failed ELSE {}

\* The end of a bulk delete narrows the selection to what failed, in the same render as
\* the new list; the effect after it drops what is not listed.
Selection(n) ==
  FilesOf(fetch[n].got) \cap
    IF call["delete"].step = "refetching" /\ call["delete"].by = n /\ ~call["delete"].single
       /\ call["delete"].panel
    THEN call["delete"].failed ELSE selected

\* setExtendedFiles, and whatever waited for this fetch goes on to its end.  Without a
\* file FilesSection has no panel, and one that comes later begins anew.
Shows(n) ==
  /\ fetch[n].step = "reading" /\ fetch[n].todo = {}
  /\ fetch' = [fetch EXCEPT ![n] = [NoFetch EXCEPT !.step = "done"]]
  /\ list' = fetch[n].got
  /\ selected' = Selection(n)
  /\ call' = [k \in Kinds |->
       IF call[k].step = "idle" \/ (call[k].step = "refetching" /\ call[k].by = n)
       THEN NoCall ELSE [call[k] EXCEPT !.panel = @ /\ list' # Nothing]]
  /\ shown' = [by |-> n, complete |-> fetch[n].complete]
  /\ UNCHANGED <<store, newest, running, loading, begun, faults, unknown>>

-----------------------------------------------------------------------------
(* The user *)

Toggles(f) ==
  /\ list[f] # 0
  /\ selected' = IF f \in selected THEN selected \ {f} ELSE selected \cup {f}
  /\ UNCHANGED <<store, newest, running, loading, list, call, fetch, begun, faults, shown, unknown>>

Sends(k, files, unlisted, content) ==
  /\ call[k].step = "idle" /\ Room(1)
  /\ call' = [call EXCEPT ![k] = [NoCall EXCEPT
       !.step = "sent", !.todo = files, !.failed = unlisted, !.content = content,
       !.single = Cardinality(files \cup unlisted) = 1]]
  /\ newest' = IF content # 0 THEN content ELSE newest
  /\ UNCHANGED <<store, running, loading, list, selected, fetch, begun, faults, shown, unknown>>

\* setFiles: of the whole map the editor hands over, the file that was edited differs
\* from the list, or is no longer on it.  Save does not look at editDisabled.
Saves(f) ==
  /\ list # Nothing /\ newest < MaxContents
  /\ Sends("save", {f}, {}, newest + 1)

\* useFileUpload, one at a time; a picker that is open outlives the button's disabling.
Uploads(f) ==
  /\ newest < MaxContents
  /\ Sends("upload", {f}, {}, newest + 1)

\* removeFile for one file, removeFiles for more, when the dialog is confirmed, which is
\* no earlier than it was opened: files that are not listed any more are not asked for.
Deletes(files) ==
  LET unlisted == files \ FilesOf(list) IN
  /\ list # Nothing
  /\ files # {} /\ (Cardinality(files) = 1 => unlisted = {})
  /\ Sends("delete", files \ unlisted, unlisted, 0)

\* A deletion of what is gone is a 404.
Possible(k, f) == k = "delete" => store[f] # 0

\* The server handles the request for f, and the page has the answer, or takes the
\* request for failed.
Answers(k, f) ==
  /\ call[k].step = "sent" /\ f \in call[k].todo
  /\ \E done \in {Possible(k, f), FALSE}, heard \in BOOLEAN :
       /\ IF done = Possible(k, f) /\ heard THEN GoesWell ELSE Fails
       /\ store' = IF done THEN [store EXCEPT ![f] = call[k].content] ELSE store
       /\ call' = [call EXCEPT ![k].todo = @ \ {f},
                               ![k].failed = IF done /\ heard THEN @ ELSE @ \cup {f}]
       /\ unknown' = (unknown \/ (done /\ ~heard))
  /\ UNCHANGED <<newest, running, loading, list, selected, fetch, begun, shown>>

\* A call of one file that failed throws before it comes to the fetch, and so does an
\* upload of which nothing succeeded; a bulk delete fetches in any case.
Refetches(k) ==
  /\ call[k].step = "sent" /\ call[k].todo = {}
  /\ IF call[k].single /\ call[k].failed # {}
     THEN /\ call' = [call EXCEPT ![k] = NoCall]
          /\ UNCHANGED <<fetch, begun, unknown>>
     ELSE /\ Begins
          /\ call' = [call EXCEPT ![k].step = "refetching", ![k].content = 0, ![k].by = begun + 1]
  /\ UNCHANGED <<store, newest, running, loading, list, selected, faults, shown>>

-----------------------------------------------------------------------------
Next ==
  \/ Starts \/ Ends \/ Hears
  \/ \E n \in 1 .. MaxFetches :
       Lists(n) \/ Shows(n) \/ \E f \in Files : ReadsFile(n, f)
  \/ \E files \in SUBSET Files : Deletes(files)
  \/ \E f \in Files :
       \/ Works(f) \/ Toggles(f) \/ Saves(f) \/ Uploads(f)
       \/ \E k \in Kinds : Answers(k, f)
  \/ \E k \in Kinds : Refetches(k)

Spec == Init /\ [][Next]_vars

-----------------------------------------------------------------------------
(* Properties *)

Quiet ==
  /\ ~running /\ ~loading
  /\ \A k \in Kinds : call[k].step = "idle"
  /\ \A n \in 1 .. begun : fetch[n].step = "done"

\* When nothing is under way any more, the panel shows what the store holds, after
\* whatever changes of the user and the agent side by side: provided the fetch that was
\* begun last also came last and was complete, and no change took effect that the page
\* believes failed.
CurrentIfNewest ==
  Quiet /\ shown = [by |-> begun, complete |-> TRUE] /\ ~unknown => list = store

\* "The effect compares the Set against the new keys and drops anything missing": the
\* selection, and with it a bulk delete, has only files that are listed, though fetches
\* overtake each other and deletions fail for files that somebody else removed.
SelectionIsShown == selected \subseteq FilesOf(list)
=============================================================================
