-------------------------- MODULE ChatFilesProofs --------------------------
(***************************************************************************)
(* Safety of the files panel, for any files and any number of fetches and  *)
(* changes: type correctness, a selection of listed files, and a list that *)
(* is up to date when all is quiet.                                        *)
(***************************************************************************)
EXTENDS ChatFiles, FiniteSetTheorems, TLAPS

CallRecords ==
  [step : {"idle", "sent", "refetching"}, todo : SUBSET Files, content : Contents,
   single : BOOLEAN, failed : SUBSET Files, by : 0 .. MaxFetches, panel : BOOLEAN]

FetchRecords ==
  [step : {"none", "listing", "reading", "done"}, todo : SUBSET Files,
   got : [Files -> Contents], complete : BOOLEAN]

Shape ==
  /\ store \in [Files -> Contents] /\ list \in [Files -> Contents]
  /\ newest \in Contents /\ begun \in 0 .. MaxFetches /\ faults \in 0 .. MaxFaults
  /\ running \in BOOLEAN /\ loading \in BOOLEAN /\ unknown \in BOOLEAN
  /\ selected \subseteq Files
  /\ call \in [Kinds -> CallRecords]
  /\ fetch \in [1 .. MaxFetches -> FetchRecords]
  /\ shown \in [by : 0 .. MaxFetches, complete : BOOLEAN]

\* Fetches are begun in order, and what waits for one or shows one has begun it.
Numbered ==
  /\ \A n \in 1 .. MaxFetches :
       /\ fetch[n].step = "none" <=> n > begun
       /\ fetch[n].step \in {"none", "listing"} => fetch[n].got = Nothing
  /\ \A k \in Kinds : call[k].step = "refetching" => call[k].by \in 1 .. begun
  /\ shown.by <= begun

\* The fetches that are still to begin fit the bound.
Sending == {k \in Kinds : call[k].step = "sent"}
Budget ==
  begun + Cardinality(Sending) + (IF running THEN 1 ELSE 0)
    + (IF running # loading THEN 1 ELSE 0) <= MaxFetches

\* A call of one file has yet to ask, or has asked and nothing is left to do.
Singles ==
  \A k \in Kinds :
    call[k].step = "sent" /\ call[k].single =>
      \/ call[k].todo = {}
      \/ call[k].failed = {} /\ \E f \in Files : call[k].todo = {f}

\* Something is under way that may change the store and will begin a fetch when it ends.
\* A call of one file that has not asked yet has changed nothing, and one that failed
\* begins no fetch.
Owes(k) ==
  /\ call[k].step = "sent"
  /\ call[k].single => call[k].todo = {} /\ call[k].failed = {}
Stirring == running \/ loading \/ \E k \in Kinds : Owes(k)

\* The fetch begun last has read what the store holds, as far as it came.
UpToDate ==
  /\ \A n \in 1 .. MaxFetches :
       n = begun /\ fetch[n].step = "reading" /\ fetch[n].complete =>
         \A f \in Files \ fetch[n].todo : fetch[n].got[f] = store[f]
  /\ shown.by = begun /\ shown.complete => list = store

\* The inductive invariant.  CurrentIfNewest alone says nothing while a fetch is under way;
\* Fresh says what such a fetch has read, from the last change that begins no other.
Fresh == ~Stirring /\ ~unknown => UpToDate

IInv == Shape /\ Numbered /\ Budget /\ Singles /\ Fresh /\ SelectionIsShown

-----------------------------------------------------------------------------
(* Lemmas *)

LEMMA NoCallIs == NoCall \in CallRecords /\ NoCall.step = "idle"
BY ConstantsAssumption DEF NoCall, CallRecords, Contents

LEMMA NoFetchIs ==
  /\ NoFetch \in FetchRecords /\ [NoFetch EXCEPT !.step = "done"] \in FetchRecords
  /\ NoFetch.step = "none" /\ NoFetch.got = Nothing
  /\ [NoFetch EXCEPT !.step = "done"].step = "done"
<1>1. Nothing \in [Files -> Contents]
  BY ConstantsAssumption DEF Nothing, Contents
<1> HIDE DEF Nothing, Contents
<1> QED
  BY <1>1 DEF NoFetch, FetchRecords

LEMMA FilesOfIs == ASSUME NEW contents PROVE FilesOf(contents) \subseteq Files
BY DEF FilesOf

LEMMA SendingFinite ==
  /\ IsFiniteSet(Sending) /\ Cardinality(Sending) \in Nat
  /\ (\E k \in Kinds : call[k].step = "sent") => Cardinality(Sending) >= 1
<1>1. IsFiniteSet(Kinds)
  <2>1. IsFiniteSet(({"save"} \cup {"upload"}) \cup {"delete"})
    BY FS_Singleton, FS_AddElement
  <2> QED
    BY <2>1 DEF Kinds
<1>2. IsFiniteSet(Sending) /\ Cardinality(Sending) \in Nat
  BY <1>1, FS_Subset, FS_CardinalityType DEF Sending
<1>3. Cardinality(Sending) = 0 => Sending = {}
  BY <1>2, FS_EmptySet
<1> QED
  BY <1>2, <1>3 DEF Sending

\* The room there is for the next fetch.
LEMMA RoomForOne ==
  ASSUME Shape, Budget, running # loading \/ \E k \in Kinds : call[k].step = "sent"
  PROVE  begun + 1 \in 1 .. MaxFetches
BY SendingFinite, ConstantsAssumption DEF Shape, Budget

\* A fetch that begins has its number's record to itself.
LEMMA BeginsEffect ==
  ASSUME Shape, Numbered, begun + 1 \in 1 .. MaxFetches, Begins
  PROVE  /\ fetch' \in [1 .. MaxFetches -> FetchRecords]
         /\ \A n \in 1 .. MaxFetches :
              /\ n # begun + 1 => fetch'[n] = fetch[n]
              /\ n = begun + 1 => fetch'[n].step = "listing" /\ fetch'[n].got = Nothing
         /\ begun' = begun + 1 /\ unknown' = FALSE
<1>1. fetch[begun + 1] \in FetchRecords /\ fetch[begun + 1].got = Nothing
  BY ConstantsAssumption DEF Shape, Numbered
<1>2. [fetch[begun + 1] EXCEPT !.step = "listing"] \in FetchRecords
  BY <1>1 DEF FetchRecords
<1>3. fetch' = [fetch EXCEPT ![begun + 1] = [fetch[begun + 1] EXCEPT !.step = "listing"]]
  BY DEF Begins
<1>4. [fetch[begun + 1] EXCEPT !.step = "listing"].step = "listing"
      /\ [fetch[begun + 1] EXCEPT !.step = "listing"].got = Nothing
  BY <1>1 DEF FetchRecords
<1> HIDE DEF FetchRecords
<1> QED
  BY <1>2, <1>3, <1>4 DEF Shape, Begins

\* The initial state satisfies the inductive invariant.
LEMMA InitInvariant == Init => IInv
<1> SUFFICES ASSUME Init PROVE IInv
  OBVIOUS
<1>1. Shape
  <2>1. {0, 1} \subseteq Contents
    BY ConstantsAssumption DEF Contents
  <2>2. store \in [Files -> Contents] /\ list = store /\ newest \in Contents
    BY <2>1 DEF Init
  <2>3. call \in [Kinds -> CallRecords] /\ fetch \in [1 .. MaxFetches -> FetchRecords]
    BY NoCallIs, NoFetchIs DEF Init
  <2>4. /\ begun \in 0 .. MaxFetches /\ faults \in 0 .. MaxFaults
        /\ shown \in [by : 0 .. MaxFetches, complete : BOOLEAN]
    BY ConstantsAssumption DEF Init
  <2> QED
    BY <2>2, <2>3, <2>4 DEF Init, Shape
<1>2. Numbered
  BY ConstantsAssumption, NoCallIs, NoFetchIs DEF Init, Numbered
<1>3. Budget
  <2>1. Sending = {}
    BY NoCallIs DEF Init, Sending
  <2> QED
    BY <2>1, FS_EmptySet, ConstantsAssumption DEF Init, Budget
<1>4. Singles /\ Fresh
  BY NoCallIs, NoFetchIs DEF Init, Singles, Fresh, UpToDate
<1>5. SelectionIsShown
  BY DEF Init, SelectionIsShown
<1> QED
  BY <1>1, <1>2, <1>3, <1>4, <1>5 DEF IInv


-----------------------------------------------------------------------------
(* What each step does to the calls and fetches *)

LEMMA ListsEffect ==
  ASSUME Shape, NEW n \in 1 .. MaxFetches, Lists(n)
  PROVE  /\ fetch[n].step = "listing" /\ fetch' \in [1 .. MaxFetches -> FetchRecords]
         /\ faults' \in 0 .. MaxFaults
         /\ \A m \in 1 .. MaxFetches : m # n => fetch'[m] = fetch[m]
         /\ fetch'[n].step = "reading" /\ fetch'[n].got = fetch[n].got
         /\ fetch'[n].complete => fetch'[n].todo = FilesOf(store)
<1>1. fetch[n] \in FetchRecords /\ FilesOf(store) \subseteq Files
  BY FilesOfIs DEF Shape
<1>2. CASE /\ GoesWell
           /\ fetch' = [fetch EXCEPT ![n].step = "reading", ![n].todo = FilesOf(store)]
  <2> DEFINE rec == [fetch[n] EXCEPT !.step = "reading", !.todo = FilesOf(store)]
  <2>1. /\ rec \in FetchRecords /\ rec.step = "reading" /\ rec.got = fetch[n].got
        /\ rec.todo = FilesOf(store)
    BY <1>1 DEF FetchRecords
  <2>2. fetch' = [fetch EXCEPT ![n] = rec]
    BY <1>2
  <2> HIDE DEF rec
  <2> QED
    BY <1>2, <2>1, <2>2 DEF Shape, Lists, GoesWell
<1>3. CASE Fails /\ fetch' = [fetch EXCEPT ![n].step = "reading", ![n].complete = FALSE]
  <2> DEFINE rec == [fetch[n] EXCEPT !.step = "reading", !.complete = FALSE]
  <2>1. rec \in FetchRecords /\ rec.step = "reading" /\ rec.got = fetch[n].got /\ ~rec.complete
    BY <1>1 DEF FetchRecords
  <2>2. fetch' = [fetch EXCEPT ![n] = rec]
    BY <1>3
  <2> HIDE DEF rec
  <2>3. /\ fetch'[n] = rec /\ fetch' \in [1 .. MaxFetches -> FetchRecords]
        /\ \A m \in 1 .. MaxFetches : m # n => fetch'[m] = fetch[m]
    BY <2>1, <2>2 DEF Shape
  <2>4. faults' \in 0 .. MaxFaults /\ fetch[n].step = "listing"
    BY <1>3, ConstantsAssumption DEF Shape, Lists, Fails
  <2> QED
    BY <2>1, <2>3, <2>4
<1> QED
  BY <1>2, <1>3 DEF Lists

LEMMA ReadsFileEffect ==
  ASSUME Shape, NEW n \in 1 .. MaxFetches, NEW f \in Files, ReadsFile(n, f)
  PROVE  /\ fetch[n].step = "reading" /\ fetch' \in [1 .. MaxFetches -> FetchRecords]
         /\ faults' \in 0 .. MaxFaults
         /\ \A m \in 1 .. MaxFetches : m # n => fetch'[m] = fetch[m]
         /\ fetch'[n].step = "reading"
         /\ fetch'[n].complete =>
              /\ fetch[n].complete /\ fetch'[n].todo = fetch[n].todo \ {f}
              /\ \A g \in Files :
                   fetch'[n].got[g] = IF g = f THEN store[f] ELSE fetch[n].got[g]
<1>1. fetch[n] \in FetchRecords /\ store[f] \in Contents /\ fetch[n].step = "reading"
  BY DEF Shape, ReadsFile
<1>2. CASE /\ GoesWell
           /\ fetch' = [fetch EXCEPT ![n].todo = @ \ {f}, ![n].got[f] = store[f]]
  <2> DEFINE got == [fetch[n].got EXCEPT ![f] = store[f]]
             rec == [fetch[n] EXCEPT !.todo = @ \ {f}, !.got = got]
  <2>1. /\ got \in [Files -> Contents]
        /\ \A g \in Files : got[g] = IF g = f THEN store[f] ELSE fetch[n].got[g]
    BY <1>1 DEF FetchRecords
  <2>2. fetch' = [fetch EXCEPT ![n] = rec]
    BY <1>2
  <2> HIDE DEF got
  <2>3. /\ rec \in FetchRecords /\ rec.step = "reading" /\ rec.got = got
        /\ rec.todo = fetch[n].todo \ {f} /\ rec.complete = fetch[n].complete
    BY <1>1, <2>1 DEF FetchRecords
  <2> HIDE DEF rec
  <2>4. fetch'[n] = rec /\ fetch' \in [1 .. MaxFetches -> FetchRecords]
        /\ \A m \in 1 .. MaxFetches : m # n => fetch'[m] = fetch[m]
    BY <2>2, <2>3 DEF Shape
  <2>5. faults' \in 0 .. MaxFaults
    BY <1>2 DEF Shape, GoesWell
  <2> QED
    BY <1>1, <2>1, <2>3, <2>4, <2>5
<1>3. CASE Fails /\ fetch' = [fetch EXCEPT ![n].todo = @ \ {f}, ![n].complete = FALSE]
  <2> DEFINE rec == [fetch[n] EXCEPT !.todo = @ \ {f}, !.complete = FALSE]
  <2>1. rec \in FetchRecords /\ rec.step = "reading" /\ ~rec.complete
    BY <1>1 DEF FetchRecords
  <2>2. fetch' = [fetch EXCEPT ![n] = rec]
    BY <1>3
  <2> HIDE DEF rec
  <2>3. fetch'[n] = rec /\ fetch' \in [1 .. MaxFetches -> FetchRecords]
        /\ \A m \in 1 .. MaxFetches : m # n => fetch'[m] = fetch[m]
    BY <2>1, <2>2 DEF Shape
  <2>4. faults' \in 0 .. MaxFaults
    BY <1>3, ConstantsAssumption DEF Shape, Fails
  <2> QED
    BY <1>1, <2>1, <2>3, <2>4
<1> QED
  BY <1>2, <1>3 DEF ReadsFile

LEMMA ShowsEffect ==
  ASSUME Shape, NEW n \in 1 .. MaxFetches, Shows(n)
  PROVE  /\ fetch[n].step = "reading" /\ fetch[n].todo = {}
         /\ fetch' \in [1 .. MaxFetches -> FetchRecords]
         /\ \A m \in 1 .. MaxFetches : m # n => fetch'[m] = fetch[m]
         /\ fetch'[n].step = "done"
         /\ list' = fetch[n].got /\ list' \in [Files -> Contents]
         /\ selected' \subseteq FilesOf(list')
         /\ shown' \in [by : 0 .. MaxFetches, complete : BOOLEAN]
         /\ shown'.by = n /\ shown'.complete = fetch[n].complete
         /\ call' \in [Kinds -> CallRecords]
         /\ \A k \in Kinds :
              /\ call'[k].step = "sent" <=> call[k].step = "sent"
              /\ call[k].step = "sent" => /\ call'[k].todo = call[k].todo
                                          /\ call'[k].failed = call[k].failed
                                          /\ call'[k].single = call[k].single
              /\ call'[k].step = "refetching" => /\ call[k].step = "refetching"
                                                 /\ call'[k].by = call[k].by
<1>1. /\ fetch[n] \in FetchRecords /\ fetch[n].step = "reading" /\ fetch[n].todo = {}
      /\ fetch' = [fetch EXCEPT ![n] = [NoFetch EXCEPT !.step = "done"]]
      /\ list' = fetch[n].got /\ selected' = Selection(n)
      /\ shown' = [by |-> n, complete |-> fetch[n].complete]
  BY DEF Shape, Shows
<1>2. /\ fetch' \in [1 .. MaxFetches -> FetchRecords]
      /\ \A m \in 1 .. MaxFetches : m # n => fetch'[m] = fetch[m]
      /\ fetch'[n].step = "done"
  <2> DEFINE rec == [NoFetch EXCEPT !.step = "done"]
  <2>1. rec \in FetchRecords /\ rec.step = "done"
    BY NoFetchIs
  <2> HIDE DEF rec
  <2>2. fetch' = [fetch EXCEPT ![n] = rec]
    BY <1>1 DEF rec
  <2> QED
    BY <2>1, <2>2 DEF Shape
<1>3. list' \in [Files -> Contents] /\ fetch[n].complete \in BOOLEAN
  BY <1>1 DEF FetchRecords
<1>4. selected' \subseteq FilesOf(list')
  BY <1>1 DEF Selection
<1>5. /\ shown' \in [by : 0 .. MaxFetches, complete : BOOLEAN]
      /\ shown'.by = n /\ shown'.complete = fetch[n].complete
  BY <1>1, <1>3, ConstantsAssumption
<1> DEFINE over(k) == call[k].step = "idle" \/ (call[k].step = "refetching" /\ call[k].by = n)
           stays(k) == call[k].panel /\ list' # Nothing
           rec(k) == [call[k] EXCEPT !.panel = stays(k)]
<1>6. call' = [k \in Kinds |-> IF over(k) THEN NoCall ELSE rec(k)]
  BY DEF Shows
<1>7. ASSUME NEW k \in Kinds
      PROVE  /\ rec(k) \in CallRecords /\ rec(k).step = call[k].step
             /\ rec(k).todo = call[k].todo /\ rec(k).failed = call[k].failed
             /\ rec(k).single = call[k].single /\ rec(k).by = call[k].by
  <2>1. stays(k) \in BOOLEAN /\ call[k] \in CallRecords
    BY DEF Shape
  <2> HIDE DEF stays
  <2> QED
    BY <2>1 DEF CallRecords
<1> HIDE DEF rec
<1>8. call' \in [Kinds -> CallRecords]
  BY <1>6, <1>7, NoCallIs
<1>9. \A k \in Kinds :
        /\ call'[k].step = "sent" <=> call[k].step = "sent"
        /\ call[k].step = "sent" => /\ call'[k].todo = call[k].todo
                                    /\ call'[k].failed = call[k].failed
                                    /\ call'[k].single = call[k].single
        /\ call'[k].step = "refetching" => /\ call[k].step = "refetching"
                                           /\ call'[k].by = call[k].by
  BY <1>6, <1>7, NoCallIs
<1> QED
  BY <1>1, <1>2, <1>3, <1>4, <1>5, <1>8, <1>9


LEMMA SendsEffect ==
  ASSUME Shape, NEW k \in Kinds, NEW files \in SUBSET Files, NEW unlisted \in SUBSET Files,
         NEW content \in Contents, Sends(k, files, unlisted, content)
  PROVE  /\ call[k].step = "idle" /\ Room(1)
         /\ call' \in [Kinds -> CallRecords] /\ newest' \in Contents
         /\ \A j \in Kinds : j # k => call'[j] = call[j]
         /\ call'[k].step = "sent" /\ call'[k].todo = files /\ call'[k].failed = unlisted
         /\ call'[k].single <=> Cardinality(files \cup unlisted) = 1
<1> DEFINE single == Cardinality(files \cup unlisted) = 1
           rec == [NoCall EXCEPT !.step = "sent", !.todo = files, !.failed = unlisted,
                                 !.content = content, !.single = single]
<1>1. call' = [call EXCEPT ![k] = rec]
  BY DEF Sends
<1>2. single \in BOOLEAN
  OBVIOUS
<1> HIDE DEF single
<1>3. /\ rec \in CallRecords /\ rec.step = "sent" /\ rec.todo = files /\ rec.failed = unlisted
      /\ rec.single = single
  BY <1>2, NoCallIs DEF NoCall, CallRecords
<1> HIDE DEF rec
<1>4. /\ call' \in [Kinds -> CallRecords] /\ call'[k] = rec
      /\ \A j \in Kinds : j # k => call'[j] = call[j]
  BY <1>1, <1>3 DEF Shape
<1>5. newest' \in Contents /\ call[k].step = "idle" /\ Room(1)
  BY DEF Shape, Sends
<1> QED
  BY <1>3, <1>4, <1>5 DEF single

LEMMA AnswersEffect ==
  ASSUME Shape, NEW k \in Kinds, NEW f \in Files, Answers(k, f)
  PROVE  /\ call[k].step = "sent" /\ f \in call[k].todo
         /\ call' \in [Kinds -> CallRecords] /\ faults' \in 0 .. MaxFaults
         /\ store' \in [Files -> Contents] /\ unknown' \in BOOLEAN
         /\ \A j \in Kinds : j # k => call'[j] = call[j]
         /\ call'[k].step = "sent" /\ call'[k].todo = call[k].todo \ {f}
         /\ call'[k].single = call[k].single
         /\ \/ call'[k].failed = call[k].failed
            \/ call'[k].failed = call[k].failed \cup {f} /\ (store' = store \/ unknown')
         /\ unknown => unknown'
<1>1. PICK done \in {Possible(k, f), FALSE}, heard \in BOOLEAN :
        /\ IF done = Possible(k, f) /\ heard THEN GoesWell ELSE Fails
        /\ store' = IF done THEN [store EXCEPT ![f] = call[k].content] ELSE store
        /\ call' = [call EXCEPT ![k].todo = @ \ {f},
                                ![k].failed = IF done /\ heard THEN @ ELSE @ \cup {f}]
        /\ unknown' = (unknown \/ (done /\ ~heard))
  BY DEF Answers
<1>2. call[k] \in CallRecords /\ call[k].step = "sent" /\ f \in call[k].todo
  BY DEF Shape, Answers
<1> DEFINE well == done /\ heard
           rec == [call[k] EXCEPT !.todo = @ \ {f},
                                  !.failed = IF well THEN @ ELSE @ \cup {f}]
<1>3. call' = [call EXCEPT ![k] = rec]
  BY <1>1
<1>4. well \in BOOLEAN
  OBVIOUS
<1> HIDE DEF well
<1>5. /\ rec \in CallRecords /\ rec.step = "sent" /\ rec.todo = call[k].todo \ {f}
      /\ rec.single = call[k].single
      /\ rec.failed = IF well THEN call[k].failed ELSE call[k].failed \cup {f}
  BY <1>2, <1>4 DEF CallRecords
<1> HIDE DEF rec
<1>6. /\ call' \in [Kinds -> CallRecords] /\ call'[k] = rec
      /\ \A j \in Kinds : j # k => call'[j] = call[j]
  BY <1>3, <1>5 DEF Shape
<1>7. faults' \in 0 .. MaxFaults
  BY <1>1, ConstantsAssumption DEF Shape, GoesWell, Fails
<1>8. store' \in [Files -> Contents]
  BY <1>1, <1>2 DEF Shape, CallRecords
<1>9. unknown' \in BOOLEAN /\ (unknown => unknown')
  BY <1>1
<1>10. ~well => store' = store \/ unknown'
  BY <1>1 DEF well
<1> QED
  BY <1>2, <1>5, <1>6, <1>7, <1>8, <1>9, <1>10

LEMMA RefetchesEffect ==
  ASSUME Shape, Budget, Numbered, NEW k \in Kinds, Refetches(k)
  PROVE  /\ call[k].step = "sent" /\ call[k].todo = {}
         /\ call' \in [Kinds -> CallRecords]
         /\ \A j \in Kinds : j # k => call'[j] = call[j]
         /\ \/ /\ call[k].single /\ call[k].failed # {}
               /\ call'[k].step = "idle" /\ UNCHANGED <<fetch, begun, unknown>>
            \/ /\ Begins /\ begun + 1 \in 1 .. MaxFetches
               /\ call'[k].step = "refetching" /\ call'[k].by = begun + 1
<1>1. call[k] \in CallRecords /\ call[k].step = "sent" /\ call[k].todo = {}
  BY DEF Shape, Refetches
<1>2. begun + 1 \in 1 .. MaxFetches
  BY <1>1, RoomForOne
<1>3. CASE /\ call[k].single /\ call[k].failed # {}
           /\ call' = [call EXCEPT ![k] = NoCall] /\ UNCHANGED <<fetch, begun, unknown>>
  BY <1>1, <1>3, NoCallIs DEF Shape
<1>4. CASE /\ Begins
           /\ call' = [call EXCEPT ![k].step = "refetching", ![k].content = 0,
                                   ![k].by = begun + 1]
  <2> DEFINE rec == [call[k] EXCEPT !.step = "refetching", !.content = 0, !.by = begun + 1]
  <2>1. 0 \in Contents /\ begun + 1 \in 0 .. MaxFetches
    BY <1>2, ConstantsAssumption DEF Contents
  <2>2. rec \in CallRecords /\ rec.step = "refetching" /\ rec.by = begun + 1
    <3> HIDE DEF Contents
    <3> QED
      BY <1>1, <2>1 DEF CallRecords
  <2>3. call' = [call EXCEPT ![k] = rec]
    BY <1>4
  <2> HIDE DEF rec
  <2> QED
    BY <1>1, <1>2, <1>4, <2>2, <2>3 DEF Shape
<1> QED
  BY <1>3, <1>4 DEF Refetches


\* The user's three calls are one: what they ask for, and what a call of one file is.
Asks(k, files, unlisted, content) ==
  /\ Sends(k, files, unlisted, content)
  /\ Cardinality(files \cup unlisted) = 1 =>
       unlisted = {} /\ \E f \in Files : files = {f}

UserAsks ==
  \E k \in Kinds, files \in SUBSET Files, unlisted \in SUBSET Files, content \in Contents :
    Asks(k, files, unlisted, content)

LEMMA UserStep ==
  ASSUME Shape, \/ \E f \in Files : Saves(f) \/ Uploads(f)
                \/ \E files \in SUBSET Files : Deletes(files)
  PROVE  UserAsks
<1>1. ASSUME NEW f \in Files, Saves(f)
      PROVE  Asks("save", {f}, {}, newest + 1) /\ newest + 1 \in Contents
  BY <1>1, ConstantsAssumption DEF Saves, Asks, Shape, Contents
<1>2. ASSUME NEW f \in Files, Uploads(f)
      PROVE  Asks("upload", {f}, {}, newest + 1) /\ newest + 1 \in Contents
  BY <1>2, ConstantsAssumption DEF Uploads, Asks, Shape, Contents
<1>3. ASSUME NEW files \in SUBSET Files, Deletes(files)
      PROVE  UserAsks
  <2> DEFINE unlisted == files \ FilesOf(list)
  <2>1. (files \ unlisted) \cup unlisted = files
    OBVIOUS
  <2>2. Cardinality(files) = 1 => \E f \in Files : files = {f}
    BY FS_Subset, FS_Singleton, ConstantsAssumption
  <2>3. Cardinality(files) = 1 => unlisted = {}
    BY <1>3 DEF Deletes
  <2>4. Asks("delete", files \ unlisted, unlisted, 0)
    BY <1>3, <2>1, <2>2, <2>3 DEF Deletes, Asks
  <2>5. /\ "delete" \in Kinds /\ 0 \in Contents
        /\ files \ unlisted \in SUBSET Files /\ unlisted \in SUBSET Files
    BY ConstantsAssumption DEF Kinds, Contents
  <2> HIDE DEF unlisted
  <2> QED
    BY <2>4, <2>5 DEF UserAsks
<1>4. \A f \in Files : {f} \in SUBSET Files /\ {} \in SUBSET Files
  OBVIOUS
<1>5. "save" \in Kinds /\ "upload" \in Kinds
  BY DEF Kinds
<1> QED
  BY <1>1, <1>2, <1>3, <1>4, <1>5 DEF UserAsks

LEMMA ShapeStep ==
  ASSUME Shape, Numbered, Budget, [Next]_vars
  PROVE  Shape'
<1>a. ASSUME UNCHANGED <<store, newest, list, selected, call, fetch, begun, faults, shown>>,
             running' \in BOOLEAN, loading' \in BOOLEAN, unknown' \in BOOLEAN
      PROVE  Shape'
  BY <1>a DEF Shape
<1>b. ASSUME Begins, begun + 1 \in 1 .. MaxFetches, call' \in [Kinds -> CallRecords],
             UNCHANGED <<store, newest, running, list, selected, faults, shown>>,
             loading' \in BOOLEAN
      PROVE  Shape'
  <2>1. begun' \in 0 .. MaxFetches
    BY <1>b, BeginsEffect, ConstantsAssumption
  <2>2. fetch' \in [1 .. MaxFetches -> FetchRecords] /\ unknown' \in BOOLEAN
    BY <1>b, BeginsEffect
  <2> QED
    BY <1>b, <2>1, <2>2 DEF Shape
<1>1. CASE UNCHANGED vars \/ Starts \/ Ends
  BY <1>1, <1>a DEF vars, Starts, Ends, Shape
<1>2. CASE Hears
  <2>1. begun + 1 \in 1 .. MaxFetches
    BY <1>2, RoomForOne DEF Hears
  <2> QED
    BY <1>2, <1>b, <2>1 DEF Hears, Shape
<1>3. ASSUME NEW n \in 1 .. MaxFetches, Lists(n)
      PROVE  Shape'
  BY <1>3, ListsEffect DEF Lists, Shape
<1>4. ASSUME NEW n \in 1 .. MaxFetches, NEW f \in Files, ReadsFile(n, f)
      PROVE  Shape'
  BY <1>4, ReadsFileEffect DEF ReadsFile, Shape
<1>5. ASSUME NEW n \in 1 .. MaxFetches, Shows(n)
      PROVE  Shape'
  <2>1. selected' \subseteq Files
    BY <1>5, ShowsEffect, FilesOfIs
  <2> QED
    BY <1>5, <2>1, ShowsEffect DEF Shows, Shape
<1>6. ASSUME NEW k \in Kinds, NEW files \in SUBSET Files, NEW unlisted \in SUBSET Files,
             NEW content \in Contents, Asks(k, files, unlisted, content)
      PROVE  Shape'
  <2>1. call' \in [Kinds -> CallRecords] /\ newest' \in Contents
    BY <1>6, SendsEffect DEF Asks
  <2>2. UNCHANGED <<store, running, loading, list, selected, fetch, begun, faults, shown, unknown>>
    BY <1>6 DEF Asks, Sends
  <2> QED
    BY <2>1, <2>2 DEF Shape
<1>7. ASSUME NEW f \in Files, Works(f)
      PROVE  Shape'
  <2>1. newest < MaxContents => newest + 1 \in Contents
    BY ConstantsAssumption DEF Shape, Contents
  <2>2. 0 \in Contents
    BY ConstantsAssumption DEF Contents
  <2>3. store' \in [Files -> Contents] /\ newest' \in Contents
    BY <1>7, <2>1, <2>2 DEF Works, Shape
  <2> QED
    BY <1>7, <2>3 DEF Works, Shape
<1>8. ASSUME NEW f \in Files, Toggles(f)
      PROVE  Shape'
  BY <1>8 DEF Toggles, Shape
<1>9. ASSUME NEW k \in Kinds, NEW f \in Files, Answers(k, f)
      PROVE  Shape'
  BY <1>9, AnswersEffect DEF Answers, Shape
<1>10. ASSUME NEW k \in Kinds, Refetches(k)
       PROVE  Shape'
  <2>1. CASE UNCHANGED <<fetch, begun, unknown>>
    BY <1>10, <2>1, RefetchesEffect DEF Refetches, Shape
  <2>2. CASE Begins /\ begun + 1 \in 1 .. MaxFetches
    BY <1>10, <1>b, <2>2, RefetchesEffect DEF Refetches, Shape
  <2> QED
    BY <1>10, <2>1, <2>2, RefetchesEffect
<1> QED
  BY <1>1, <1>2, <1>3, <1>4, <1>5, <1>6, <1>7, <1>8, <1>9, <1>10, UserStep DEF Next, UserAsks

LEMMA NumberedStep ==
  ASSUME Shape, Numbered, Budget, [Next]_vars
  PROVE  Numbered'
<1>a. ASSUME UNCHANGED <<fetch, begun, shown>>,
             \A k \in Kinds : call'[k] = call[k] \/ call'[k].step # "refetching"
      PROVE  Numbered'
  BY <1>a DEF Numbered
<1>b. ASSUME NEW n \in 1 .. MaxFetches, fetch[n].step \notin {"none", "done"},
             \A m \in 1 .. MaxFetches : m # n => fetch'[m] = fetch[m],
             fetch'[n].step \notin {"none", "listing"}, UNCHANGED begun,
             \A k \in Kinds : call'[k].step = "refetching" =>
                                call[k].step = "refetching" /\ call'[k].by = call[k].by,
             shown' = shown \/ shown'.by = n
      PROVE  Numbered'
  BY <1>b, ConstantsAssumption DEF Numbered, Shape
<1>c. ASSUME Begins, begun + 1 \in 1 .. MaxFetches, UNCHANGED shown,
             \A k \in Kinds : \/ call'[k] = call[k]
                              \/ call'[k].by = begun + 1
      PROVE  Numbered'
  <2>1. \A n \in 1 .. MaxFetches : n > begun + 1 <=> n > begun /\ n # begun + 1
    BY DEF Shape
  <2>2. \A k \in Kinds : call'[k].step = "refetching" => call'[k].by \in 1 .. begun + 1
    BY <1>c, ConstantsAssumption DEF Shape, Numbered
  <2>3. shown.by <= begun + 1
    BY ConstantsAssumption DEF Shape, Numbered
  <2>4. ASSUME NEW n \in 1 .. MaxFetches
        PROVE  /\ fetch'[n].step = "none" <=> n > begun + 1
               /\ fetch'[n].step \in {"none", "listing"} => fetch'[n].got = Nothing
    BY <1>c, <2>1, BeginsEffect DEF Numbered
  <2> QED
    BY <1>c, <2>2, <2>3, <2>4, BeginsEffect DEF Numbered
<1>1. CASE UNCHANGED vars \/ Starts \/ Ends
  BY <1>1, <1>a DEF vars, Starts, Ends
<1>2. CASE Hears
  BY <1>2, <1>c, RoomForOne DEF Hears
<1>3. ASSUME NEW n \in 1 .. MaxFetches, Lists(n)
      PROVE  Numbered'
  BY <1>3, <1>b, ListsEffect DEF Lists
<1>4. ASSUME NEW n \in 1 .. MaxFetches, NEW f \in Files, ReadsFile(n, f)
      PROVE  Numbered'
  BY <1>4, <1>b, ReadsFileEffect DEF ReadsFile
<1>5. ASSUME NEW n \in 1 .. MaxFetches, Shows(n)
      PROVE  Numbered'
  <2>1. begun' = begun
    BY <1>5 DEF Shows
  <2> QED
    BY <1>5, <1>b, <2>1, ShowsEffect
<1>6. ASSUME NEW k \in Kinds, NEW files \in SUBSET Files, NEW unlisted \in SUBSET Files,
             NEW content \in Contents, Asks(k, files, unlisted, content)
      PROVE  Numbered'
  BY <1>6, <1>a, SendsEffect DEF Asks, Sends
<1>7. ASSUME NEW f \in Files, Works(f) \/ Toggles(f)
      PROVE  Numbered'
  BY <1>7, <1>a DEF Works, Toggles
<1>8. ASSUME NEW k \in Kinds, NEW f \in Files, Answers(k, f)
      PROVE  Numbered'
  BY <1>8, <1>a, AnswersEffect DEF Answers
<1>9. ASSUME NEW k \in Kinds, Refetches(k)
      PROVE  Numbered'
  BY <1>9, <1>a, <1>c, RefetchesEffect DEF Refetches
<1> QED
  BY <1>1, <1>2, <1>3, <1>4, <1>5, <1>6, <1>7, <1>8, <1>9, UserStep DEF Next, UserAsks


\* Every fetch that is begun was room kept for.
LEMMA BudgetStep ==
  ASSUME Shape, Numbered, Budget, [Next]_vars
  PROVE  Budget'
<1>a. ASSUME UNCHANGED <<begun, running, loading>>, Sending' = Sending
      PROVE  Budget'
  BY <1>a DEF Budget
<1>b. begun \in Nat /\ MaxFetches \in Nat /\ Cardinality(Sending) \in Nat
  BY SendingFinite, ConstantsAssumption DEF Shape
<1>1. CASE UNCHANGED vars
  BY <1>1, <1>a DEF vars, Sending
<1>2. CASE Starts
  <2>1. /\ begun + 2 + Cardinality(Sending) + (IF running THEN 1 ELSE 0)
             + (IF running # loading THEN 1 ELSE 0) <= MaxFetches
        /\ running = FALSE /\ loading = FALSE /\ running' = TRUE
        /\ UNCHANGED <<begun, loading, call>>
    BY <1>2 DEF Starts, Room, Sending, Shape
  <2>2. Sending' = Sending
    BY <2>1 DEF Sending
  <2>3. begun' + Cardinality(Sending') + 1 + 1 <= MaxFetches
    BY <1>b, <2>1, <2>2
  <2>4. running' # loading'
    BY <2>1
  <2> QED
    BY <2>1, <2>3, <2>4 DEF Budget
<1>3. CASE Ends
  <2>1. /\ Sending' = Sending /\ UNCHANGED <<begun, loading>>
        /\ running = TRUE /\ loading = TRUE /\ running' = FALSE
    BY <1>3 DEF Ends, Sending, Shape
  <2>2. begun' + Cardinality(Sending') + 0 + 1 <= MaxFetches
    BY <1>b, <2>1 DEF Budget
  <2>3. running' # loading'
    BY <2>1
  <2> QED
    BY <2>1, <2>2, <2>3 DEF Budget
<1>4. CASE Hears
  <2>1. Sending' = Sending /\ UNCHANGED running /\ begun' = begun + 1
    BY <1>4 DEF Hears, Sending, Begins
  <2>2. running # loading /\ loading' = running
    BY <1>4 DEF Hears
  <2> QED
    BY <1>b, <2>1, <2>2 DEF Budget, Shape
<1>5. ASSUME NEW n \in 1 .. MaxFetches, Lists(n) \/ \E f \in Files : ReadsFile(n, f)
      PROVE  Budget'
  BY <1>5, <1>a DEF Lists, ReadsFile, Sending
<1>6. ASSUME NEW n \in 1 .. MaxFetches, Shows(n)
      PROVE  Budget'
  <2>1. Sending' = Sending
    BY <1>6, ShowsEffect DEF Sending
  <2> QED
    BY <1>6, <1>a, <2>1 DEF Shows
<1>7. ASSUME NEW k \in Kinds, NEW files \in SUBSET Files, NEW unlisted \in SUBSET Files,
             NEW content \in Contents, Asks(k, files, unlisted, content)
      PROVE  Budget'
  <2>1. Sending' = Sending \cup {k} /\ k \notin Sending
    BY <1>7, SendsEffect DEF Asks, Sending
  <2>2. Cardinality(Sending') = Cardinality(Sending) + 1
    BY <2>1, SendingFinite, FS_AddElement
  <2>3. /\ begun + 1 + Cardinality(Sending) + (IF running THEN 1 ELSE 0)
             + (IF running # loading THEN 1 ELSE 0) <= MaxFetches
        /\ UNCHANGED <<begun, running, loading>>
    BY <1>7 DEF Asks, Sends, Room, Sending
  <2> QED
    BY <1>b, <2>2, <2>3 DEF Budget
<1>8. ASSUME NEW f \in Files, Works(f) \/ Toggles(f)
      PROVE  Budget'
  BY <1>8, <1>a DEF Works, Toggles, Sending
<1>9. ASSUME NEW k \in Kinds, NEW f \in Files, Answers(k, f)
      PROVE  Budget'
  <2>1. Sending' = Sending
    BY <1>9, AnswersEffect DEF Sending
  <2> QED
    BY <1>9, <1>a, <2>1 DEF Answers
<1>10. ASSUME NEW k \in Kinds, Refetches(k)
       PROVE  Budget'
  <2>1. Sending' = Sending \ {k} /\ k \in Sending
    BY <1>10, RefetchesEffect DEF Sending
  <2>2. Cardinality(Sending') = Cardinality(Sending) - 1
    BY <2>1, SendingFinite, FS_RemoveElement
  <2>3. begun' = begun \/ begun' = begun + 1
    BY <1>10, RefetchesEffect, BeginsEffect
  <2>4. UNCHANGED <<running, loading>>
    BY <1>10 DEF Refetches
  <2> QED
    BY <1>b, <2>2, <2>3, <2>4 DEF Budget
<1> QED
  BY <1>1, <1>2, <1>3, <1>4, <1>5, <1>6, <1>7, <1>8, <1>9, <1>10, UserStep DEF Next, UserAsks

LEMMA SinglesStep ==
  ASSUME Shape, Numbered, Budget, Singles, [Next]_vars
  PROVE  Singles'
<1>1. CASE UNCHANGED call
  BY <1>1 DEF Singles
<1>2. ASSUME NEW n \in 1 .. MaxFetches, Shows(n)
      PROVE  Singles'
  BY <1>2, ShowsEffect DEF Singles
<1>3. ASSUME NEW k \in Kinds, NEW files \in SUBSET Files, NEW unlisted \in SUBSET Files,
             NEW content \in Contents, Asks(k, files, unlisted, content)
      PROVE  Singles'
  BY <1>3, SendsEffect DEF Asks, Singles
<1>4. ASSUME NEW k \in Kinds, NEW f \in Files, Answers(k, f)
      PROVE  Singles'
  <2>1. call[k].single => call[k].todo = {f}
    BY <1>4, AnswersEffect DEF Singles
  <2> QED
    BY <1>4, <2>1, AnswersEffect DEF Singles
<1>5. ASSUME NEW k \in Kinds, Refetches(k)
      PROVE  Singles'
  BY <1>5, RefetchesEffect DEF Singles
<1> QED
  BY <1>1, <1>2, <1>3, <1>4, <1>5, UserStep
  DEF Next, UserAsks, vars, Starts, Ends, Hears, Lists, ReadsFile, Works, Toggles

\* A new list comes with a selection of its own.
LEMMA SelectionStep ==
  ASSUME Shape, SelectionIsShown, [Next]_vars
  PROVE  SelectionIsShown'
<1>1. CASE UNCHANGED <<list, selected>>
  BY <1>1 DEF SelectionIsShown
<1>2. ASSUME NEW n \in 1 .. MaxFetches, Shows(n)
      PROVE  SelectionIsShown'
  BY <1>2, ShowsEffect DEF SelectionIsShown
<1>3. ASSUME NEW f \in Files, Toggles(f)
      PROVE  SelectionIsShown'
  BY <1>3 DEF Toggles, SelectionIsShown, FilesOf
<1> QED
  BY <1>1, <1>2, <1>3 DEF Next, vars, Starts, Ends, Hears, Lists, ReadsFile, Works, Answers,
     Refetches, Sends, Saves, Uploads, Deletes


LEMMA FreshStep ==
  ASSUME Shape, Numbered, Budget, Singles, Fresh, [Next]_vars
  PROVE  Fresh'
<1>a. ASSUME UNCHANGED <<store, list, fetch, begun, shown>>,
             ~Stirring' /\ ~unknown' => ~Stirring /\ ~unknown
      PROVE  Fresh'
  BY <1>a DEF Fresh, UpToDate
<1>b. ASSUME Begins, begun + 1 \in 1 .. MaxFetches, UNCHANGED shown
      PROVE  Fresh'
  <2>1. shown.by # begun + 1
    BY ConstantsAssumption DEF Shape, Numbered
  <2>2. fetch'[begun'].step # "reading" /\ shown'.by # begun'
    BY <1>b, <2>1, BeginsEffect
  <2> QED
    BY <2>2 DEF Fresh, UpToDate
<1>c. ASSUME UNCHANGED <<running, loading, unknown, store, begun>>,
             \A k \in Kinds : Owes(k)' <=> Owes(k),
             UpToDate => UpToDate'
      PROVE  Fresh'
  BY <1>c DEF Fresh, Stirring
<1>1. CASE UNCHANGED vars
  BY <1>1, <1>a DEF vars, Stirring, Owes
<1>2. CASE Starts \/ Ends
  BY <1>2 DEF Starts, Ends, Fresh, Stirring
<1>3. CASE Hears
  BY <1>3, <1>b, RoomForOne DEF Hears
<1>4. ASSUME NEW n \in 1 .. MaxFetches, Lists(n)
      PROVE  Fresh'
  <2>1. ASSUME UpToDate
        PROVE  UpToDate'
    <3>1. fetch[n].got = Nothing /\ fetch[n].step = "listing"
      BY <1>4, ListsEffect DEF Numbered
    <3>2. fetch'[n].complete => \A f \in Files \ fetch'[n].todo : fetch'[n].got[f] = store[f]
      BY <1>4, <3>1, ListsEffect DEF FilesOf, Nothing
    <3> QED
      BY <1>4, <2>1, <3>2, ListsEffect DEF Lists, UpToDate
  <2> QED
    BY <1>4, <1>c, <2>1 DEF Lists, Owes
<1>5. ASSUME NEW n \in 1 .. MaxFetches, NEW f \in Files, ReadsFile(n, f)
      PROVE  Fresh'
  <2>1. ASSUME UpToDate
        PROVE  UpToDate'
    <3>1. ASSUME n = begun, fetch'[n].complete, NEW g \in Files \ fetch'[n].todo
          PROVE  fetch'[n].got[g] = store[g]
      BY <1>5, <2>1, <3>1, ReadsFileEffect DEF UpToDate
    <3> QED
      BY <1>5, <2>1, <3>1, ReadsFileEffect DEF ReadsFile, UpToDate
  <2> QED
    BY <1>5, <1>c, <2>1 DEF ReadsFile, Owes
<1>6. ASSUME NEW n \in 1 .. MaxFetches, Shows(n)
      PROVE  Fresh'
  <2>1. ASSUME UpToDate
        PROVE  UpToDate'
    <3>1. \A m \in 1 .. MaxFetches : fetch'[m].step = "reading" => m # n /\ fetch'[m] = fetch[m]
      BY <1>6, ShowsEffect
    <3>2. ASSUME shown'.by = begun, shown'.complete
          PROVE  list' = store
      <4>1. \A f \in Files : fetch[n].got[f] = store[f]
        <5>1. n = begun /\ fetch[n].complete
          BY <1>6, <3>2, ShowsEffect
        <5>2. fetch[n].step = "reading" /\ fetch[n].todo = {}
          BY <1>6, ShowsEffect
        <5> QED
          BY <2>1, <5>1, <5>2 DEF UpToDate
      <4>2. list' \in [Files -> Contents] /\ list' = fetch[n].got
        BY <1>6, ShowsEffect
      <4> QED
        BY <4>1, <4>2 DEF Shape
    <3>3. UNCHANGED <<begun, store>>
      BY <1>6 DEF Shows
    <3> QED
      BY <2>1, <3>1, <3>2, <3>3 DEF UpToDate
  <2>2. \A k \in Kinds : Owes(k)' <=> Owes(k)
    BY <1>6, ShowsEffect DEF Owes
  <2>3. UNCHANGED <<running, loading, unknown, store, begun>>
    BY <1>6 DEF Shows
  <2> QED
    BY <1>c, <2>1, <2>2, <2>3
<1>7. ASSUME NEW k \in Kinds, NEW files \in SUBSET Files, NEW unlisted \in SUBSET Files,
             NEW content \in Contents, Asks(k, files, unlisted, content)
      PROVE  Fresh'
  <2>1. \A j \in Kinds : Owes(j) => j # k /\ Owes(j)'
    BY <1>7, SendsEffect DEF Asks, Owes
  <2>2. UNCHANGED <<store, list, fetch, begun, shown, running, loading, unknown>>
    BY <1>7 DEF Asks, Sends
  <2> QED
    BY <1>a, <2>1, <2>2 DEF Stirring
<1>8. ASSUME NEW f \in Files, Works(f)
      PROVE  Fresh'
  BY <1>8 DEF Works, Fresh, Stirring
<1>9. ASSUME NEW f \in Files, Toggles(f)
      PROVE  Fresh'
  BY <1>9, <1>a DEF Toggles, Stirring, Owes
<1>10. ASSUME NEW k \in Kinds, NEW f \in Files, Answers(k, f)
       PROVE  Fresh'
  <2>1. UNCHANGED <<list, fetch, begun, shown, running, loading>>
    BY <1>10 DEF Answers
  <2>2. ASSUME ~Stirring', ~unknown'
        PROVE  ~Stirring /\ ~unknown /\ store' = store
    <3>1. ~unknown /\ ~running /\ ~loading
      BY <1>10, <2>1, <2>2, AnswersEffect DEF Stirring
    <3>2. ~Owes(k)'
      BY <2>2 DEF Stirring
    <3>3. call[k].single /\ call[k].todo = {f} /\ call[k].failed = {}
      BY <1>10, <3>2, AnswersEffect DEF Singles, Owes
    <3>4. store' = store
      BY <1>10, <2>2, <3>2, <3>3, AnswersEffect DEF Owes
    <3>5. \A j \in Kinds : ~Owes(j)
      BY <1>10, <2>2, <3>3, AnswersEffect DEF Stirring, Owes
    <3> QED
      BY <3>1, <3>4, <3>5 DEF Stirring
  <2>3. CASE ~Stirring' /\ ~unknown'
    BY <1>a, <2>1, <2>2, <2>3
  <2> QED
    BY <2>3 DEF Fresh
<1>11. ASSUME NEW k \in Kinds, Refetches(k)
       PROVE  Fresh'
  <2>1. UNCHANGED <<store, list, shown, running, loading>>
    BY <1>11 DEF Refetches
  <2>2. CASE call[k].single /\ call[k].failed # {} /\ UNCHANGED <<fetch, begun, unknown>>
    <3>1. \A j \in Kinds : Owes(j) => j # k /\ Owes(j)'
      BY <1>11, <2>2, RefetchesEffect DEF Owes
    <3> QED
      BY <1>a, <2>1, <2>2, <3>1 DEF Stirring
  <2> QED
    BY <1>11, <1>b, <2>1, <2>2, RefetchesEffect
<1> QED
  BY <1>1, <1>2, <1>3, <1>4, <1>5, <1>6, <1>7, <1>8, <1>9, <1>10, <1>11, UserStep
  DEF Next, UserAsks

-----------------------------------------------------------------------------
(* The theorems *)

LEMMA StepInvariant == IInv /\ [Next]_vars => IInv'
BY ShapeStep, NumberedStep, BudgetStep, SinglesStep, FreshStep, SelectionStep DEF IInv

THEOREM Invariance == Spec => []IInv
<1>1. Init => IInv
  BY InitInvariant
<1>2. IInv /\ [Next]_vars => IInv'
  BY StepInvariant
<1> QED
  BY <1>1, <1>2, PTL DEF Spec

\* Every variable keeps its type; the number of fetches stays in its bound because whoever
\* will begin one has room kept for it.
THEOREM TypeCorrect == Spec => []TypeOK
<1>1. IInv => TypeOK
  <2> SUFFICES ASSUME IInv PROVE TypeOK
    OBVIOUS
  <2>1. \A k \in Kinds :
          /\ call[k].step \in {"idle", "sent", "refetching"}
          /\ call[k].todo \cup call[k].failed \subseteq Files
    BY DEF IInv, Shape, CallRecords
  <2>2. \A n \in 1 .. MaxFetches :
          /\ fetch[n].step \in {"none", "listing", "reading", "done"}
          /\ fetch[n].todo \subseteq Files
          /\ fetch[n].got \in [Files -> Contents]
    BY DEF IInv, Shape, FetchRecords
  <2> QED
    BY <2>1, <2>2 DEF IInv, Shape, Numbered, TypeOK
<1> QED
  BY <1>1, Invariance, PTL

\* What is selected is listed, whichever fetch is shown and whatever failed.
THEOREM SelectionIsShownHolds == Spec => []SelectionIsShown
<1>1. IInv => SelectionIsShown
  BY DEF IInv
<1> QED
  BY <1>1, Invariance, PTL

\* When all is quiet, the fetch begun last was begun after the last change that the page
\* knows of: if it is the one that is shown and was complete, the list is the store.
THEOREM CurrentIfNewestHolds == Spec => []CurrentIfNewest
<1>1. IInv => CurrentIfNewest
  <2> SUFFICES ASSUME IInv, Quiet, shown = [by |-> begun, complete |-> TRUE], ~unknown
               PROVE  list = store
    BY DEF CurrentIfNewest
  <2>1. ~Stirring
    BY DEF Quiet, Stirring, Owes
  <2>2. shown.by = begun /\ shown.complete
    OBVIOUS
  <2> QED
    BY <2>1, <2>2 DEF IInv, Fresh, UpToDate
<1> QED
  BY <1>1, Invariance, PTL
=============================================================================
