# The NextRole agent server in TLA+

TLA+ models of NextRole: the self-hosted agent server (`src/backend`) and the parts of
the frontend (`src/frontend`) that keep state beside it. They are checked with TLC and,
where a result should hold for every size of the system, proved with TLAPS. Paths
below are relative to the repository; `runs.py` and `threads.py` without a directory
are the servicers in `src/backend/server/core_server/servicers/`, `session.py` and
`service.py` are in `src/backend/server/api/event_streaming/`.

- [The system](#the-system)
- [Modules](#modules)
- [From code to model](#from-code-to-model)
- [Runs](#runs)
- [Disagreements between code and documents](#disagreements-between-code-and-documents)
- [Fairness](#fairness)
- [Proofs](#proofs)
- [Not modelled](#not-modelled)
- [Plan](#plan)

## The system

One image runs as two services. **backend** serves HTTP, SSE and WebSocket,
executes the agent graphs in an embedded pool of workers, and writes checkpoints
straight to Postgres. **core-server** is a gRPC data plane: it alone issues SQL on
assistants, threads, runs and crons, claims runs, and fans events out through
Redis. Postgres is the system of record; Redis holds the doorbell of the queue,
control keys, counters, channels and the event log of each thread. The frontend
(Next.js) talks to backend.

| Component | State | Operations | Interacts with | Hard |
|---|---|---|---|---|
| Run queue: `runs.py`, `runtime_postgres/queue.py`, `api/worker.py`, `api/grpc/ops/runs.py`, `api/models/run.py` | table `run` (status is the queue), Redis attempt counters, control keys, doorbell list; per process the runners and worker tasks | create, delete, claim (`Next`), execute, settle, retry, cancel, mark done, shut down | threads (joint status), events, webhooks | concurrent claims, lost wakeups, signals racing subscriptions, failures between two writes, crashes |
| Thread status: `threads.py`, `api/grpc/ops/threads.py` | `thread.status` | `Create`, `SetStatus`, `SetJointStatus`, `Runs.Create`, state update | run table | statements that decide on snapshots (READ COMMITTED) |
| Event stream of a thread: `Runs.Publish`, `Runs.MarkDone`, `Threads.Stream` | Redis stream (log) and pub/sub channel; per client a cursor | publish, replay, follow, resume | workers, v2 sessions | two sources, their seam, non-atomic log and publish |
| Run followers (v1) and the publish path: `Runs.Stream`, `api/stream.py` | subscription, done marker, publish queue | publish, follow, join, wait | event stream, run table | a done marker that was missed, a retry after a lost reply |
| v2 sessions: `session.py`, `service.py`, `api/api/event_streaming.py` | per connection: the run it is bound to, subscriptions, buffer, sequence numbers, what it has said of the run's end | subscribe, resume, unsubscribe, rebind to the next run, tell the end | `Threads.Stream`, the run's row, the thread's state | a reader and commands that interleave at every await, markers that come late |
| Crons: `servicers/crons.py`, `api/cron_scheduler.py` | table `cron` | create, patch, delete, poll, fire | run creation | a batch that goes stale, several schedulers |
| Usage quotas: `agents/usage.py`, `agents/auth.py` | `usage_ledger`, and the run table it reads | gate, meter, report | run creation | concurrent requests, time fixed before a lock |
| Assistants, store, checkpointer, caches, migrations | their tables | versions, copies, sweeps | | see [Not modelled](#not-modelled) |
| Agents: `agents/career_agent`, `agents/analytics_agent` | sandboxes, scratch files, objects | tools, approvals | object store, sandboxes | sandbox renewal, edits with a precondition |
| Approvals: `useInterruptApprovals.ts`, `ChatInterface.tsx`, `service.py` | per page: the SDK's interrupts, queued decisions, what was answered; the thread's open interrupts | decide, send a message, respond, create or resume a run | the SDK's stream, run creation | replayed interrupts, several pages, failed answers |
| Files panel: `useChat.ts`, `useFileUpload.ts`, `TasksFilesSidebar.tsx`, `lib/agentFiles.ts`, `files_api.py` | the list and the selection of the page; the object store | fetch, save, upload, delete | the files API, the agent's writes | overlapping fetches, calls that fail in part |
| Analytics pipeline, deployment, agent skills | | | | |

What makes each modelled component correct:

- **Run queue.** A run is executed by one task at a time, whose row says running
  until that task writes the outcome; an outcome is never overwritten; a due run is
  claimed though its wakeup is lost; a claimed run ends; a cancellation reaches the
  task; the done event follows the commit.
- **Thread status.** The thread is busy exactly while a run of it is active.
- **Event stream.** Nothing structural is lost or delivered twice at the seam, and
  what one run published comes in its order.
- **Followers.** A follower gets what its run publishes and ends when the run does.
- **Sessions.** A subscription gets all it matches, in order, replayed or live; the end
  of every run is told.
- **Crons.** A due cron fires in the end; a stopped one comes to an end.
- **Quotas.** No window holds more runs than its limit, whatever the concurrency.
- **Approvals.** Every open interrupt is shown for review, is answered once, by
  decisions of one review, and nothing else is taken for an answer.
- **Files panel.** The list is that of the store once all is quiet, and only what is
  listed can be selected and deleted.

## Modules

| Module | What it is |
|---|---|
| `RunQueue` | the run queue with its workers, cancellation and faults |
| `RunLifecycle` | abstract specification: the life of each run, status and executors |
| `RunQueueProofs` | safety of `RunQueue`; that it implements `RunLifecycle` |
| `ThreadStatus` | one thread's status column and its writers, at statement level |
| `ThreadEvents` | log and channel of one thread, the workers that publish to them, the thread's clients and the followers of its runs |
| `EventSession` | one v2 connection: its reader, its sessions and the commands beside it |
| `Approvals` | review of tool calls, from the pages over the commands to the runs |
| `ChatFiles` | the files panel, its fetches and the object store |
| `Crons` | cron table and schedulers |
| `UsageQuota` | the quota gate, the ledger and the runs it lets through |
| `ThreadStatusProofs`, `ThreadEventsProofs`, `EventSessionProofs`, `ApprovalsProofs`, `ChatFilesProofs`, `CronsProofs`, `UsageQuotaProofs` | type correctness and safety of each |
| `MC...` | instances for TLC |

`RunQueue` and `ThreadStatus` look at the same calls at two grains. `RunQueue`
leaves the thread's column out and takes an update of run rows as atomic, because
such a statement locks its rows and checks their status under the lock.
`ThreadStatus` leaves Redis and the workers' inner life out and splits the
statements that decide on a snapshot. `Crons` and `UsageQuota` end where they
call run creation, where `RunQueue` begins; `ThreadEvents` begins where a worker
publishes, whose row it has as one flag. `EventSession` begins where `ThreadEvents` ends:
its `tape` is the stream of a client that asked for everything and misses nothing, as
`CaughtUpHasAll`, `OnceEach` and `InOrder` promise. `Approvals` takes from `EventSession`
that a page hears the thread's events in their order, and models the commands with the
page that sends them. `ChatFiles` shares with `Approvals` only `isLoading`.

Definitions called *mutants* are the definitions that follow them with a bug put in;
no specification uses them. Each was substituted for the original and the named
property seen to fail.

## From code to model

**RunQueue.** `row` is `run.status` (absent before the insert, deleted after a
DELETE), `due` whether `created_at` has passed, `create` the insert statements
between snapshot and commit. `attempt`, `control`, `wakeups` are the Redis keys
`run:attempt`, the control key and the doorbell list. Per runner slot: `pc` is
where `worker()` is (`claimed` by `Next` and not yet started, `executing` in the
body of `Runs.enter`, `settling` before the status is written, `marking` before
`mark_done`, `leaving` before `cleanup`), with the state of its `Enter` stream
(`enter`, `inbox`) and the `ValueEvent` (`signal`). `asked` is the limit of a
`Next` call parked on BLPOP. One SQL statement or transaction, one Redis command
and one step of a task between awaits is one action:

| Code | Actions |
|---|---|
| `create_valid_run`, `Runs.Create` | `CreateReads`, `CreateCommits`, `CreateConflicts` |
| `Runs.Delete`, `Threads.Delete`, `Threads.Create` | `DeleteRun`, `DeleteThread`, `CreateThread` |
| `Runs.Next`, the loop of `queue()` | `NextClaims`, `NextParks`, `NextWakes`, `Spawn`, `FetchFails` |
| `Runs.Enter`, `listen_for_signals` | `Subscribe`, `ReadKey`, `Deliver`, `ListenerFails` |
| `worker()`, `Runs.enter`, `cleanup` | `GraphEnds`, `Settle`, `Repend`, `SettleFails`, `MarkDone`, `MarkDoneFails`, `Leave` |
| `Runs.Cancel` | `CancelByIds`, `CancelByStatus`, `CancelSets`, `CancelPublishes`, `CancelWrites`, `CancelAborts` |
| SIGTERM, `shutdown_queue`, kill | `Drain`, `Exit`, `Crash`, `Start` |
| keys with a time to live | `ControlExpires`, `AttemptExpires` |

The insert has a snapshot step and a commit step since two concurrent creations may
both find no run in flight, and a creation may read a thread that is deleted before
it commits: tables have no foreign keys. Which due rows a claim takes (ORDER BY
`created_at`) is left open. A graph may end in any way at any time; when a signal is
there it may still end by itself first. What the listener does between the end
of the graph and its cancellation is not told apart, nothing reads it. A
cancellation by id of a run that has ended sets a key nobody reads and is left out.
The branch of `queue()` for a run without a graph id is unreachable, every created
run has one. Of the attempt counter, INCR and EXPIRE may each fail: either way the attempt
counts as the first (`blind`), and after EXPIRE alone the key is counted up and stays. A
reply of `Next` may be `lost`. `Threads.Delete` aborts with NOT_FOUND after the cascade
has committed (`threads.py:161`), so a thread that is gone does not keep its runs.

**ThreadStatus.** At READ COMMITTED a statement decides on what was committed when it
began; once it has a row's lock it evaluates its condition on that row again, but not
a subquery on other tables. So `joint` and `update` hold what EXISTS returned, and
`UpdateCommits` tests the status twice where `expected_status` is given: for
`Threads.State.post`, after its busy check (`UpdateChecks`). `Threads.State.bulk`, which
POST `/threads` with supersteps reaches, gives none and has no check (`BulkBegins`), so its
updates write whatever they find. `Overlap` is the set of pairs of kinds of statements
(`create`, `joint`, `update`, `bulk`) that may be between their two steps together, a
single kind standing for two statements of that kind; a statement waits while one it does
not overlap with is in flight. `stale` is a history variable: a run was cancelled or
deleted, which leaves the thread alone, since a worker last derived the status.

**ThreadEvents.** An entry's id is its place in the log, which keeps the order of
Redis ids. `pub` is a worker: the number of its next event, where `_fanout_event` is
between XADD and PUBLISH, and whether the run's row is final; `Length` numbers the done
marker. `sub` is a call of `Threads.Stream` with its cursor, `replayed_up_to` (`upto`)
and the messages its subscription buffered, `mem` the client's last event id, `follow`
a call of `Runs.Stream`. `Faults` are XADD that fails (no entry, no id), EXPIRE (an entry
whose copy has no id), PUBLISH (an entry, no copy), a reply that is lost, so that
`Runs.Stream.publish` calls again, a worker that dies and a log that is trimmed. A
publish that is given up after all retries is one whose append and publish fail.
`streams` counts the streams that were opened, for the bound `MaxStreams`; a client's
`mem` also keeps, as history, what it got (`seen`) and the ids it resumed from
(`resumed`). `unsent` is a history variable, the events a failed PUBLISH kept from the channel. The two
consumers of `api/stream.py` publish in the order of the graph and leave nothing behind
when they return, so `Settles` waits for both.

**EventSession.** `tape` is the thread's stream and `reader` where
`_consume_thread_stream` is in it, with the awaits of `_emit_terminal_lifecycle` and
`_emit_input_requested_events` as steps, because commands run there. `sessions` has
every session of the connection, since a replay goes on in one that was left.
`made` holds the events by number, of which the buffer of a session is an interval
(`lo`, `hi`), `wire` what was sent. What a replay has yet to send is the set `replay.todo`,
sent from the smallest number on, since a buffer is in the order of its numbers. A
subscription has the number from which on it was promised everything (`floor`), which it
keeps when a new session takes it over; what it lacks while the replay of an older session
goes on is `Owed`.
`MaxBuffer` is positive, as the constructor demands (`session.py:232`). A run has the root namespace and one child. An event
stands for its place on the tape (`src`), which is what `event_id` is derived from; a
lifecycle event of the session has the id of its status. The worker's side says
what each outcome leaves on the stream and in the row; `MarksDone` comes after the row
is written, and possibly after the next run's first events.

| Code | Actions |
|---|---|
| `_consume_thread_stream`, `_ensure_run_session`, `start` | `SkipsMissed`, `SkipsUnknown`, `Rebinds` |
| `_dispatch_source_event`, `_handle_lifecycle_event` | `Forwards`, `OpensChild`, `ClosesChild`, `AsksInput`, `SaysInterrupted` |
| error events, `complete`, `_emit_terminal_lifecycle` | `Fails`, `StartsTerminal`, `ReadsRow`, `ReadsState`, `Flushes` |
| `subscription.subscribe`, `.reconnect`, `.unsubscribe` | `Subscribes`, `Reconnects`, `Unsubscribes` |
| `install_subscription_with_replay` | `Installs`, then `SendsReplayed`, `EndsDrain` |
| a new request with `since` | `Reopens` |

**Approvals.** `log` has the thread's events as a page hears them, `page` for each load
of the page what the SDK has (`root` the root store, `record` the thread's record,
`loading`) and what the hook has (`responded`, `queued`, `shown` from the last render).
A render and the effect after it are one step, `Renders`; `decide` runs between renders, on
the cards of the last one. `requests` are the commands on their way: `sent`, found
`valid`, then the run that came of them. Every HTTP command has a manager without a
session, so validity is that of the thread's state at that moment. `seen` and the marks
`new` and `old` on decisions are history. The SDK (`@langchain/react`) is external: from
what `useInterruptApprovals.ts` and `ChatInterface.tsx` say of it, an interrupt of a
subagent that is live reaches the record only, and hydration fills the root store.

**ChatFiles.** `store` gives each file a content, a number that is new for every write. A
fetch (`fetchArtifactFiles`) lists and then reads each file; `Shows` is `setExtendedFiles`
with everything React does in that render: the effect on the selection, and the
continuation of the call that waited for this fetch. `call` is at most one save, one
upload and one deletion in flight. `panel` is whether the panel a deletion was confirmed
in is still mounted: `FilesSection.tsx:86` has none for an empty list. `unknown` and
`shown` are history.

**Crons.** Time is a counter, a schedule every `period` ticks. `batch` is, for each
scheduler, the reply of `Crons.Next` it is working through, and `void` the crons in it that
have lost their assistant. Of the payload a cron has only whether it names one (`named`):
`patch_cron` passes the body of the request on as the payload (`api/api/runs.py:900`), the
servicer replaces the column with it (`crons.py:235`), and the body's schema has no
`assistant_id` (`"reassign"` is a body that has one all the same). `create_valid_run` raises
without it, caught for that cron alone (`FireFails`); what raises before (`Abandons`) drops the
rest of the reply. `late` is a history variable: the runs fired for a cron since it was
disabled or deleted.

**UsageQuota.** `stamp` is `now()` of the transaction, which stands still from its
begin through the wait for the lock. The statements that read run under the lock and
are one step. Spend is a count of model calls; a run spends at most `RunCost`.

Simplifications that could be taken for the code:

- A PUBLISH whose reply was lost has reached the channel by the time of the retry, or never
  (`ThreadEvents!Retries`); in the network it could still land after later ones.
- An event is sent to a connection once however long it lasts (`EventSession!Accepts`); the
  code remembers the last 2048 event ids only (`_DELIVERED_DEDUP_WINDOW`).
- A run is in the run table from the moment it is created (`UsageQuota!Start`); in the code
  `created_at` is the begin of a transaction that becomes visible a little later.
- A `Cursors` value, the `since` of an SSE client, is a number that client has received, or
  none; a client that makes one up is not modelled.

## Runs

| Run | Instance | Shows |
|---|---|---|
| `queue_cancel` | two runs on a thread, two slots of one process, a caller that cancels by id, by status and by strategy, a control key that expires | `NoLostCancel`, `NoOrphans`, `TerminalIsFinal` |
| `queue_faults` | two runs, one temporary, two processes, failing Redis and calls, crashes, shutdowns, expiry, deletion of runs and threads | `TypeOK`, `OneExecutor`, `ExecutorOwnsRow`, `DoneAfterCommit`, `ImplementsLifecycle` |
| `queue_live` | two runs, maybe delayed, competing for one slot, retries, a doorbell that fails at will, attempt counters that expire, cancellations that may die half way | `DueRunIsClaimed`, `ClaimedRunEnds` |
| `thread_updates` | three runs, cancelled and deleted at will, two state updates, guarded or bulk; everything overlaps but settlings with each other, and creations and bulk updates with settlings and with each other | `TypeOK`, `ActiveIsBusy`, `StatusAgrees` |
| `crons_due` | two crons, two schedulers, patches of both kinds, deletions, replies abandoned | `TypeOK`, `StopsFiring`, `DueCronFires` |
| `quota_runs` | four requests of an owner, one run a day and two a week, one run at a time | `TypeOK`, `RunLimitHolds`, `OnlyOverlapsExceed` |
| `events_seam` | two runs of an event and a done marker, one event a chunk; a client and a follower that open two streams between them, one fault of any kind | `TypeOK`, `CaughtUpHasAll`, `OnceEach`, `InOrder`, `SkipsOvertaken`, `DoneComesLast`, `FollowerEnds` |
| `session_ws` | two runs of one event each and a child namespace, two subscriptions over a WebSocket, two commands, a buffer of two, a row that cannot be read | `TypeOK`, `NothingMissed`, `InOrder` |
| `session_sse` | two runs with a chunk, an interrupt or a child namespace, that succeed, fail or are interrupted, an SSE client that connects twice | `TerminalTold`, `EndTold` |
| `approvals` | an interrupt of the root with one action and one of a subagent with two, two loads of the page, three requests, six events, failures | `TypeOK`, `AnswersOnce`, `OneReview`, `ComposerLocks`, `OffersReview` |
| `chat_files` | two files, one content written, three fetches, an agent's run, two failing requests | `TypeOK`, `CurrentIfNewest`, `SelectionIsShown` |

Bounds and why they suffice. Two runs and two slots give every pair of a run's
holders and every pair of runs on a thread; a third repeats them, and the invariants
speak of pairs. `MaxRetries = 1` gives a first attempt, which is retried, and a second
one that is refused. One canceller is enough against the worker and the claim: two
cancellers write the same key and rows that are no longer pending after the first.
`MaxWakeups` caps the doorbell list at the number of runs; a longer list only
wakes a process that finds nothing. `MaxRetries + 1` saturates the attempt counter,
which the code compares with `MaxRetries` only. `Calls` and `Faults` choose what
callers and the environment do, so that a run does not pay for what it does not
ask about. Three runs in `thread_updates` let two others be active while one
ends; they are interchangeable, so TLC takes them up to permutation. `queue_cancel`
lets only the control key expire: the attempt counter is none of its questions, and
expires in `queue_faults` and `queue_live`. The pairs of
statements that do not overlap in `thread_updates` are those in which a property is false
(see the list below). `ActiveIsBusy` is true where settlings overlap with each other and
with bulk updates, and is proved so.

In `events_seam` two runs give each other's events to be overtaken by, and
`MaxFaults = 1` any one fault at any place. `MaxStreams = 2` is a stream each for the
client and the follower, or a connection of the client and a resumption of it; with three
(1.9 million states) and with two faults the invariants hold as well, and for every
number they are proved. Four requests against a limit of one and of two, over four ticks,
fill and empty a window. In `crons_due` four ticks hold an instant of the schedule
and one after it; `MaxFired` lets a stopped cron be fired by both schedulers and once more.
No cron there has an end time within the clock, which would only take crons out of replies;
with end times (350,000 states) it holds as well, in more time than the other runs take.

In `session_ws` the event and the lifecycle of two runs and of a child fill a buffer of two
more than once, so that evictions overtake replays; two commands are a subscription and
what is done to it, or two subscriptions that share an event.
`session_sse` has one event a run and so every order of two
runs' markers; runs that time out and rows that are deleted are not in it, since the code
does not tell their ends (see the list below).

In `approvals` three requests are the message that begins, and two of an answer, an answer
of the other page and a message; six events are a run that asks, one that answers and
asks again or ends, and the start of a third. A page that is left does nothing more, so two
loads stand for a reload and for two tabs. In `chat_files` three fetches let two overlap
after the one shown.

`approvals` and the session runs end where their bounds are used up, so deadlock is not
checked there, nor in `chat_files`, `events_seam`, `quota_runs` and `thread_updates`,
whose bounded supply of events, fetches, requests or runs ends. It is checked in the
queue and cron runs.

## Disagreements between code and documents

A run of its own, expected to be violated; the finding in `PROJECT.json` quotes the
sentence:

| Run | Property | What the trace does |
|---|---|---|
| `queue_enqueue` | `EnqueueWaits` | two runs enqueued on a thread are claimed together: `_claim` does not look at threads |

Where the code disagrees with a property that holds otherwise, the property names the case,
and dropping it from the formula, or letting the statements overlap, makes TLC show
the trace:

| Property | Excepts | What happens there |
|---|---|---|
| `ClaimedRunEnds`, `DueRunIsClaimed` | counters that expire for ever (`CountersLast`) | an attempt outlives its counter, which expires 60 s after the claim (`runs.py:469`), fails, and the next one counts as the first, without end; ARCHITECTURE.md:148 says "attempts count in Redis (`BG_JOB_MAX_RETRIES`, default 3)" |
| `StatusAgrees` | settlings that overlap (`Overlap`) | two `SetJointStatus` each see the other's run active (`threads.py:352`), and the thread stays busy with no run; `api/grpc/ops/threads.py:857` speaks of "a single atomic operation" |
| `ActiveIsBusy` | a creation that overlaps with a settling | the new run finds the thread busy in its snapshot, skips the update (`runs.py:410`), and is pending on an idle thread; ARCHITECTURE.md:133 has it "created in the same transaction that flips the thread to `busy`" |
| `ActiveIsBusy` | a creation that overlaps with a bulk update | the update finds no run, a run is created, and the update sets the thread idle (`threads.py:291`); `State.post` refuses such an update (`api/grpc/ops/threads.py:1105`) |
| `StatusAgrees` | a settling that overlaps with a bulk update | the update finds a run, the run ends, and the update sets the thread busy |
| `DueCronFires` | crons that name no assistant | a PATCH without one takes the cron's away (`crons.py:235`), and creating the run raises KeyError (`api/models/run.py:417`) at every poll from then on; the payload of `CronPatch` has only optional fields (`openapi.json:4715`) |
| `NothingMissed` | what a replay still owes (`Owed`), `InOrder` one session | the reader goes over to the next run while a replay is sent; the subscription is active in the new session at once (`service.py:848`), and the next run's events overtake the replay; `session.py:1039` has the subscription activated after the drain |
| `EndTold` | numbers up to `since` | chunks have numbers and are not on the log, so after a reconnect the end of a run may have a number that the client was given for another event, and is dropped (`api/api/event_streaming.py:206`); `openapi.json:1625` tells clients to resume so |

Also met while modelling:

- `"reject"` gives up on pending runs only (`runs.py:366`), while `api/models/run.py:398`
  speaks of a thread that is "already running a task".
- `Runs.enter` swallows the retriable exception, so `cleanup()` calls the webhook for a
  run that is pending again (`api/grpc/ops/runs.py:1110`).
- A run created after the busy check of a state update (`api/grpc/ops/threads.py:1102`)
  executes while the state is written.
- `Crons.Next` is a SELECT (`crons.py:338`) and nothing moves `next_run_date` on with this
  backend, so every poll fires a due cron again; `api/cron_scheduler.py:126` says it
  is advanced atomically.
- A cron disabled after the poll is fired from the batch (`api/cron_scheduler.py:58`);
  `StopsFiring` bounds it.
- Two requests pass the concurrency gate before either run is in the run table
  (`agents/usage.py:384`), where `deploy/vultr/README.md:57` says "No parallel fan-out from
  several tabs"; `OnlyOverlapsExceed` says that this is the only way.
- Runs of several owners pass the global ceiling together; `agents/usage.py:15` bounds
  the overshoot by one run.
- XADD and PUBLISH are two commands, so a client that resumes from an event that overtook
  another never gets the other (`runs.py:515`); `ARCHITECTURE.md:342` calls reconnects
  lossless. `SkipsOvertaken` says that nothing else is missed.
- `replayed_up_to` starts at 0-0 on a resume (`threads.py:507`), so after an empty
  replay a late copy of an old entry is forwarded, to a client that had it on the
  connection before; so is an entry whose EXPIRE failed, whose copy has no id (`runs.py:523`).
- A run cancelled while pending publishes no done marker, so only the safety net ends its
  followers, and events published between the empty buffer and the look at the row are
  not yielded (`runs.py:570`).
- An exception to be retried is published as an error (`api/stream.py:681`), and the session
  latches "failed" for a run that may succeed; `session.py:329` says that "the actual terminal
  status" is delivered when the run is done.
- The docstring of `install_subscription_with_replay` says that `since=0` is always valid
  (`session.py:1052`); it raises `ResumeGap` once the buffer has dropped an event.
- A timeout is a status that stands for "running", so its end is never told; nor is the end
  of a run whose row cannot be read (`session.py:470`).
- An answer that fails is not noticed (`useChat.ts:362`) and its interrupt stays marked: the
  card is gone until the page is loaded again, and with an interrupt of the root the
  composer stays locked.
- An interrupt of a subagent that is live is not in the root store, so the composer unlocks
  as soon as the page has answered it, while it is still open, and a message sent then
  is taken for an answer, which `ChatInterface.tsx:195` sets out to prevent.
- Two pages may answer one interrupt, and both answers become runs (`service.py:626`).
- Fetches of the file list are not numbered: an older one that ends later replaces the
  list of the newer one, although `useChat.ts:193` fetches "so store/disk writes from the
  latest run show up". `CurrentIfNewest` is about the other case.
- The editor keeps what it opened, Save and the confirmation of a deletion do not look at
  `editDisabled`, and a list that could not be fetched shows no files and closes both.

## Fairness

`RunQueue!Fairness` is weak fairness of the claim, of each slot's task, and of the
passing of `created_at`. asyncio schedules every task that is ready,
`asyncio.wait_for` ends a graph after `BG_JOB_TIMEOUT_SECS`, BLPOP has a timeout of
5 s. Nothing is assumed of callers, of cancellations or of faults. Of the faults,
`queue_live` has a failing doorbell (a wakeup that another process takes is the same
loss), cancellations that die half way, and attempt counters that expire. The counter
lives 60 s from the claim, while an attempt may last 24 h, so its expiry is
ordinary: both properties are claimed on the premise `CountersLast`, that from some time
on no counter expires (attempts are short, or the run no longer fails), which is a
hypothesis on the load and not fairness the code provides. Without it a run is retried
without end, and can hold the only slot. The same happens while Redis
is down, when each attempt counts as the first; and a killed worker leaves its row running
and no sweeper exists (ARCHITECTURE.md §9): neither is in `queue_live`.

`EventSession!FairSpec`: the reader task and a replay under way go on, since asyncio runs
what is ready; nothing is assumed of the workers, so `EndTold` asks for the done marker.
It speaks of what passed the filter of the connection (`on_event`) or has a number that
filter drops because the client says it had it.
`ThreadEvents!FairSpec`: the loop of a follower goes on (`get_message` has a timeout of a
second); the worker may stop anywhere.

`Crons!Fairness`: time passes, each scheduler polls and works through its replies, and of a
cron whose payload names an assistant, creating the run does not fail for ever and the replies
it is in are not for ever abandoned before its turn (strong fairness of `Fire`, which
either disables until the next poll). That is a hypothesis on the database and on the
other crons' payloads: one that can never be read starves those behind it. Of a cron that
was patched without an assistant nothing is assumed.

## Proofs

Eight modules hold proofs. Each takes the `ConstantsAssumption` of its module and nothing
else, unless it says so: slots, requests, schedulers, files and interrupts are finite,
limits and counters are naturals; the sets of runs, threads, processes, owners, clients
and pages may be infinite, and so may those of subscriptions. None of the properties is inductive as it stands (the run limit
and one executor come nearest), so each module has an invariant of its own. Those of
`Approvals`, `ChatFiles`, `ThreadEvents`, `EventSession` and of the newer half of `RunQueue`
were checked with TLC on the instances above before they were proved.

| Module | Theorems | Hypotheses |
|---|---|---|
| `RunQueueProofs` | `TypeOK`, `OneExecutor`, `ExecutorOwnsRow`, `DoneAfterCommit`, `TerminalIsFinal`, `ImplementsLifecycle`; `NoOrphans`, `NoLostCancel` | the last two exclude some faults in their own text |
| `ThreadStatusProofs` | `TypeOK`; `ActiveIsBusy`; `StatusAgrees` | for `ActiveIsBusy`, `CreationsApart`: creations overlap neither with settlings nor with bulk updates; for `StatusAgrees` also `SettlingsApart`: nor do settlings with each other or with bulk updates |
| `ThreadEventsProofs` | `TypeOK`, `OnceEach`, `InOrder`, `CaughtUpHasAll`, `DoneComesLast`; `SkipsOvertaken` | for the last, no client begins without a replay |
| `EventSessionProofs` | `TypeOK`, `NothingMissed`, `InOrder`, `TerminalTold` | |
| `ApprovalsProofs` | `TypeOK`, `AnswersOnce`, `OneReview`, `OffersReview`, `ComposerLocks` | |
| `ChatFilesProofs` | `TypeOK`, `SelectionIsShown`, `CurrentIfNewest` | |
| `CronsProofs` | `TypeOK`, `StopsFiring` | |
| `UsageQuotaProofs` | `TypeOK`, `RunLimitHolds`, `OnlyOverlapsExceed` | |

**RunQueue.** The invariant is `IInv == TypeOK /\ Ownership`. `OneExecutor` alone
is not inductive: a claim must not take a run that a task still holds. A
claim takes pending rows, and by `ExecutorOwnsRow` and `DoneAfterCommit` a row held by
a task is never pending, so `Ownership` joins the three. `SlotsHoldRuns` says that
a busy slot has a run, and `InsertsAreNew` that a creation in flight cannot
overwrite a row. The step lemma has a case per action; most reduce to `OwnershipKept`
(a step that keeps the slots and moves rows no task answers for) or `ReleaseKeeps`
(slots are released).

For `NoOrphans` a step that gives a run up must leave its row in another state
(`HeldKept`): a settling writes an outcome, or deletes the row with its temporary thread, and
finds no row where the thread is gone already. `NoLostCancel` follows from `Heard`: the
stream that listens while a key is set has the message, or the call that set the key
is still to publish it. Subscribing before reading the key (`Enter`) and setting it before
publishing (`Cancel`) are the two steps of that proof that would fail in the other order.

`HolderAlone` turns the invariant into the statement that the set of executors of a run is
empty or a singleton; then each action is shown, run by run, to be a step of
`RunLifecycle` or none. Hence `Refinement == Spec => ImplementsLifecycle`.

**ThreadStatus.** What a statement read can only have moved, by the time it commits, in the
direction that does no harm: a thread a creation saw busy still is; of runs a settling did
not see none has come; and an update that saw runs saw the thread busy, and is going to
write nothing, unless it is a bulk update, which writes what it read. So a bulk update that
saw no run must not meet a creation, and one that saw a run must not meet its settling,
if the columns are to agree. Without the hypotheses the properties are false (see the table
of disagreements); guarded updates overlap with everything.

**ThreadEvents.** The invariant accounts for every copy of an entry, wherever it is: with
a worker, in a subscription's buffer, or received. `Stamps` says that a message with
an id is the copy of that entry; `Order` that what one run published comes to a connection
with rising ids, and what is still buffered after what it got, unless the replay
was ahead of it, whose ids are then no larger than `upto`; `NoneMissed` that what a
connection lacks is coming to it, or was kept from the channel, or is still the worker's;
`Following` says the same of a follower. From these the theorems follow one by one.
`SkipsOvertaken` needs more, what a client had when it resumed (`Resumes`), and excludes
clients that begin without a replay: such a client resumes past what it never asked for.

**EventSession.** `Structure` ties the parts together: the session that is bound has
numbered everything, the wire carries numbers of the session it names, a subscription is
silent exactly while its replay goes on (`ReplayIsSilent`), and between two parts of an item
the reader is at an item of its run (`ReaderIsBound`). `SessionStep` reduces the thirteen
actions of the reader to three effects on the sessions (none, a new state of the bound
session, an event pushed), and `Resubscribed` the commands to one; each later lemma has
a case per effect.

`InOrder` alone is not inductive, since a live event might come before the rest of a
replay. A push reaches active subscriptions only and has the highest number; a replay
sends its numbers in order, and all that was sent before is below what is left
(`ReplayAscends`). `NothingMissed` says nothing of a subscription whose replay goes on.
`Covers` does, of every subscription of every session and of the number up to which it was
promised everything: what it wants was sent, was evicted, is owed by the replay, or has a
number beyond the replay's horizon and is still in the buffer. `_push_event` moves an event
from the last of these to the second, the next round of the drain from the last to the
third, and when that finds nothing the last is empty, which is when the subscription
becomes active. A session that takes subscriptions over takes what they were promised
over with them, and what the replay of an older session owes stays owed until it is sent.

`TerminalTold` speaks of the reader past the marker, so the invariant says what is so before
it. `TapeTells` is the worker's account: a row is final before the marker, the marker
is the last entry of its run, and the only attempt of a run that ended left an error exactly
where its row says so, with nothing but the marker after it. `LatchTells`: a session
that is latched before the marker has told an interrupt or an error that is on the
stream, and the error if the reader has seen it. An interrupt that is told after
the error would break this; `ErrorSeen` says that none comes. `EndIsRead`: from the read of
the row to the telling the row stands still, because it is final.

**Approvals.** What a page has of the thread is an account of the log. `Recorded`: once a
page hears live events, its record has every question up to there. `Offered`: the last
render showed all of the root store, and of the record if it followed the end of a run
with calls left. `Called`: whether calls are left the page knows or will hear. `Loads`: after
the end of a run it loads only for a message of its own. `Chronicle` says of the log that
what is open was asked for, and that the last end of a run tells whether anything was
left open. `OffersReview` puts these together. `ComposerLocks` rests on `Unlocked` and
`Requested`: a message that no event has followed leaves nothing open that its page has not
answered. `AnswersOnce` holds because a marker is never pruned, `OneReview` because what
is queued is always of what is shown. A step of another page, of the server or of the graph
disturbs a page's account only through the log and the open interrupts (`FollowingKept`,
`FollowingGrown`), and a step of the page itself is looked at alone.

**ChatFiles.** `CurrentIfNewest` says nothing while a fetch is under way. `Fresh` does:
unless something that may still change the store owes a fetch, or a change was taken for
a failure, the fetch begun last has read what the store holds, as far as it came, and so
has the list if it is its own. A call of one file that has not asked yet has changed nothing
and one that failed owes no fetch (`Singles`), which is why both count as quiet. `Budget` shows
that the bound on fetches never keeps an owed one from beginning.

**Crons.** The runs a stopped cron has been given, with the replies that still name it, are at
most one for each scheduler: a poll adds no reply for a stopped cron, and each run
takes one away.

**UsageQuota.** A run row enters the ledger with the time `t` its transaction began,
and the gate has counted every row younger than `t` minus the window, those younger
than `t` too. A window that contains `t` begins no earlier than that, so all it holds
was counted (`CommitKeepsLimit`). `OneHolder`, from the lock, and `GrantStands` keep the
count true until the row is in. `OnlyOverlapsExceed` follows from what the gate found: of
the runs it lets in, those that were there before the transaction began left room, and
runs only leave that set (`BeforeShrinks`, `GateStands`).

Only model-checked: liveness (`DueRunIsClaimed`, `ClaimedRunEnds`, `DueCronFires`,
`EndTold`, `FollowerEnds`), which is out of the prover's reach. Every other property of a
passing run is proved. `EventSession!Published`, the number of events of a run, is only a
bound on what the worker publishes, and no proof rests on it. No model has a recursive
operator, so nothing is left to TLC for that reason.

## Not modelled

`PROJECT.json` lists every component with the reason. In short: parsing, validation,
encryption, logging, metrics and generated code have no behaviour in time; graph
execution, the checkpoint saver, the store and the frontend's SDK are libraries; the
components of the frontend that only render decide nothing. Of the modelled components
these parts are left out: isolated event loops, tracing, search and count calls, filters
by owner, the reshaping of payloads, the matching of approvals to tool calls on screen.

The program is written in Python, with a frontend in TypeScript. Most of the JavaScript
in the repository is `src/.agents/skills/archify`, a tool that draws diagrams for coding
agents, copied from `github.com/tt-a1i/archify` (`src/skills-lock.json`). Nothing of
NextRole imports or runs it, and it is not modelled; a count of JavaScript lines
therefore shows little of what the modules cover, which is chiefly the Python of the server
and the stateful hooks of the frontend.

## Plan

What is left is breadth. The next modules, in order: `ValueEvents` (`ValueEvent`, `wait_if_not_done`,
`AsyncQueue` and the shutdown, with the abstract signal `RunQueue` uses), `Assistants`
(versions and the latest pointer), `ThreadCopy` (copy, prune, rollback), the shared cache,
migrations, sandbox renewal, edits of objects with a precondition.
