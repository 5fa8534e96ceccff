\* Redis and calls fail, processes crash and drain, keys expire: two runs (one of them
\* temporary) on two threads, two processes of one slot each; runs and threads are
\* deleted under their workers.
SPECIFICATION Spec
CONSTANTS
  r1 = r1
  r2 = r2
  t1 = t1
  t2 = t2
  w1 = w1
  w2 = w2
  s1 = s1
  s2 = s2
  NoRun = NoRun
  Runs = {r1, r2}
  Threads = {t1, t2}
  ThreadOf <- OwnThread
  Temporary = {r1}
  Strategies = {"enqueue", "reject"}
  Procs = {w1, w2}
  Slots = {s1, s2}
  ProcOf <- OneEach
  MaxRetries = 1
  Cancellers = {}
  MaxWakeups = 0
  Calls = {"delete run", "delete thread"}
  Faults = {"redis", "rpc", "crash", "drain", "control expiry", "attempt expiry"}
INVARIANTS
  TypeOK
  OneExecutor
  ExecutorOwnsRow
  DoneAfterCommit
PROPERTIES
  ImplementsLifecycle
