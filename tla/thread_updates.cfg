\* Three runs, two state updates of either kind, runs cancelled and deleted at any time.
\* The statements overlap, except settlings with each other and with bulk updates, and
\* creations with settlings and bulk updates.
SPECIFICATION Spec
CONSTANTS
  r1 = r1
  r2 = r2
  r3 = r3
  Runs = {r1, r2, r3}
  Updaters = {u1, u2}
  Overlap = {
    {"create"},
    {"update"},
    {"bulk"},
    {"create", "update"},
    {"joint", "update"},
    {"bulk", "update"}
  }
  Calls = {"update", "bulk", "delete run", "cancel"}
CHECK_DEADLOCK FALSE
SYMMETRY Interchangeable
INVARIANTS
  TypeOK
  ActiveIsBusy
  StatusAgrees
