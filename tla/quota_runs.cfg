\* Four requests of one owner: one run a day, two a week; no more requests, no more
\* time, and the system stops.
SPECIFICATION Spec
CONSTANTS
  q1 = q1
  q2 = q2
  q3 = q3
  q4 = q4
  alice = alice
  Requests = {q1, q2, q3, q4}
  Owners = {alice}
  OwnerOf <- OneOwner
  RunLimits <- DayAndWeek
  SpendLimits <- OneADay
  GlobalLimits <- NoLimits
  MaxConcurrent = 1
  Hour = 2
  RunCost = 1
  MaxTime = 3
CHECK_DEADLOCK FALSE
SYMMETRY Interchangeable
INVARIANTS
  TypeOK
  RunLimitHolds
  OnlyOverlapsExceed
