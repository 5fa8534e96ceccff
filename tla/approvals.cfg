\* Two interrupts, one of a subagent; two pages; the graph may end on a resume or stop again.
SPECIFICATION Spec
CONSTANTS
  i1 = i1
  i2 = i2
  p1 = p1
  p2 = p2
  Interrupts = {i1, i2}
  Deep = {i1}
  Total <- TwoThenOne
  Pages = {p1, p2}
  First = p1
  MaxRequests = 3
  MaxEvents = 6
  Message = Message
  Faults = {"stop", "refuse", "state"}
CHECK_DEADLOCK FALSE
INVARIANTS
  TypeOK
  AnswersOnce
  OneReview
  OffersReview
PROPERTIES
  ComposerLocks
