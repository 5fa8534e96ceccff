\* Two runs publish an event, one of them a chunk, and their done markers; a client replays
\* and follows, and everything that can fail does, once.
SPECIFICATION FairSpec
CONSTANTS
  p1 = p1
  p2 = p2
  f1 = f1
  Publishers = {p1, p2}
  Length = 2
  Chunks <- FirstOfFirst
  Clients = {c1}
  Followers = {f1}
  RunOf <- TheFirst
  Starts = {"all", "last"}
  MaxStreams = 2
  Faults = {"log", "expire", "publish", "reply", "trim", "crash"}
  MaxFaults = 1
CHECK_DEADLOCK FALSE
INVARIANTS
  TypeOK
  CaughtUpHasAll
  OnceEach
  InOrder
  SkipsOvertaken
  DoneComesLast
PROPERTIES
  FollowerEnds
