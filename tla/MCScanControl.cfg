SPECIFICATION FairSpec
CONSTANTS
  Clients = {c1, c2, c3}
  Scheduler = Scheduler
  NoOne = NoOne
  MaxRoots = 2
INVARIANTS
  TypeOK
  LockedWaitIsShort
  NothingOutlivesServer
PROPERTIES
  PostsAnswered
  StopReturns
CHECK_DEADLOCK FALSE
