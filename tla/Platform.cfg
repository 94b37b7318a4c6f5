CONSTANTS
  t1 = t1
  t2 = t2
  u1 = u1
  u2 = u2
  x1 = x1
  x2 = x2
  w1 = w1
  w2 = w2
  None = None
  Nobody = Nobody
  Tests <- TwoTests
  Users <- TwoUsers
  Execs <- TwoExecs
  Kind <- Types
  Override <- Clients
  Default = 2
  PlatformFaults = {"db", "spawn"}
  MaxCrashes = 1
  Watchers <- TwoWatchers
  ChanLen = 1
  MaxLogs = 3
SPECIFICATION MCSpec
INVARIANTS CompletedIsEarned OverrideOrIntruder FeedInOrder HubLetsGoFirst
PROPERTIES DeletedRowFrozen RunningEnds CompletedGetsReport LeftViewerDropped
CHECK_DEADLOCK FALSE
