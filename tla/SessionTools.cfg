CONSTANTS
  u1 = u1
  u2 = u2
  l1 = l1
  l2 = l2
  Users <- TwoUsers
  Loops <- TwoLoops
  N = 3
  Times = {0, 1}
  PauseOnError = TRUE
  MaxPauses = 2
  SeqNums = {1, 2}
  Instants = {1, 3, 4}
  Durations = {1, 2}
  Patience = 1
  MaxEvents = 4
  Base = 2
  OpBytes = 1
  LenBytes = 2
  MaxFrameSize = 5
  Bodies <- ShortBodies
  MaxFrames = 3
  MaxChunk = 4
SPECIFICATION ToolsSpec
INVARIANTS TypeOK PausedMeansStill ReplayInTimeOrder FramesAsSent NothingHeldBack FlowsAgree PercentilesCover LossExplained VerdictsIgnoreRace
PROPERTY StopEndsReplay
CHECK_DEADLOCK FALSE
