CONSTANTS
  t1 = t1
  t2 = t2
  p1 = p1
  Threads <- TwoThreads
  Latencies = {1, 2}
  Directions = {"receive"}
  MaxCalls = 4
  Pairs <- OnePair
  MaxMsgs = 2
  Kind <- OneOfEach
SPECIFICATION RecordingSpec
INVARIANTS TypeOK NumberedOnce FinalTotalClose FramesCovered LatencyExtremes RecordingFollows OneMessageLate
PROPERTIES LatencyCallsEnd HangUpReleasesPair
CHECK_DEADLOCK FALSE
