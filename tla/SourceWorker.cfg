\* Three sessions of a few two-sample packets over a ring of three samples; the modem
\* never waits for the worker.
CONSTANTS
  RingCapacity = 3
  PacketSize = 2
  MaxBatch = 2
  DrainLength = 1
  TailLength = 1
  BaseDelay = 2
  Gaps <- MCGaps
  Aligned = TRUE
  MaxSessions = 3
  MaxSamples = 6
SPECIFICATION FairSpec
INVARIANTS NothingLost MessageNotCut NoHalfMessage
PROPERTIES AddsNearWatermark AllRendered
\* The worker stops when it is asked to and the modem's sessions are bounded.
CHECK_DEADLOCK FALSE
