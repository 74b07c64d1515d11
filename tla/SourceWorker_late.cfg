\* The watermark itself as the bound: broken by packets the worker feeds before its poll
\* has seen their TX edge.
CONSTANTS
  RingCapacity = 3
  PacketSize = 2
  MaxBatch = 2
  DrainLength = 1
  TailLength = 1
  BaseDelay = 2
  Gaps <- MCGaps
  Aligned = TRUE
  MaxSessions = 3
  MaxSamples = 6
SPECIFICATION Spec
PROPERTIES AddsAboveWatermark
\* The worker stops when it is asked to and the modem's sessions are bounded.
CHECK_DEADLOCK FALSE
