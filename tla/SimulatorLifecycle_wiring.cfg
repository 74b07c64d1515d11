\* The order of ChannelEngine::start and the wiring.
SPECIFICATION FairSpec
CONSTANTS
  N = 2
  Sources <- MCSources
  Caller = "main"
  Calm = TRUE
INVARIANT
  WiredBeforeRun
CHECK_DEADLOCK FALSE
