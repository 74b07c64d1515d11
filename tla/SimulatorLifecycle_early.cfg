\* Ctrl+C at any time, also while the run is starting.
SPECIFICATION FairSpec
CONSTANTS
  N = 2
  Sources <- MCSources
  Caller = "main"
  Calm = FALSE
PROPERTY
  StopEndsRun
CHECK_DEADLOCK FALSE
