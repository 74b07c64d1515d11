\* A modem is disconnected and nobody calls stop().
SPECIFICATION FairSpec
CONSTANTS
  N = 2
  Sources <- MCSources
  Caller = "main"
  Calm = TRUE
PROPERTY
  FatalErrorEndsRun
CHECK_DEADLOCK FALSE
