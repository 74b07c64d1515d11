\* Three modems, two of them sources; Ctrl+C once everything is up.
SPECIFICATION FairSpec
CONSTANTS
  N = 3
  Sources <- MCSources
  Caller = "main"
  Calm = TRUE
INVARIANTS
  TypeOK
  IInv
  LogsClosedLast
  IoOnlyInHil
  NoneLeftBehind
PROPERTY
  StopEndsRun
CHECK_DEADLOCK FALSE
