\* Two modems, both sources; Ctrl+C once everything is up.
SPECIFICATION OFairSpec
CONSTANTS
  N = 2
  Sources <- MCSources
  Caller = "main"
  Calm = TRUE
  Durations = {1, 2}
  Deadline = 1
  SizeModulus = 8
  MaxPackets <- First2
  MaxMessages <- First2
  MaxBatches <- Both2
INVARIANTS
  SummaryNamesEvents
CHECK_DEADLOCK FALSE
