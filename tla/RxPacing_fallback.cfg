\* A modem that starts to receive with 4 samples queued; no transfer goes wrong.
SPECIFICATION Spec
CONSTANTS
  P = 2
  Capacity = 14
  Target = 8
  Low = 1
  High = 1
  Period = 2
  Burst = 1
  Keepalive = 7
  Catchup = 1
  Ring = 2
  Ids = 3
  Unit = 4
  Rates <- MCRates
  EntryFills = {4}
  Latency = 1
  MaxPending = 2
  MaxAge = 16
  MaxEntryAge = 2
  MaxFaults = 0
PROPERTIES
  FallbackNotInferred
CHECK_DEADLOCK FALSE
