\* Two samples per packet, a buffer of 14 with target 8; one transfer goes wrong.
SPECIFICATION FairSpec
CONSTANTS
  P = 2
  Capacity = 14
  Target = 8
  Low = 1
  High = 1
  Period = 2
  Burst = 1
  Keepalive = 7
  Catchup = 1
  Ring = 2
  Ids = 4
  Unit = 4
  Rates <- MCRates
  EntryFills <- MCEntryFills
  Latency = 1
  MaxPending = 1
  MaxAge = 16
  MaxEntryAge = 2
  MaxFaults = 1
INVARIANTS
  EstimateExact
  CatchUpBounded
  NeverRefused
  DropsDoNotBias
PROPERTY
  HoldEnds
CHECK_DEADLOCK FALSE
