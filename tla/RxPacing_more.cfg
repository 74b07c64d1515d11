\* The inductive invariants, with two statuses under way and a keepalive as rare as in the code.
SPECIFICATION Spec
CONSTANTS
  P = 2
  Capacity = 14
  Target = 8
  Low = 1
  High = 1
  Period = 2
  Burst = 1
  Keepalive = 7
  Catchup = 1
  Ring = 2
  Ids = 10
  Unit = 4
  Rates <- MCRates
  EntryFills <- MCEntryFills
  Latency = 1
  MaxPending = 2
  MaxAge = 16
  MaxEntryAge = 2
  MaxFaults = 1
INVARIANTS
  TypeOK
  IInv
  FlowInv
CHECK_DEADLOCK FALSE
