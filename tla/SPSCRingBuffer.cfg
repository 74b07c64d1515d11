\* Four slots; the counters wrap at 8, twice within the run.
CONSTANTS
  Capacity = 4
  Modulus = 8
  MaxCount = 3
  MaxItems = 18
SPECIFICATION Spec
INVARIANT NoSlotRace
PROPERTY ImplementsFifo
