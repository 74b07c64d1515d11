\* The estimate of the TX start against the start itself.
SPECIFICATION Spec
CONSTANTS
  Propagation = 5
  Packet = 2
  Fill = 4
  Length = 4
  MaxAge = 6
INVARIANT
  EstimateFromBelow
CHECK_DEADLOCK FALSE
