\* Any number of two-packet messages; sends, pulls and statuses at any pace.
\* ArrivalAlignmentProofs proves IInv, which holds of this instance as well.
SPECIFICATION Spec
CONSTANTS
  Propagation = 5
  Packet = 2
  Fill = 4
  Length = 4
  MaxAge = 6
INVARIANTS
  NeverEarly LatenessExplained
CHECK_DEADLOCK FALSE
