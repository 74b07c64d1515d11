\* Two sources; a packet of three samples is mixed in a chunk of two and one of one.
\* ReceiverMixProofs proves IInv and its parts, which hold of this instance as well.
CONSTANTS
  Pairs = 2
  SamplesPerPkt = 3
  Chunk = 2
  RingCapacity = 8
  MaxCommit = 2
  MaxMark = 3
  MaxPulls = 3
SPECIFICATION FairSpec
INVARIANTS InOrder SamplesAccounted
PROPERTIES AllMixed
\* The number of pulls is bounded.
CHECK_DEADLOCK FALSE
