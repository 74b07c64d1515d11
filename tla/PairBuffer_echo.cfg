\* A ring of 4 slots used for up to 9 positions: every slot is reused twice.
\* PairBufferProofs proves IInv and more, which hold of this instance as well.
CONSTANTS
  Capacity = 4
  BaseDelay = 1
  TapDelta <- MCEchoTaps
  MaxTapDelta = 2
  Gaps <- MCGaps
  MaxBatch = 2
  MaxPull = 2
  MaxMessages = 2
  MaxPos = 8
SPECIFICATION FairSpec
INVARIANT NoSlotRace
PROPERTIES ImplementsStream EverythingHeard
