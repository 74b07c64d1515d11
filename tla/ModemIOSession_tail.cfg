\* Packets lost to transfers that complete and report TIMEOUT.
SPECIFICATION FairSpec
CONSTANTS
  Modulus = 4
  PollInterval = 2
  DrainCap = 2
  FifoDepth = 2
  StatusDepth = 1
  Behind = 2
  MaxEntries = 6
  MaxPackets = 4
  MaxSends = 4
INVARIANT
  TailPreserved
CHECK_DEADLOCK FALSE
