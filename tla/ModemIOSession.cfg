\* Two TX sessions; transfers fail or are misreported, a disconnect at any time.
\* ModemIOSessionProofs proves IInv and DataInv, which hold of this instance as well.
SPECIFICATION FairSpec
CONSTANTS
  Modulus = 4
  PollInterval = 2
  DrainCap = 2
  FifoDepth = 2
  StatusDepth = 1
  Behind = 2
  MaxEntries = 6
  MaxPackets = 4
  MaxSends = 4
INVARIANTS
  TailKept
  SessionsPure
  NoFalseGaps
  InSync
PROPERTY
  AllForwarded
CHECK_DEADLOCK FALSE
