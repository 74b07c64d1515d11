\* Sound and unsound scenarios, and transfers that all succeed.
SPECIFICATION BSpec
CONSTANTS
  Absent = Absent
  MaxModems = 2
  MaxTaps = 3
  MaxTapDelay = 8
  MaxImageOrder = 4
  DefaultRange = 6
  DefaultSpeed = 2
  DefaultDuration = 5
  SecondSamples = 10
  Serials = {"s1", "s2", "s3"}
  Present = {"s1", "s2"}
  Documents <- AllDocuments
  Leftovers <- NothingLeft
  FifoSize = 2
  MaxRetries = 3
  MaxFaults = 0
INVARIANTS FatalErrorsReturnFalse
CHECK_DEADLOCK FALSE
