\* One message; the source's clock is the faster one, by one sample in sixteen.
SPECIFICATION RenderSpec
CONSTANTS
  Absent = Absent
  MaxModems = 3
  MaxTaps = 3
  MaxTapDelay = 20
  MaxImageOrder = 4
  DefaultRange = 4
  DefaultSpeed = 2
  DefaultDuration = 5
  SecondSamples = 8
  RenderedChannels <- MCFastSource
  Dt = 2
  Block = 2
  MaxBatch = 3
  MessageLimit = 1
  MaxLength = 20
INVARIANTS
  ReadsInWindow
CHECK_DEADLOCK FALSE
