\* Messages of up to twenty samples, blocks of two, batches of three.
SPECIFICATION RenderSpec
CONSTANTS
  Absent = Absent
  MaxModems = 3
  MaxTaps = 3
  MaxTapDelay = 20
  MaxImageOrder = 4
  DefaultRange = 4
  DefaultSpeed = 2
  DefaultDuration = 5
  SecondSamples = 8
  RenderedChannels <- MCChannels
  Dt = 2
  Block = 2
  MaxBatch = 3
  MessageLimit = 3
  MaxLength = 20
INVARIANTS
  ReadsIntact LastSampleHeard
PROPERTIES
  Seamless RecordContinues
CHECK_DEADLOCK FALSE
