\* The other properties on the instance of SPSCRingBuffer.
CONSTANTS
  Capacity = 4
  Modulus = 8
  MaxCount = 3
  MaxItems = 18
SPECIFICATION FairSpec
INVARIANTS TypeOK IInv SlotHandedOver
PROPERTY AllRead
