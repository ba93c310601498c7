SPECIFICATION LifeSpec
CONSTANTS
  Buffers = 4
  Device <- ReadWrite
  Failing <- SafeCalls
INVARIANTS
  LifeTypeOK
  Backed
  NoFault
  MemoryReturned
  LeftOpen
