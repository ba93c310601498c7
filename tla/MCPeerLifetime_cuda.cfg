SPECIFICATION LifeSpec
CONSTANTS
  Buffers = 4
  Device <- ReadWrite
  Failing <- CudaCalls
INVARIANTS
  NoFault
