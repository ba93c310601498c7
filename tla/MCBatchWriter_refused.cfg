CONSTANTS
  Root = StartWriter
  Handshake = Handshake
  Recv = Recv
  Write = Write
  WriteOne = WriteOne
  Slots = {s1, s2, s3}
  Handles = {StartWriter, Handshake, Recv, Write, WriteOne, s1, s2, s3}
  Null = null
  MaxCQEntries = 2
  MaxTime = 0
  NumPages = 4
  Repeat = 2
  BatchSize = 2
  MayFail = TRUE
SPECIFICATION BatchSpec
INVARIANT NoUseAfterFree
