CONSTANTS
  Root = StartWriter
  Handshake = Handshake
  Recv = Recv
  Write = Write
  WriteOne = WriteOne
  Slots = {s1}
  Handles = {StartWriter, Handshake, Recv, Write, WriteOne, s1}
  Null = null
  MaxCQEntries = 1
  MaxTime = 0
  NumPages = 3
  Repeat = 2
  MayFail = TRUE
SPECIFICATION SeqFairSpec
INVARIANT AllWritten
PROPERTIES KeepsWindow IsLoopClient Terminates
