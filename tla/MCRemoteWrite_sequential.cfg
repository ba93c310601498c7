CONSTANTS
  Root = StartReader
  Handshake = Handshake
  Send = Send
  Read = Read
  ConnRead = ConnRead
  Handles = {StartReader, Handshake, Send, Read, ConnRead}
  Null = null
  MaxCQEntries = 2
  MaxTime = 0
  NumPages = 2
  Repeat = 3
  Window = 1
SPECIFICATION ReaderFairSpec
INVARIANTS ReaderTypeOK NotifiedMeansWritten ContextAlive OnlyDoubled
PROPERTIES DoubledIsUndefined EndsUnlessDropped
