CONSTANTS
  Root = StartReader
  Handshake = Handshake
  Send = Send
  Read = Read
  ConnRead = ConnRead
  Handles = {StartReader, Handshake, Send, Read, ConnRead}
  Null = null
  MaxCQEntries = 2
  MaxTime = 0
  NumPages = 1
  Repeat = 1
  Window = 1
SPECIFICATION ReaderFairSpec
PROPERTY ReaderEnds
