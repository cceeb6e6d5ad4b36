SPECIFICATION LogSpec
CONSTANTS
  Byte = {1, 2, 3, 4, 5, 6, 7, 8}
  BufferSize = 6
  ReadBufferSize = 4
  MaxWrite = 3
  MaxLen = 8
  MaxCount = 3
INVARIANTS NothingLost WholeWritesIntact LogReadsBack
PROPERTIES PeekIsNext WriteReturns
CHECK_DEADLOCK FALSE
