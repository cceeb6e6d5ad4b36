SPECIFICATION Spec
CONSTANTS
  InitialSize = 16
  MaxWrite = 20
  MaxPos = 40
INVARIANTS ContentsInBuffer
CHECK_DEADLOCK FALSE
