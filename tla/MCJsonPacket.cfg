SPECIFICATION Spec
CONSTANTS
  Logs <- MCLogs
  Editable <- MCEditable
  Strays <- MCStrays
  OtherNames = {0, 1, 3, 5, 17}
INVARIANTS ReadsBack SealedRight ReaderAtEnd StaleNames PackDepth
PROPERTIES OptionsEnd
CHECK_DEADLOCK FALSE
