SPECIFICATION Spec
CONSTANTS
  Logs <- MCLogs
  Editable <- MCEditable
  Strays <- MCStrays
  OtherNames = {0, 1, 3, 5, 17}
INVARIANTS ChecksumsSet
CHECK_DEADLOCK FALSE
