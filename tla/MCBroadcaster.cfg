SPECIFICATION Spec
CONSTANTS
  Listener = {1, 2, 3, 4}
  Garbage = 0
INVARIANTS HandlesRegister CallsInOrder UndefinedExplained
PROPERTIES AllCalled
CHECK_DEADLOCK FALSE
