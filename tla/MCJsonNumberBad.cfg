SPECIFICATION Spec
CONSTANTS
  MaxText = 5
  Texts <- AllTexts
INVARIANTS BadNumbersRefused
CHECK_DEADLOCK FALSE
