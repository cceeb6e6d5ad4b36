SPECIFICATION Spec
CONSTANTS
  MaxText = 5
  Texts <- AllTexts
INVARIANTS IntegersExact DecimalsRead
PROPERTIES NumberEnds
CHECK_DEADLOCK FALSE
