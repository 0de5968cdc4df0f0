SPECIFICATION Spec
CONSTANTS
  NumBuffer <- Three
  PurificationType = 2002
  NumPurification = 1
  NumMeasure = 1
  Requester = "right"
  MaxPairs = 4
INVARIANTS NoRuleError SamePairPurified HalvesAgree
CHECK_DEADLOCK FALSE
