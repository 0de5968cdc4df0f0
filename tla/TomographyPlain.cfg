SPECIFICATION LiveSpec
CONSTANTS
  NumBuffer <- Three
  PurificationType = 3003
  NumPurification = 0
  NumMeasure = 2
  Requester = "right"
  MaxPairs = 3
INVARIANTS TypeOK SamePairMeasured
PROPERTIES FinishTogether
CHECK_DEADLOCK FALSE
