SPECIFICATION LiveSpec
CONSTANTS
  NumBuffer <- Two
  PurificationType = 3003
  NumPurification = 1
  NumMeasure = 2
  Requester = "right"
  MaxPairs = 4
INVARIANTS SamePairMeasured OutcomesComplete
PROPERTIES FinishTogether
CHECK_DEADLOCK FALSE
