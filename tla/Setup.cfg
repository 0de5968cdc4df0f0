SPECIFICATION SetupSpec
CONSTANTS
  QNode = {1, 2, 3, 4, 5}
  Neighbor <- Fork
  EndNode = {1, 4, 5}
  TrafficPattern = 2
  LoneInitiator = 1
  GuardAsWritten = FALSE
  MaxHops = 17
INVARIANTS RuleSetsReserved NoSharedQnic RuleSetsFit RefusedForRival PathsDivide
PROPERTY RequestAnswered
CHECK_DEADLOCK FALSE
