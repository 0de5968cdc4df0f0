SPECIFICATION SetupSpec
CONSTANTS
  QNode = {1, 2, 3, 4, 5}
  Neighbor <- Fork
  EndNode = {1, 4, 5}
  TrafficPattern = 1
  LoneInitiator = 1
  GuardAsWritten = TRUE
  MaxHops = 3
INVARIANT RefusedForRival
CHECK_DEADLOCK FALSE
