SPECIFICATION Spec
CONSTANTS
  QNode = {1, 2, 3, 4}
  Neighbor <- Chain
  EndNode = {1, 4}
  TrafficPattern = 1
  LoneInitiator = 1
  GuardAsWritten = FALSE
  MaxHops = 3
  NumMemory = 2
  NumResources = 1
INVARIANTS TypeOK ResourcesSound MessagesSound EndsInStep
PROPERTY ContractionSpec PairsDelivered
CHECK_DEADLOCK FALSE
