SPECIFICATION Spec
CONSTANTS
  NumBuffer <- Equal22
  Delay <- Skewed
  Interval = 4
  TrialWrap = 3
  HoldResources = TRUE
  Jitter = 1
INVARIANTS TypeOK QubitAccounting NoSimulationError TrialsInStep PairsAgree
