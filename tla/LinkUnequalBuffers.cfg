SPECIFICATION Spec
CONSTANTS
  NumBuffer <- Unequal13
  Delay <- Internal
  Interval = 3
  TrialWrap = 3
  HoldResources = TRUE
  Jitter = 0
INVARIANTS QubitAccounting NoSimulationError PairsAgree PhotonsMeet
PROPERTY LifecycleSpec
