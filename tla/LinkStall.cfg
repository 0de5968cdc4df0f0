SPECIFICATION ConsumingSpec
CONSTANTS
  NumBuffer <- Equal22
  Delay <- Uneven
  Interval = 3
  TrialWrap = 3
  HoldResources = TRUE
  Jitter = 0
PROPERTY BurstsContinue
