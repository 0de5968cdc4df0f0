SPECIFICATION LiveSpec
CONSTANTS
  NumBuffer <- Unequal23
  Delay <- Far
  Interval = 3
  TrialWrap = 3
  HoldResources = FALSE
  Jitter = 0
PROPERTY BurstsContinue
