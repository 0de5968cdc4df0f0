SPECIFICATION Spec
CONSTANTS
  NumBuffer <- Unequal13
  Delay <- Far
  Interval = 3
  TrialWrap = 3
  HoldResources = FALSE
  Jitter = 0
INVARIANT NoQubitLeaked
