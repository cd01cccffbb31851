SPECIFICATION FairSpec
CONSTANTS
  Prices = {100}
  StepLimit = 1
  Navs = {10}
  SCALE = 10
  Holdings = {9}
  Cap = 10
  UtilPct = 80
  MaxFaults = 0
  MaxLosses = 0
PROPERTY PauseReported
CHECK_DEADLOCK FALSE
