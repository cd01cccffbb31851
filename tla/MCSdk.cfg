SPECIFICATION SdkSpec
CONSTANTS
  Clients = {c1, c2}
  Window = 1
  MaxTries = 2
  RetryOn = {"contractError"}

  SCALE = 10
  Floor = 16
  LtvPct = 80
  ThresholdPct = 85
  BonusPct = 5
  Revenue = 12
  IdleMax = 5
  IdleKeep = 1
  WorkingMin = 3
  MaxDraw = 5
  MaxPosition = 18
  MaxTicks = 8
  Prices = {4, 6, 10}
  MaxMoves = 3
  IdleBefore = 0
  CollsBefore = {0, 3, 8}
  DebtBefore = 1
CHECK_DEADLOCK FALSE
INVARIANTS DoneAtMostOnce PositionCapKept DrawRepaid
PROPERTIES TimedOutIsFinal SendEnds
