SPECIFICATION DemoSpec
CONSTANTS
  Mock = mock
  Mocks = {mock}
  Shims = {}
  NoSource = NoSource
  BASE = 10
  SCALE_DECIMALS = 1
  MAX_DECIMALS = 2
  I128Max = 1000000
  U128Max = 200000
  BPS = 100
  DefaultAge = 1
  DefaultDev = 5
  Prices = {}
  Decimals = {}
  Ages = {}
  Devs = {}
  Overrides = {}
  MaxNow = 1
  FeedDecimals = 2
  StartPrice = 1020
  RaisedPrice = 1040
  DropPrice = 600
  DropNav = 60
  Keyed = {"user", "admin", "liquidator", "rando"}
  MaxLosses = 1
PROPERTY DropTakesEffect
