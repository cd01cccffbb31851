SPECIFICATION HistSpec
CONSTANTS
  Admin = Admin
  Mocks = {mock}
  Shims = {shim}
  NoSource = NoSource
  BASE = 10
  SCALE_DECIMALS = 1
  MAX_DECIMALS = 2
  I128Max = 10000
  U128Max = 1000000
  BPS = 10000
  DefaultAge = 1
  DefaultDev = 200
  Prices <- SomePrices
  Decimals = {0, 1, 2, 3}
  Ages = {2}
  Devs = {0}
  Overrides = {0, 102}
  MaxNow = 2
INVARIANTS ComparedWithinRegime OverrideRearms
PROPERTIES ReadKeepsAnswer HaltEndsOnlyBySourceOrAdmin
