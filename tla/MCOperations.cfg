SPECIFICATION OperationsSpec
CONSTANTS
  Underlyings = {leod, tbill}
  Wasms = {v1, v2}
  Keys = {deployer, multisig}
  Multisig = multisig
  NoKey = NoKey
  NoVault = NoVault

  Prices = {100, 103}
  StepLimit = 1
  Navs = {7, 10}
  SCALE = 10
  Holdings = {9}
  Cap = 10
  UtilPct = 80
  MaxFaults = 2
  MaxLosses = 1
INVARIANT VaultsStayGoverned
PROPERTIES StandingReported StepReported
CHECK_DEADLOCK FALSE
