SPECIFICATION PoolSpec
CONSTANTS
  alice = alice
  liq = liq
  Stake = 5
  Purse = 2

  Pool = pool
  NoOne = NoOne
  Accounts = {alice, liq, pool}
  Signers = {alice, liq}
  Admins = {liq}
  Successors = {}
  Oracles = {o1}
  SCALE = 10
  VIRT = 1
  I128Max = 100000
  Navs = {6, 10}
  Amounts = {5}
  Fees = {0}
  Parcels = {3}
  Rebases = {}
  Caps = {5}
  Pauses = {FALSE}
  Approvals = {0}
  Endowment <- EndowAlice
  MaxSupply = 5
  MaxSeq = 0
  BPS = 10000
  LTV = 8000
  LIQ = 8500
  BONUS = 500
  CloseFactorDiv = 2
  CashFees = {0, 1}
  Liquidators = {liq}
  Loans = {1, 3}
  CashEndowment <- CashLiquidator
  PoolSeed = 3
INVARIANTS PoolBacked CashConserved ExitNeedsNoOracle LiquidationAvailable ShownIsEnforced
PROPERTIES CallsAsShown OnlyNavHurtsHealth LiquidationSettlesFairly
