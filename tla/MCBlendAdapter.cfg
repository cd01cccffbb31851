SPECIFICATION BlendSpec
CONSTANTS
  alice = alice
  Mocks = {mock}
  Shims = {}
  NoSource = NoSource
  BASE = 10
  SCALE_DECIMALS = 1
  MAX_DECIMALS = 1
  I128Max = 1000000
  U128Max = 200000
  BPS = 10
  DefaultAge = 1
  DefaultDev = 2
  Prices = {4, 5}
  Decimals = {0}
  Ages = {}
  Devs = {}
  Overrides = {5}
  MaxNow = 2

  Adapter = adapter
  NoOne = NoOne
  Accounts = {alice}
  Signers = {alice}
  Admins = {alice}
  Successors = {}
  SCALE = 10
  VIRT = 2
  Navs = {40, 50}
  Amounts = {2}
  Fees = {0}
  Parcels = {1}
  Rebases = {1}
  Caps = {3}
  Pauses = {FALSE}
  Approvals = {0}
  Endowment <- EndowAlice
  MaxSupply = 3
  MaxSeq = 2


  Assets = {ld, usdc}
  Pins = {0, 10}
  NoSrc = NoSrc
  VaultSrc = VaultSrc
INVARIANT StampHidesBoundedAge
PROPERTIES PoolReadsAgree VaultSpec
