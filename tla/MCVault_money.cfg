SPECIFICATION Spec
CONSTANTS
  alice = alice
  bob = bob
  NoOne = NoOne
  Accounts = {alice, bob}
  Signers = {alice, bob}
  Admins = {alice}
  Successors = {}
  Oracles = {o1}
  SCALE = 5
  VIRT = 2
  I128Max = 30
  Navs = {2, 5}
  Amounts = {1, 4}
  Fees = {0, 1}
  Parcels = {1, 2}
  Rebases = {1}
  Caps = {1, 7}
  Pauses = {TRUE, FALSE}
  Approvals = {0}
  Endowment <- EndowBoth
  MaxSupply = 7
  MaxSeq = 1
INVARIANTS SharesConserved ClaimsCovered ExitPaysQuotedPrice
PROPERTIES SharePriceNeverDiluted RoundTripNeverGains
