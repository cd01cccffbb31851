SPECIFICATION CallsSpec
CONSTANTS
  alice = alice
  bob = bob
  NoOne = NoOne
  Accounts = {alice, bob}
  Signers = {alice, bob}
  Admins = {bob}
  Successors = {bob}
  Oracles = {o1}
  SCALE = 10
  VIRT = 2
  I128Max = 100000
  Navs = {10}
  Amounts = {2}
  Fees = {0}
  Parcels = {0, 1, 2}
  Rebases = {}
  Caps = {3}
  Pauses = {TRUE, FALSE}
  Approvals = {0, 2}
  Endowment <- EndowAlice
  MaxSupply = 2
  MaxSeq = 1
INVARIANT TypeOK
PROPERTY SharesLeaveByConsent
