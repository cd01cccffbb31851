SPECIFICATION WebSpec
CONSTANTS
  Borrowers = {ann, ben}
  Junk = junk
  Debts = {0, 4}
  Repays = {0, 2}
  Nothing = Nothing
  MaxTasks = 2

  Wallets = {w1, w2}
  NoWallet = NoWallet
  Absent = Absent
  Kinds = {"hf", "vaultTotals", "nav", "poolCollateral"}
  Visited = {"borrow", "vault", "issuer", "stats", "liquidate"}
  Ops = {"supply", "wrap", "pause", "unpause", "liquidate"}
  MaxHeight = 2
  MaxCalls = 1

  People = {ann}
  Spellings = {lower, upper}
  Texts = {builder, investor}
  Left = Left
  NoRow = NoRow
  Fields = {"role"}
  MaxPosts = 2
INVARIANTS ShownTogether ReceiptsShown SignupKept
PROPERTY FiguresCatchUp
