SPECIFICATION Spec
CONSTANTS
  Users = {u1}
  Kinds = {"supplied", "borrowed", "deposit"}
  Counted = {"borrowed", "deposit"}
  Touching = {"supplied", "borrowed"}
  Limit = 1
  Backfill = 4
  MaxLedger = 4
  MaxBatch = 2
  MaxFaults = 0
PROPERTY NoSilentGap
