SPECIFICATION Spec
CONSTANTS
  Users = {u1, u2}
  Kinds = {"borrowed", "deposit"}
  Counted = {"borrowed", "deposit"}
  Touching = {"borrowed"}
  Limit = 4
  Backfill = 1
  MaxLedger = 4
  MaxBatch = 1
  MaxFaults = 2
PROPERTIES NoSilentGap MetricsLoseOnlyAborts EveryEventIndexed SnapshotsCatchUp
