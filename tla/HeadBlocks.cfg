\* At the head: every block reversible for a while, a fork, a crash, rollbacks of one entry per chunk; mint numbers; the float repair.
CONSTANTS
  Key = {k1}
  Val = {v1, v2}
  NoRow = NoRow
  OpKinds = {"replace", "delete"}
  MaxOps = 1
  DbGroupBlocks = 1
  MaxReversibleWindow = 2
  RollbackChunk = 1
  PruneEvery = 2
  UpdateEvery = 1
  IrreversibleOnly = FALSE
  FaultyShip = FALSE
  CrashInRollback = FALSE
  MaxHeight = 3
  MaxLag = 2
  MaxForks = 1
  MaxCrashes = 1
  Templates = {1, 2}
  Callers = {1, 2}
  Limit = 2
  MaxBlocks = 2
  MaxAssets = 3
  MaxSales = 1
  MaxStops = 1
  Pairs = {1, 2}
  Assets = {1, 2}
  Stored <- Mixed
  Forked = {1}
  BatchSize = 2
  SliceBatches = 2
  MaxWrites = 1
  MaxStarts = 1
  MaxFailures = 1
SPECIFICATION HeadSpec
INVARIANTS FloatsAreRepaired RowsMatchPosition UndoLogIsExact OrphansAreServed CaughtUpIsExact RangesAreFinal
PROPERTIES CatchesUp MintsAreNumbering
CHECK_DEADLOCK FALSE
