\* A crash between the last chunk commit of a rollback and the commit of the block that replaces the orphans.
CONSTANTS
  Key = {k1}
  Val = {v1}
  NoRow = NoRow
  OpKinds = {"upsert"}
  MaxOps = 1
  DbGroupBlocks = 1
  MaxReversibleWindow = 2
  RollbackChunk = 1
  PruneEvery = 2
  UpdateEvery = 1
  IrreversibleOnly = FALSE
  FaultyShip = FALSE
  CrashInRollback = TRUE
  MaxHeight = 2
  MaxLag = 2
  MaxForks = 1
  MaxCrashes = 1
SPECIFICATION Spec
INVARIANTS ChunksAddNoWindow
CHECK_DEADLOCK FALSE
