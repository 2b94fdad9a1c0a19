\* On the way to the head: offers in groups of up to three blocks (five blocks, seven for a single asset), a replay of groups, a faulty state-history node.
CONSTANTS
  Users = {alice, bob}
  Assets = {a1, a2}
  Offers = {o1, o2}
  Nobody = Nobody
  MaxBacked = 2
  GroupBlocks = 2
  GroupWindow = 4
  GroupLag = 2
  GroupHeight = 4
  LongHeight = 6
  Key = {k1}
  Val = {v1, v2}
  NoRow = NoRow
  OpKinds = {"insert", "delete"}
  MaxOps = 1
  DbGroupBlocks = 1
  MaxReversibleWindow = 1
  RollbackChunk = 2
  PruneEvery = 2
  UpdateEvery = 2
  IrreversibleOnly = FALSE
  FaultyShip = TRUE
  CrashInRollback = FALSE
  MaxHeight = 4
  MaxLag = 1
  MaxForks = 0
  MaxCrashes = 1
SPECIFICATION CatchupSpec
SYMMETRY Symmetry
INVARIANTS OpenOffersAreJudged RowsFollowLedger RowsMatchIndexed FlushMeetsNoRow
PROPERTIES InvalidationIsNews BoundedRewind
CHECK_DEADLOCK FALSE
