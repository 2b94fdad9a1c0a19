\* Two rolls of a pack in one block or group.
CONSTANTS
  Contracts = {"packs"}
  DbGroupBlocks = 2
  MaxHeight = 3
  MaxActions = 3
  MaxPerBlock = 2
  MaxForks = 1
SPECIFICATION Spec
INVARIANT RollsAreExact
CHECK_DEADLOCK FALSE
