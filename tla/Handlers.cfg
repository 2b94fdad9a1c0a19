\* A handler at a time, between a group of two blocks and the head, with a fork.
CONSTANTS
  Contracts = {"auctions", "buyoffers", "swaps", "config", "mirrors", "drops", "packs", "links", "cards", "logs"}
  DbGroupBlocks = 2
  MaxHeight = 4
  MaxActions = 4
  MaxPerBlock = 2
  MaxForks = 1
SPECIFICATION Spec
INVARIANTS TradesFollowContract  
CHECK_DEADLOCK FALSE
