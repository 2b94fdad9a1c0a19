CONSTANTS
  Sales = {s1}
  Tokens = {t1}
  DbGroupBlocks = 2
  SeedAtHead = FALSE
  MaxHeight = 3
  MaxActions = 4
  MaxLag = 2
  MaxFaults = 1
SPECIFICATION Spec
INVARIANT TokensFollowChain
CHECK_DEADLOCK FALSE
