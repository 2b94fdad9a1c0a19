CONSTANTS
  Bodies <- ForkedSetAbi
  MaxBlocks = 2
  MaxForks = 1
  MaxRestarts = 0
  Depth = 1
  OrphanAbis = TRUE
  LateAbis = FALSE
  Origins = {TRUE}
  RpcFails = FALSE
SPECIFICATION Spec
INVARIANTS DecodedByAbiInForce
CHECK_DEADLOCK FALSE
