\* An auction whose end moves and a sale, two drains that overlap, batches of one row, aborts on both sides; one or two blocks decoded ahead of a setabi, with a fork or a restart; messages of two notifications; the market and the queries of sales as in the module.
CONSTANTS
  Listings = {"a", "s"}
  Auctions = {"a"}
  Prices = {p, q}
  Drains = {d1, d2}
  BatchSize = 1
  EndTimes = {2, 3}
  MaxTime = 4
  MaxWrites = 2
  Lag = 1
  Delay = 0
  AbiBodies <- OneSetAbi
  AbiBlocks = 3
  AbiForks = 1
  AbiRestarts = 1
  AbiDepth = 2
  Origins = {TRUE, FALSE}
  RpcFails = TRUE
  NoteChannels = {"sales"}
  NoteHeight = 2
  NoteBlocks = 3
  NoteFaults = 1
  Chunk = 2
  Attempts = 2
  NoteBodies = {1, 2}
  FilterSales = {1, 2}
  FilterAssets = {1}
  FilterAssetsOf <- OneAssetEach
  FilterCommands = {"command"}
  FilterPartitions = 2
  FilterBatch = 1
  FilterWrites = 3
  FilterRefreshes = 1
  MarketSales = {"s1"}
  MarketTokens = {"t1"}
  MarketGroup = 2
  MarketSeeds = TRUE
  MarketHeight = 3
  MarketActions = 4
  MarketLag = 1
  MarketFaults = 1
  ShownBidders = {"bob"}
  ShownEnd = 1
  Ttl = 2
  Patience = 1
  ShownReads = 2
  ShownHalves = 4
SPECIFICATION DecodedSpec
INVARIANTS StaleIsQueued FutureIsQueued DecodedByAbiInForce DurableAbiIsInForce ListenersFollowTheChain   BundlesAreDissolved MarkerIsFlip QueriesFollowTables
PROPERTIES CacheNeverAges
CHECK_DEADLOCK FALSE
