\* A reader process, a part at a time: a transaction that may roll back a fork in two chunks, with failures and an exit hook; the jobs; the worker under its primary; a contract that changes to version 2; the schema from one image to the next.
CONSTANTS
  Modes = {TRUE, FALSE}
  ExitHook = TRUE
  Failures = TRUE
  MaxItems = 4
  MaxChunks = 2
  LaneOf <- FourJobs
  Pooled = {3, 4}
  Interval = 2
  BatchRows = 1
  Budget = 1
  MaxArrivals = 2
  MaxFailures = 1
  MaxBlock = 4
  Prefetches = {1, 2, 4}
  Confirmations = {1, 3}
  Slots = 2
  GroupBlocks = 2
  StallLimits = {0, 1}
  MaxFaults = 3
  Data = {"x"}
  Installed = {1, 2}
  MaxHeight = 4
  MaxStarts = 3
  MaxRepairs = 1
  Handlers = {"assets", "market", "drops"}
  Newest = 3
  Deferred = {1, 3}
  MaxBoots = 4
SPECIFICATION ProcessSpec
INVARIANTS ReleasedOnce RegistryIsClean RowsAllOrNothing TracesAreKeptAtHead ReaderReclaimsPriority NothingIsSkipped MarkerMeansComplete  VersionMeansMigrated
PROPERTIES LockIsReleased QueuesAreDrained EveryBlockIsProcessed
CHECK_DEADLOCK FALSE
