\* An indexer that was version 2 from the first block on.
CONSTANTS
  Data = {"x"}
  Installed = {2}
  MaxHeight = 4
  MaxStarts = 3
  MaxRepairs = 1
SPECIFICATION Spec
INVARIANT FreshSyncIsUnaffected
CHECK_DEADLOCK FALSE
