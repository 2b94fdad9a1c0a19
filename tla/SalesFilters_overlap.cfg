\* Two invocations of the command beside each other and the filler's drain.
CONSTANTS
  Sales = {1}
  Assets = {1}
  AssetsOf <- OneAsset
  Commands = {c1, c2}
  Partitions = 1
  BatchSize = 1
  MaxWrites = 2
  MaxRefreshes = 0
SPECIFICATION Spec
INVARIANT StaleFiltersAreQueued
CHECK_DEADLOCK FALSE
