CONSTANTS
  Listings = {"a"}
  Auctions = {"a"}
  Prices = {p, q}
  Drains = {d1}
  BatchSize = 2
  EndTimes = {2, 3}
  MaxTime = 4
  MaxWrites = 1
  Lag = 1
  Delay = 1
SPECIFICATION Spec
INVARIANTS StaleIsQueued
CHECK_DEADLOCK FALSE
