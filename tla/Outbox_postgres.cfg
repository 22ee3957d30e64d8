SPECIFICATION Spec
CONSTANTS
  w1 = w1
  w2 = w2
  cron = cron
  api = api
  Owners = {cron, api}
  Producer = api
  OwnerOf <- SharedOwner
  Workers <- TwoWorkers
  Keys = {1}
  Synchronous = FALSE
  MaxStall = 1
  MaxClock = 7
  MaxToken = 3
  LeaseDur = 3
  Limit = 1
  MaxAttempts = 3
  BackoffBase = 1
  BackoffMax = 3
SYMMETRY Symm
CHECK_DEADLOCK FALSE
INVARIANTS OneHolder
 
