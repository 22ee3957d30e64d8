SPECIFICATION Spec
CONSTANTS
  w1 = w1
  w2 = w2
  cron = cron
  api = api
  Owners = {cron, api}
  Producer = api
  OwnerOf <- SharedOwner
  Workers <- TwoWorkers
  Keys = {1, 2}
  Synchronous = TRUE
  MaxStall = 0
  MaxClock = 5
  MaxToken = 5
  LeaseDur = 2
  Limit = 1
  MaxAttempts = 3
  BackoffBase = 1
  BackoffMax = 3
CONSTRAINT SecondKeyOnce
SYMMETRY Symm
CHECK_DEADLOCK FALSE
INVARIANTS TypeOK ParkedIsExhausted
PROPERTIES KeepsPromise
