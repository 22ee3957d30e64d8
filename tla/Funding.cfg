SPECIFICATION Spec
CONSTANTS
  alice = alice
  bob = bob
  r1 = r1
  r2 = r2
  k1 = k1
  k2 = k2
  t1 = t1
  t2 = t2
  None = None
  Accounts = {alice, bob}
  Researches = {r1, r2}
  Keys = {k1, k2}
  Tabs = {t1, t2}
  MaxTx = 2
  MaxLoads = 2
  MaxSwitches = 1
SYMMETRY Interchangeable
CHECK_DEADLOCK FALSE
INVARIANTS TypeOK OneResearchPerLoad StartsAreFunded
PROPERTIES FundingIsKept
