SPECIFICATION Spec
CONSTANTS
  c1 = c1
  c2 = c2
  c3 = c3
  k1 = k1
  k2 = k2
  alice = alice
  bob = bob
  memes = memes
  gas = gas
  Calls = {c1, c2, c3}
  Keys = {k1, k2}
  Wallets = {alice, bob}
  Topics = {memes, gas}
  AsksOf <- MixedAsks
  WalletLimit = 2
  GlobalLimit = 2
  Mortal = {c2}
  LastDay = 2
CHECK_DEADLOCK FALSE
INVARIANTS TypeOK CountsAreTrue DailyLimit OneResearchPerKey NoLockCycle
