SPECIFICATION FairSpec
CONSTANTS
  buyer = buyer
  signer = signer
  settler = settler
  shop = shop
  other = other
  r1 = r1
  r2 = r2
  src = src
  k1 = k1
  k2 = k2
  Settlements = {k1, k2}
  Sources = {src}
  Callers = {buyer, settler}
  Payees = {shop, other}
  Buyer = buyer
  Signer = signer
  Lifetime = 1
  MaxBatch = 2
  FirstListing <- OneListing
  Listings <- NewListing
  FirstRoles <- Assigned
  Grants <- SomeGrants
  Items <- MoreItems
  Budget = 3
  Cutoff = 2
  ExpiresAt = 4
  MaxTime = 5
  MaxGift = 2
  MaxRevision = 2
CHECK_DEADLOCK FALSE
INVARIANTS TypeOK BooksBalance PaidOnce SpentIsPaid
PROPERTIES ExitReturnsAll MoneyGoesToListed NothingIsStuck
