CONSTANTS
  dep = dep
  fgov = fgov
  rgov = rgov
  src = src
  fund = fund
  int = int
  stl = stl
  buy = buy
  pay = pay
  Accounts <- Everybody
  Deployer = dep
  Expected <- Named
  Buyer = buy
  Payout = pay
  Offers <- SomeOffers
  Vouchers <- SomeVouchers
  Operable <- MovedAround
  LogSpan = 1
  BlockSize = 6
  MaxOps = 2
  MaxScripts = 3
  MaxActs = 4
SPECIFICATION Spec
CHECK_DEADLOCK FALSE
INVARIANTS ScriptKeepsAnAdministrator FundedAfterHandOver PassedIsTrueAtTheBlock VerifiedRolesStayApart
