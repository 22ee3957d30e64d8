SPECIFICATION Spec
CONSTANTS
  w1 = w1
  w2 = w2
  Workers <- TwoWorkers
  MaxAttempts = 2
  AgentOwnsStatus = TRUE
  PaysEscrow = FALSE
  Recoverable <- ClosingOnly
  MaxClaims <- ShippedClaims
SYMMETRY Symm
CHECK_DEADLOCK FALSE
INVARIANTS TypeOK LegalTuples QuotaSettledOnce OnMeansFunded
PROPERTIES OutcomeIsFinal
