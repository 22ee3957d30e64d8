SPECIFICATION Spec
CONSTANTS
  w1 = w1
  w2 = w2
  Workers <- OneWorker
  MaxAttempts = 2
  AgentOwnsStatus = TRUE
  PaysEscrow = FALSE
  Recoverable <- ClosingOnly
  MaxClaims <- TwoClaims
SYMMETRY Symm
CHECK_DEADLOCK FALSE
INVARIANTS ClosingHasClose
