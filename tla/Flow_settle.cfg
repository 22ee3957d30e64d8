SPECIFICATION Spec
CONSTANTS
  w1 = w1
  w2 = w2
  Workers <- OneWorker
  MaxAttempts = 2
  AgentOwnsStatus = FALSE
  PaysEscrow = TRUE
  Recoverable <- NoRecovery
  MaxClaims <- SettleClaims
SYMMETRY Symm
CHECK_DEADLOCK FALSE
INVARIANTS SettledIsPaid ClosingHasClose
