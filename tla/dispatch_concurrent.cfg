SPECIFICATION Spec
CONSTANTS
  Callers = {c1, c2}
  Replies <- FewReplies
  Rates <- FewRates
  Jitters = {0}
  MaxAttempts = 3
  Budget = 900
  ReceiptAttempts = 2
  ReceiptBudget = 60
  MaxCalls = 2
  Lag = FALSE
SYMMETRY CallerSymmetry
INVARIANTS
  OneUsableRun
CHECK_DEADLOCK FALSE
