SPECIFICATION FairSpec
CONSTANTS
  Callers = {c1}
  Replies <- KindReplies
  Rates <- KindRates
  Jitters = {3}
  MaxAttempts = 4
  Budget = 250
  ReceiptAttempts = 2
  ReceiptBudget = 80
  MaxCalls = 1
  Lag = TRUE
INVARIANTS
  DispatchTypeOK
  WaitBounded
PROPERTIES
  CallsEnd
CHECK_DEADLOCK FALSE
