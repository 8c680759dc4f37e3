SPECIFICATION ChargeSpec
CONSTANTS
  Accounts = {a1, a2}
  Anonymous = anon
  NoSource = nosource
  Calls = {c1, c2}
  DistinctSources = TRUE
  Threshold = 2
  MaxCount = 2
  MaxAttempts = 1
  MaxEpoch = 2
  SessionLock = FALSE
  Global = FALSE
SYMMETRY Symmetry
INVARIANTS AttributedStreaksWithdrawn
CHECK_DEADLOCK FALSE
