SPECIFICATION FairRotationSpec
CONSTANTS
  N = 2
  Capacity = 2
  Limit = 1
  MaxRefusals = 2
  MaxCrashes = 1
  Favored = 1
  Passed = 2
  MaxTurns = 4
INVARIANTS ExecutedOnce CompletionConfirmed LedgerOpens BoundedOvertaking
PROPERTIES Dispatched
CHECK_DEADLOCK FALSE
