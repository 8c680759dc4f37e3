SPECIFICATION FairPathSpec
CONSTANTS
  Accounts = {a1, a2}
  Anonymous = anon
  NoSource = nosource
  Calls = {c1, c2, c3}
  DistinctSources = TRUE
  Threshold = 2
  MaxCount = 3
  MaxAttempts = 2
  MaxEpoch = 3
INVARIANTS ProbeExclusive OpenJustified AttributionExact
PROPERTIES RefusalEnds
CHECK_DEADLOCK FALSE
