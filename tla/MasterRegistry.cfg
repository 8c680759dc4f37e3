SPECIFICATION FairRegistrySpec
CONSTANTS
  Writers = {w1, w2}
  Readers = {r1}
  Keeps = {2}
  Budget = 1
  Limits = {2}
  MaxSnapshots = 4
  MaxFaults = 1
  KillUnsynced = TRUE
  None = none
INVARIANTS CurrentReadable HistoryHonest LookupsExplained
PROPERTIES LogSpec BacklogConverges
CHECK_DEADLOCK FALSE
