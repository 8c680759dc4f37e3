SPECIFICATION FairRoutingSpec
CONSTANTS
  Calls = {c1, c2}
  N = 2
  Local = 2
  Threshold = 2
  MaxCount = 2
  MaxInflight = 2
INVARIANTS AuthenticatedOnce OneProbe
PROPERTIES TargetsReturn CallsEnd
CHECK_DEADLOCK FALSE
