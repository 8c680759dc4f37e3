SPECIFICATION FairFlightSpec
CONSTANTS
  Callers = {c1, c2, c3}
  Keys = {k1, k2}
  None = none
  TimedOut = timedout
INVARIANTS EntriesAreLeaders SharedExecution
PROPERTIES CallersFinish
CHECK_DEADLOCK FALSE
