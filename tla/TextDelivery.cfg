SPECIFICATION FairSpec
CONSTANTS
  Tabs = {t1, t2}
  MaxSubmissions = 2
  MaxAttempts = 2
PROPERTIES AcknowledgedStays EveryPressEnds
INVARIANTS WordsAreTrue BusyHasACall
CHECK_DEADLOCK FALSE
