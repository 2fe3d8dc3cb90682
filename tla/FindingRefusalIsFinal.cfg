SPECIFICATION Spec
CONSTANTS
  Tabs = {t1, t2}
  MaxSubmissions = 2
  MaxAttempts = 2
INVARIANTS RefusalIsFinal
CHECK_DEADLOCK FALSE
