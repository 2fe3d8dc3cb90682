SPECIFICATION FairSpec
CONSTANTS
  Questions = {q1, q2}
  NoQuestion = NoQuestion
  MaxRecordings = 2
  MaxAttempts = 3
PROPERTIES EverySendEnds
INVARIANTS ArrivedIsStored OneAnswerEach OnItsWayHasAnAttempt
CHECK_DEADLOCK FALSE
