SPECIFICATION Spec
CONSTANTS
  Questions = {q1, q2}
  NoQuestion = NoQuestion
  MaxRecordings = 1
  MaxAttempts = 1
INVARIANTS StoredForTheQuestionSpokenTo
CHECK_DEADLOCK FALSE
