SPECIFICATION FileFairSpec
CONSTANTS
  Submissions = {s1, s2}
  Senders = {a1, a2}
  NoRecord = NoRecord
  Damaged = Damaged
  Cuts = {"part", "unended", "nothing"}
  Losses = 1
  MaxReceipts = 4
INVARIANTS OneRecordEach
PROPERTIES FileImplements EveryRequestAnswered
CHECK_DEADLOCK FALSE
