SPECIFICATION FileSpec
CONSTANTS
  Submissions = {s1, s2}
  Senders = {a1, a2}
  NoRecord = NoRecord
  Damaged = Damaged
  Cuts = {"part", "nothing"}
  Losses = 0
  MaxReceipts = 3
INVARIANTS AcknowledgedReads
CHECK_DEADLOCK FALSE
