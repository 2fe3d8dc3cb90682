SPECIFICATION FileSpec
CONSTANTS
  Submissions = {s1}
  Senders = {a1, a2}
  NoRecord = NoRecord
  Damaged = Damaged
  Cuts = {"nothing"}
  Losses = 0
  MaxReceipts = 3
INVARIANTS AcknowledgedIsDurable
CHECK_DEADLOCK FALSE
