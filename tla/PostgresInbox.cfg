SPECIFICATION FairSpec
CONSTANTS
  Submissions = {s1, s2}
  Senders = {a1, a2, a3}
  NoRecord = NoRecord
  MaxReceipts = 4
INVARIANTS OneReceiptEach
PROPERTIES Implements
CHECK_DEADLOCK FALSE
