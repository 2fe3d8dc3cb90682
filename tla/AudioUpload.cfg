SPECIFICATION Spec
CONSTANTS
  Recordings = {k1, k2}
  Submissions = {s1, s2}
  Senders = {a1, a2, a3}
  Nothing = Nothing
  Losses = 1
  MaxRequests = 4
SYMMETRY MCSymmetry
INVARIANTS RowsHaveRecordings ReceiptMeansRecording OnlyShortWritesTear
CHECK_DEADLOCK FALSE
