SPECIFICATION Spec
CONSTANTS
  Recordings = {k1, k2}
  Submissions = {s1, s2}
  Senders = {a1, a2}
  Nothing = Nothing
  Losses = 1
  MaxRequests = 3
INVARIANTS RecordingsOutlastPower
CHECK_DEADLOCK FALSE
