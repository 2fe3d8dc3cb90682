SPECIFICATION Spec
CONSTANTS
  Recordings = {k1, k2}
  Submissions = {s1, s2}
  Senders = {a1, a2}
  Nothing = Nothing
  Losses = 0
  MaxRequests = 3
INVARIANTS NeverAPartialFile
CHECK_DEADLOCK FALSE
