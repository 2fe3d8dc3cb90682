SPECIFICATION FairSpec
CONSTANTS
  q1 = q1
  q2 = q2
  Questions = {q1, q2}
  Callers = {a1, a2}
  NoRequest = NoRequest
  Position <- MCPosition
  Seeded <- MCSeeded
  MaxSequence = 3
INVARIANTS HistoryIsAChain SequenceOrdersHistory StaleIsHonest
PROPERTIES Implements EveryCallAnswered
CHECK_DEADLOCK FALSE
