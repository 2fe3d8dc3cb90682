SPECIFICATION Spec
CONSTANTS
  q1 = q1
  q2 = q2
  Questions = {q1, q2}
  Callers = {a1, a2}
  NoRequest = NoRequest
  Position <- MCPosition
  Seeded <- MCSeeded
  MaxSequence = 4
PROPERTIES TurnIsNotStolen
CHECK_DEADLOCK FALSE
