SPECIFICATION FileSpec
CONSTANTS
  q1 = q1
  q2 = q2
  Questions = {q1}
  Callers = {a1, a2}
  NoRequest = NoRequest
  Damaged = Damaged
  Position <- MCPosition
  Seeded <- MCSeeded
  Cuts = {"part", "unended", "nothing"}
  Losses = 0
  MaxLines = 3
PROPERTIES NothingErased
CHECK_DEADLOCK FALSE
