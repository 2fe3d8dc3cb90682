SPECIFICATION FileFairSpec
CONSTANTS
  q1 = q1
  q2 = q2
  Questions = {q1, q2}
  Callers = {a1, a2}
  NoRequest = NoRequest
  Damaged = Damaged
  Position <- MCPosition
  Seeded <- MCSeeded
  Cuts = {"part", "unended", "nothing"}
  Losses = 1
  MaxLines = 2
INVARIANTS LogIsAChain NothingLostSilently
PROPERTIES FileImplements TurnIsKept
CHECK_DEADLOCK FALSE
