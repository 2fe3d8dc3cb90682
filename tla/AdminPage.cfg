SPECIFICATION FairSpec
CONSTANTS
  Questions = {"wind"}
  Kinds = {None}
  Typed = {None, "wind"}
  None = None
  MaxHistory = 1
  MaxPresses = 2
  MaxEvents = 2
INVARIANTS TypeOK HistoryExplainsStates NewestAnswerWins
PROPERTY EveryWaitEnds
CHECK_DEADLOCK FALSE
