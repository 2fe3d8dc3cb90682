SPECIFICATION Spec
CONSTANTS
  Questions = {"wind"}
  Kinds = {None}
  Typed = {None, "wind"}
  None = None
  MaxHistory = 1
  MaxPresses = 2
  MaxEvents = 3
INVARIANT ListAnswersTheFilter
CHECK_DEADLOCK FALSE
