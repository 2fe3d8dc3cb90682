SPECIFICATION Spec
CONSTANTS
  Submissions = {"wind", "wolf"}
  Damaged = Damaged
  Runs = {"first", "second"}
  Migrators = {"release", "operator"}
  Versions = {1, 2}
  MaxReceipts = 3
  MaxSwitches = 2
INVARIANTS SchemaIsRecorded ReceiptsMove AllOrNothing RerunIsSafe
CHECK_DEADLOCK FALSE
