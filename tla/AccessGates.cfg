SPECIFICATION GatesSpec
CONSTANTS
  Codes = {"fox", "owl"}
  Blank = "blank"
  Secrets = {"s1", "s2"}
  Configurations <- MCConfigurations
  Addresses = {"kitchen", "attic"}
  Routes = {"inbox", "audio", "admin"}
  Limit <- MCLimit
  Window = 2
  MaxTracked = 1
  Ttl = 2
  MaxCalls = 3
  MaxRestarts = 1
INVARIANT GatesTypeOK
PROPERTIES Implements SessionsAreCurrent
CHECK_DEADLOCK FALSE
