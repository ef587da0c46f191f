SPECIFICATION FairSpec
CONSTANTS
  UseTls = TRUE
  Secret = "absent"
  AuthModes = {"no", "atr"}
  Frags = 1
  Split = {}
  Windows = {1, 2}
  R2t = TRUE
  CidMod = 65536
  MaxWire = 3
  MaxRequests = 2
  MaxNoMem = 0
  MaxWindow = 1
  MaxFaults = 1
INVARIANT FailedSessionCloses
PROPERTY RequestAnswered
CHECK_DEADLOCK FALSE
