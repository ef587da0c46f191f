SPECIFICATION Spec
CONSTANTS
  UseTls = FALSE
  Secret = "good"
  AuthModes = {"atr"}
  Frags = 1
  Split = {"admin"}
  Windows = {2}
  R2t = FALSE
  CidMod = 8
  MaxWire = 1
  MaxRequests = 0
  MaxNoMem = 0
  MaxWindow = 0
  MaxFaults = 0
INVARIANT NoRestartAfterSuccess
INVARIANT NoSequenceError
CHECK_DEADLOCK FALSE
