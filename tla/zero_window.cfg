SPECIFICATION Spec
CONSTANTS
  UseTls = FALSE
  Secret = "absent"
  AuthModes = {"no"}
  Frags = 1
  Split = {}
  Windows = {0, 2}
  R2t = TRUE
  CidMod = 65536
  MaxWire = 3
  MaxRequests = 2
  MaxNoMem = 0
  MaxWindow = 1
  MaxFaults = 0
INVARIANT GenuineTransfer
CHECK_DEADLOCK FALSE
