SPECIFICATION FairSpec
CONSTANTS
  UseTls = FALSE
  Secret = "good"
  AuthModes = {"no", "atr"}
  Frags = 1
  Split = {}
  Windows = {1, 2}
  R2t = TRUE
  CidMod = 8
  MaxWire = 3
  MaxRequests = 2
  MaxNoMem = 0
  MaxWindow = 1
  MaxFaults = 0
INVARIANT NoStepInFlight
INVARIANT NoSequenceError
INVARIANT NoResend
 
 
PROPERTY RequestAnswered
CHECK_DEADLOCK FALSE
