SPECIFICATION Spec
CONSTANTS
  Scripts <- MCScripts
  Machines <- MCMachines
  Decimal <- MCDecimal
  Hexadecimal <- MCHexadecimal
  MaxFailures = 2
INVARIANT SameSession
INVARIANT StaysEncrypted
INVARIANT AllConnected
CHECK_DEADLOCK FALSE
