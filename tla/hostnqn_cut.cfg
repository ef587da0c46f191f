SPECIFICATION Spec
CONSTANTS
  Scripts <- MCScripts
  Machines <- MCMachines
  Decimal <- MCDecimal
  Hexadecimal <- MCHexadecimal
  MaxFailures = 0
INVARIANT HostNqnIsUuid
CHECK_DEADLOCK FALSE
