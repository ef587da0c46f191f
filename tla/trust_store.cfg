SPECIFICATION Spec
CONSTANTS
  None = None
  Servers = {s1, s2}
  MaxKeys = 2
  MaxFailures = 2
  BootFaults = {"read"}
INVARIANT KeyDurable
INVARIANT ServerDurable
INVARIANT ClearedIsClear
 
PROPERTY RootHasFingerprint
CHECK_DEADLOCK FALSE
