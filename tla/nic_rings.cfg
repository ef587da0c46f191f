SPECIFICATION FairSpec
CONSTANTS
  RTL_NUM_DESC = 2
  CounterMod = 4
  RTL_RXBUF_LEN = 24
  Lengths = {5, 8}
  Packets = {"p1", "p2", "p3"}
  Chips = {"8139", "8125"}
  Workloads = {{"tx", "link"}, {"rx"}}
  MaxLegacy = 1
INVARIANT RingsSound
INVARIANT CompletesSent
INVARIANT NoLostCompletion
INVARIANT LegacyInSync
INVARIANT NothingLeaked
PROPERTY Transmits
PROPERTY RxRecovers
CHECK_DEADLOCK FALSE
