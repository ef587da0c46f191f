SPECIFICATION FairSpec
CONSTANTS
  MaxRecord = 4
  MaxSegment = 3
  RecordLens = {2}
  ExtensionLens = {6, 900}
  IdentityLens = {79, 400}
  ServerPsks = {"psk", "other"}
  Selections = {"psk", "nopsk", "tls12"}
  MaxUp = 2
  MaxDown = 2
  MaxNoMem = 1
  MaxCloses = 1
INVARIANT TypeOK
INVARIANT NonceFresh
INVARIANT PeerOpens
 
PROPERTY StreamRefined
PROPERTY AllSent
CHECK_DEADLOCK FALSE
