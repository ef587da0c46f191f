SPECIFICATION Spec
CONSTANTS
  Conns = {1}
  Exchanges = {"pubkey"}
  ServerCerts = {"A", "B"}
  Trusted = {"A"}
  HasClientCert = TRUE
  AskCert = {TRUE}
  NewIds = {TRUE, FALSE}
  Tickets = {TRUE, FALSE}
  Ems = {TRUE, FALSE}
  SeqMod = 8
  MaxData = 1
  MaxRenegotiations = 1
  MaxForgets = 1
  MaxFaults = 1
 
INVARIANT PeerAccepts
 
CHECK_DEADLOCK FALSE
