SPECIFICATION FairSpec
CONSTANTS
  Conns = {1, 2}
  Exchanges = {"dhe"}
  ServerCerts = {"A"}
  Trusted = {}
  HasClientCert = TRUE
  AskCert = {FALSE}
  NewIds = {TRUE}
  Tickets = {TRUE}
  Ems = {TRUE}
  SeqMod = 8
  MaxData = 0
  MaxRenegotiations = 0
  MaxForgets = 1
  MaxFaults = 1
INVARIANT Serialised
INVARIANT AuthenticatedData
PROPERTY Negotiates
CHECK_DEADLOCK FALSE
