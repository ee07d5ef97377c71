\* Liveness: every waiting client is answered.  c2 is a peer that
\* ClientAllowed() refuses, so the 403 path is taken.
CONSTANTS
  c1 = c1
  c2 = c2
  getblockcount = getblockcount
  sendtoaddress = sendtoaddress
  stop = stop
  reservebalance = reservebalance
  bogus = bogus
  Node = Node
  None = None
  Conns <- MCConns
  Allowed <- MCAllowedOne
  Addresses <- MCAddresses
  Patterns <- MCPatterns
  Methods <- MCMethods
  OkSafeMode <- MCOkSafeMode
  Unlocked <- MCUnlocked
  StopMethod = stop
  Requests <- MCLiveRequests
  MaxRequests = 2
  NodeRounds = 1
  UseSSL = FALSE
  DisableSafeMode = FALSE
SPECIFICATION Spec
PROPERTIES
  RequestsAnswered
CHECK_DEADLOCK FALSE
