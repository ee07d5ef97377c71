\* Safety of the connection life cycle: two connections, the full request
\* set, two requests per connection, the node thread once.
CONSTANTS
  c1 = c1
  c2 = c2
  getblockcount = getblockcount
  sendtoaddress = sendtoaddress
  stop = stop
  reservebalance = reservebalance
  bogus = bogus
  Node = Node
  None = None
  Conns <- MCConns
  Allowed <- MCAllowedBoth
  Addresses <- MCAddresses
  Patterns <- MCPatterns
  Methods <- MCMethods
  OkSafeMode <- MCOkSafeMode
  Unlocked <- MCUnlocked
  StopMethod = stop
  Requests <- MCRequests
  MaxRequests = 2
  NodeRounds = 1
  UseSSL = FALSE
  DisableSafeMode = FALSE
SPECIFICATION Spec
INVARIANTS
  TypeOK
  ThreadCountAccurate
  ConnDeletedOnce
  KeepAliveHonoured
  ClientAllowedAsSpecified
SYMMETRY ConnSymmetry
CHECK_DEADLOCK FALSE
