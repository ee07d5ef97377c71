\* Well-typed parameters (as the command line sends them): the relock
\* timer keeps its promises.
CONSTANTS
  IllTypedArg = IllTypedArg
  AbsentArg = AbsentArg
  IllTyped = IllTypedArg
  Absent = AbsentArg
  Disarmed = Disarmed
  Passphrases <- GoodOrBad
  Timeouts <- TypedTimeouts
  MintArgs <- TypedMintArgs
  MaxUnlocks = 3
  MaxSpends = 1
SPECIFICATION Spec
\* encryptwallet stops the server: a stopped server takes no step.
CHECK_DEADLOCK FALSE
INVARIANTS
  TypeOK
  RelockPending
PROPERTIES
  NoEarlyRelock
  SessionRefined
