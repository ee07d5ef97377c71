\* A raw JSON-RPC client sends a timeout or mintonly of the wrong type.
CONSTANTS
  IllTypedArg = IllTypedArg
  AbsentArg = AbsentArg
  IllTyped = IllTypedArg
  Absent = AbsentArg
  Disarmed = Disarmed
  Passphrases <- GoodOrBad
  Timeouts <- AnyTimeouts
  MintArgs <- AnyMintArgs
  MaxUnlocks = 2
  MaxSpends = 1
SPECIFICATION Spec
\* encryptwallet stops the server: a stopped server takes no step.
CHECK_DEADLOCK FALSE
PROPERTIES
  ErrorLeavesWalletLocked
