\* A relock thread of an earlier session starts late.
CONSTANTS
  IllTypedArg = IllTypedArg
  AbsentArg = AbsentArg
  IllTyped = IllTypedArg
  Absent = AbsentArg
  Disarmed = Disarmed
  Passphrases <- GoodOrBad
  Timeouts <- TypedTimeouts
  MintArgs <- TypedMintArgs
  MaxUnlocks = 3
  MaxSpends = 0
SPECIFICATION Spec
\* encryptwallet stops the server: a stopped server takes no step.
CHECK_DEADLOCK FALSE
INVARIANTS
  SessionTimerOwn
