\* The chain commands over every chain of up to five blocks.  Blocks stop
\* at MaxHeight but the commands stay enabled: no deadlock.
CONSTANTS
  MaxHeight = 4
  Times = {1, 100}
  BitsVals <- MCBitsVals
  W = 8
  PoSInterval = 3
  HeightArgs <- MCHeightArgs
  LookupArgs <- MCLookupArgs
SPECIFICATION Spec
INVARIANTS
  TypeOK
  StakesTimeTelescopes
