\* All three caches, getworkex included.  A NULL dereference ends the
\* process, which then takes no step: deadlock is not checked.
CONSTANTS
  Tips <- MCTips
  Fns <- MCFnsAll
  MaxBlocks = 3
  MaxTxUpdates = 2
  Null = Null
  t1 = t1
  t2 = t2
SPECIFICATION Spec
SYMMETRY TipSymmetry
CHECK_DEADLOCK FALSE
INVARIANTS
  TypeOK
  MapHoldsLiveBlocks
  BlocksOwned
  ClearingCachesSafe
