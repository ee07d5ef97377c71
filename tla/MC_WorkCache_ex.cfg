\* getworkex after a CreateNewBlock failure.
CONSTANTS
  Tips <- MCTips
  Fns <- MCFnsEx
  MaxBlocks = 2
  MaxTxUpdates = 1
  Null = Null
  t1 = t1
  t2 = t2
SPECIFICATION Spec
INVARIANT
  NoInvalidBlockAccess
