\* signrawtransaction with variants of equal size, the relock thread
\* running.  Every call ends in a result or an error: no deadlock check.
CONSTANTS
  k1 = k1
  k2 = k2
  None = None
  Absent = Absent
  Undecodable = Undecodable
  InvalidKey = InvalidKey
  Keys <- MCKeys
  WalletKeys = {k1}
  Scripts <- MCScripts
  MaxIn = 2
  VariantArgs <- MCVariantArgs
  ChainArgs <- MCChainArgs
  GivenArgs <- MCGivenArgs
  KeyArgs <- MCKeyArgs
  HashArgs = {"ALL", "SINGLE", "bad"}
  OutCounts = {1, 2}
  MaxSends = 2
SPECIFICATION Spec
CHECK_DEADLOCK FALSE
INVARIANTS
  SignaturesPreserved
  CompleteIffVerified
