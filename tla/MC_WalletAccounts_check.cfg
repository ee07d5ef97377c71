CONSTANTS
  ext = ext
  ext2 = ext2
  bad = bad
  none = none
  None <- none
  Invalid <- bad
  Labels <- MCLabels
  AccountArgs <- MCAccountArgs
  Dests <- MCDests
  SendToArgs <- MCSendToArgs
  ListTxArgs <- MCListTxArgs
  Amounts = {0, 1}
  MinTxOut = 1
  Fee = 1
  MinDepths = {0, 1, 2}
  MaxHeight = 2
  MaxItems = 3
  IntBits = 4

SPECIFICATION Spec

INVARIANTS
  TypeOK
  StarIsSumOfAccounts
  ListAccountsAgrees
  PageCorrect
