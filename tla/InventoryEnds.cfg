SPECIFICATION FairSpec
CONSTANTS
  t1 = t1
  t2 = t2
  r1 = r1
  r2 = r2
  NoTxn = NoTxn
  Skus = {1, 2}
  Refs <- TwoRefs
  Txns <- TwoSessions
  Kinds <- SortedKinds
  MaxUnits = 1
  MaxTotal = 1
  MaxLate = 0
PROPERTIES EveryTransactionEnds
