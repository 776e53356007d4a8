CONSTANTS
  t1 = t1
  t2 = t2
  c1 = c1
  c2 = c2
  none = none
  Txn <- MCOneTxn
  NoTxn <- MCNoTxn
  Client <- MCClient
  Offset <- MCOffset
  Delay <- MCDelay
  MaxTime = 3
SPECIFICATION Spec
INVARIANT HandlerAtMostOnce
