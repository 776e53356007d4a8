CONSTANTS
  t1 = t1
  t2 = t2
  c1 = c1
  c2 = c2
  none = none
  Txn <- MCTxn
  NoTxn <- MCNoTxn
  Client <- MCClient
  Offset <- MCOffset
  Delay <- MCDelay
  MaxTime = 2
SPECIFICATION FairSpec
INVARIANT TypeOK
INVARIANT TriggersExclusive
INVARIANT HandlerRunsSerially
INVARIANT CompletionJustified
INVARIANT NoUseAfterFree
PROPERTY EveryScheduleResolves
