CONSTANTS
  t1 = t1
  t2 = t2
  t3 = t3
  c1 = c1
  c2 = c2
  none = none
  ON = ON
  LIGHT_SLEEP = LIGHT_SLEEP
  DEEP_SLEEP = DEEP_SLEEP
  Txn <- MCTwoTxn
  NoTxn <- MCNoTxn
  Client <- MCOneClient
  Offset <- MCOffset
  Delay <- MCNoDelay
  MaxTime = 1
  PowerState <- MCPowerState
  DeepSleep = DEEP_SLEEP
  LightSleep = LIGHT_SLEEP
  Timeout = 1
SPECIFICATION LivenessSpec
PROPERTY EveryRequestReturns
PROPERTY EveryModeChangeEnds
