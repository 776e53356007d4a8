CONSTANTS
  a1 = a1
  a2 = a2
  user = user
  none = none
  Activation <- MCActivation
  User <- MCUser
  NoJob <- MCNoJob
  Retries = 2
SPECIFICATION FairSpec
CHECK_DEADLOCK FALSE
INVARIANT TypeOK
INVARIANT NoStuckInProgress
INVARIANT NobodyRevokesItself
PROPERTY EveryActivationEnds
PROPERTY WakeupsAreHandled
