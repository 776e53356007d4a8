CONSTANTS
  a1 = a1
  poll = poll
  slp = slp
  wrk = wrk
  o1 = o1
  Client <- MCClient
  Poll = poll
  Sleep = slp
  Timer = wrk
  Worker = wrk
  Thread <- MCThread
  Mutex <- MCMutex
  List <- MCList
  Observer <- MCObserver
  Reading <- MCReading
  Calls <- MCCalls
  CallbackCalls <- MCCallbackCalls
  JobCalls <- MCJobCalls
SPECIFICATION Spec
INVARIANT TypeOK
INVARIANT CalledIsRegistered
INVARIANT ThermalStateAsTold
INVARIANT NoOtherLockCycle
CHECK_DEADLOCK FALSE
