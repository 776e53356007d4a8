CONSTANTS
  a1 = a1
  mon = mon
  lnk = lnk
  ntf = ntf
  ops = ops
  mode = mode
  c1 = c1
  App <- MCApp
  Monitor <- MCMonitor
  Link <- MCLink
  Notifier <- MCNotifier
  Thread <- MCThread
  Mutex = {}
  List <- MCList
  Ops <- MCOps
  Used <- MCList
  Callback <- MCCallback
  Calls <- MCCalls
  CallbackCalls <- MCCallbackCalls
  MaxCalls = 3
  MaxRestarts = 1
SPECIFICATION Spec
CHECK_DEADLOCK FALSE
INVARIANT NoWaitCycle
