CONSTANTS
  a1 = a1
  a2 = a2
  h = h
  Client <- MCClient
  Starter = h
  Thread <- MCThread
  Mutex = {}
  Booted <- MCBooted
  Configs <- MCConfigs
  Requested <- MCRequested
  Timeouts <- MCTimeouts
  Clocks <- MCClocks
  Builds = {TRUE}
  MaxCalls = 2
  MaxStarts = 3
  MaxFaults = 1
  Word = 1048576
SPECIFICATION Spec
SYMMETRY MCSymmetry
CHECK_DEADLOCK FALSE
INVARIANT TypeOK
INVARIANT SavedWhenSettled
INVARIANT StateBeforeRebootKept
INVARIANT SettingsMatchPlatform
INVARIANT StandbyMatchesSources
INVARIANT AwakeSinceLastWakeup
INVARIANT WakesForMaintenance
