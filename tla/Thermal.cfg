CONSTANTS
  Temp <- MCTemp
  PollInterval = 30
  Cap = 60
  Builds = {TRUE, FALSE}
  Settings <- MCSettings
  Frequencies <- MCFrequencies
  Intervals <- MCIntervals
  Steps <- MCSteps
SPECIFICATION LiveSpec
INVARIANT TypeOK
PROPERTY RequestJustified
PROPERTY NoRebootWithoutDeepSleep
PROPERTY FasterAfterGrace
PROPERTY WarmEndsInRequest
PROPERTY CoolEndsAtNormal
