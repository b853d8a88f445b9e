CONSTANTS
  MaxRuns = 2
  MaxReports = 2
  MaxCalls = 2
  MaxTries = 2
  MaxClicks = 1
SPECIFICATION FairSpec
PROPERTIES StopHolds ConfirmedIsOwnRun CardSettles
CHECK_DEADLOCK FALSE
