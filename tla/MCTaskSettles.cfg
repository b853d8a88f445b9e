\* Two bodies, the second from a page loaded again, and one confirmation, so that
\* a parked run is resumed while the other arrives.  Fairness makes larger graphs slow.
CONSTANTS
  MaxBodies = 2
  MaxRuns = 1
  MaxSteps = 1
  MaxConfirms = 1
  MaxReloads = 1
  Tasks <- OneTask
SPECIFICATION FairSpec
PROPERTY EveryRunSettles
CHECK_DEADLOCK FALSE
