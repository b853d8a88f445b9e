\* The code's bounds on what teaches nothing, so that an oscillation can be a
\* failed effect, and six steps to drain the stall budget; one retry, so that
\* the planner is not the only one to end a run.  Of the fingerprints only
\* whether there are more than MaxRepeats is used.
CONSTANTS
  g1 = g1
  t1 = t1
  raw = raw
  up = up
  down = down
  None = None
  Subgoals = {g1}
  Targets = {t1, raw}
  Raw = {raw}
  PlanSize <- Plans
  MaxSubgoals = 10
  Scrolls = {up, down}
  MaxSteps = 6
  MaxRetries = 1
  MaxTotalActions = 24
  MaxReplans = 4
  MaxQuiet = 3
  MaxRepeats = 2
  MaxStall = 5
  Window = 3
  MaxRuns = 1
SYMMETRY Directions
SPECIFICATION Spec
INVARIANTS FruitlessBounded BudgetsEndRun EngineAbortsOnlyRaw
CHECK_DEADLOCK FALSE
