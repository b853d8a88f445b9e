\* Six steps: to prove all three subgoals, to fall out of step and to come back;
\* the code's retries, so that the bound is hit and a refusal is survived.
CONSTANTS
  reach = reach
  search = search
  read = read
  None = None
  Subgoals = {reach, search, read}
  Plans <- ChainAndTwins
  MaxSteps = 6
  MaxRetries = 2
SPECIFICATION Spec
INVARIANTS PlanFollowsEvidence CompletedIsEarned
PROPERTIES RunEnds
CHECK_DEADLOCK FALSE
