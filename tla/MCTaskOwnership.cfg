\* Three bodies: one opens a conversation, one ends in it, one continues it, and a
\* body is replaced, stopped or answered over at any of its awaits.  Two steps, so
\* that one could be sent after a late one.  The run that settles confirms actions.
CONSTANTS
  MaxBodies = 3
  MaxRuns = 3
  MaxSteps = 2
  MaxConfirms = 0
  MaxReloads = 0
  Tasks <- OneTask
SPECIFICATION Spec
INVARIANTS ShownIsOwner ActiveLoopIsLatest
PROPERTIES OwnTaskIsTold ImplementsLease
CHECK_DEADLOCK FALSE
