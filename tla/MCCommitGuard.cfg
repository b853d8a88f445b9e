\* Three steps, so that a class can be dispatched, blocked and dispatched again,
\* and again after each of two confirmations. Two records are kept of up to nine, so that
\* the slice drops some. The run may end: there is no step after "done".
CONSTANTS
  Classes <- TwoClasses
  MaxSteps = 3
  MaxRetries = 2
  KeepRecords = 2
  MaxConfirmations = 2
SPECIFICATION FairSpec
INVARIANT RepeatNeedsEvidence
PROPERTIES ImplementsEvidenceGate RunEndsOrWaits
CHECK_DEADLOCK FALSE
