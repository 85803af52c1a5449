\* A text and its successor, one retry, jobs that are tried twice; the fairness
\* of the visits and of time.
SPECIFICATION FairSpec
CONSTANTS
  MaxVersions = 2
  MaxRetries = 1
  MaxAttempts = 2
INVARIANTS
  BandOfItsText
PROPERTIES
  RequestNotDropped
  StepGoesOn
CHECK_DEADLOCK FALSE
