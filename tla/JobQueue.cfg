\* Two workers and two requests, whose steps come in any order; the fairness of
\* the broker, the poller and the workers.
SPECIFICATION FairSpec
CONSTANTS
  w1 = w1
  w2 = w2
  r1 = r1
  r2 = r2
  Workers <- MCWorkers
  Requests <- MCTwoRequests
  MaxJobAttempts = 2
  MaxRetries = 1
  TaskTimeLimit = 1
  JobLease = 2
  MaxMessages = 2
INVARIANTS
  OneRunner
PROPERTIES
  SucceededStays
  Settles
CHECK_DEADLOCK FALSE
