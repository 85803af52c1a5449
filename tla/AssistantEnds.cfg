\* One question with one confirmation and two workers, under the fairness of the
\* beat; whatever is stopped, lost or delivered again.
SPECIFICATION FairChatSpec
CONSTANTS
  w1 = w1
  w2 = w2
  Workers <- MCWorkers
  MaxRuns = 1
  MaxConfs = 1
PROPERTIES
  RunEnds
  WaitEnds
CHECK_DEADLOCK FALSE
