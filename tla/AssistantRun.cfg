\* Two questions in one chat and one confirmation, which both runs may wait for;
\* two workers.
SPECIFICATION ChatSpec
CONSTANTS
  w1 = w1
  w2 = w2
  Workers <- MCWorkers
  MaxRuns = 2
  MaxConfs = 1
SYMMETRY MCSymmetry
CONSTRAINT MCBound
INVARIANTS
  ActionOnce
  AnsweredOnce
  DecisionsHonoured
PROPERTIES
  EndedStays
CHECK_DEADLOCK FALSE
