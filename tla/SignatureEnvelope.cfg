\* One request, two versions, somebody with override rights; the fairness of the
\* provider, which repeats what was not taken.
SPECIFICATION FairSpec
CONSTANTS
  q1 = q1
  Requests <- MCOne
  MaxEdits = 2
  Overrides = TRUE
INVARIANTS
  CompletedIsSigned
  ActiveIsExecuted
PROPERTIES
  KeepsPromise
  SignedIsRecorded
CHECK_DEADLOCK FALSE
