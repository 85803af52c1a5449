SPECIFICATION Spec
CONSTANTS
  Flows <- MCFlows
  Sessions = {s1}
  MaxDrafts = 2
INVARIANTS
  InOrder
  HeldUp
  FinishedMeansSigned
PROPERTIES
  DecisionIsSeen
CHECK_DEADLOCK FALSE
