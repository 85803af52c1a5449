SPECIFICATION Spec
CONSTANTS
  Flows <- MCGatesAlone
  Sessions = {s1, s2}
  MaxDrafts = 2
INVARIANTS
  AnsweredBeforeAsked
PROPERTIES
  ReworkTakesContractBack
  SignedForGood
CHECK_DEADLOCK FALSE
