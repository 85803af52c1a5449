\* Two rungs and two versions, two people; an active workflow keeps signing to
\* itself.
SPECIFICATION Spec
CONSTANTS
  ann = ann
  bob = bob
  cal = cal
  one = one
  two = two
  Users <- MCPair
  Deciders <- MCPair
  Admins <- MCNobody
  RoleHolders <- MCNobody
  Covered <- MCPair
  Starters <- MCAnn
  Movers <- MCNobody
  Newcomers <- MCNobody
  FastLaneOn = FALSE
  HoldsSignature = TRUE
  MayOverride = TRUE
  Calls <- MCTwoCalls
  MaxRungs = 2
  MaxVersion = 2
  MaxTokens = 1
SYMMETRY MCCallSymmetry
CONSTRAINT MCAsksBob
INVARIANTS
  ReviewAskedOnce
PROPERTIES
  SigningFollowsApproval
CHECK_DEADLOCK FALSE
