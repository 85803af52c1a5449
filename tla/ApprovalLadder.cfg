\* One rung, three people: the submitter, and two deciders of whom one is an
\* approval administrator.  The approval engine moves the contract itself.
SPECIFICATION Spec
CONSTANTS
  ann = ann
  bob = bob
  cal = cal
  one = one
  two = two
  Users <- MCUsers
  Deciders <- MCDeciders
  Admins <- MCCal
  RoleHolders <- MCBob
  Covered <- MCUsers
  Starters <- MCAnn
  Movers <- MCUsers
  Newcomers <- MCDeciders
  FastLaneOn = TRUE
  HoldsSignature = FALSE
  MayOverride = FALSE
  Calls <- MCOneCall
  MaxRungs = 1
  MaxVersion = 1
  MaxTokens = 2
INVARIANTS
  OneVoice
  QuorumHonoured
  NoLostQuorum
  ApproversEntitled
  VerdictsAgree
CHECK_DEADLOCK FALSE
