SPECIFICATION FairSpec
CONSTANTS
  main = main
  other = other
  legal = legal
  finance = finance
  ann = ann
  Definitions <- MCDefinitions
  Steps <- MCSteps
  DefinitionOf <- MCDefinitionOf
  Roles <- MCRoles
  People <- MCPeople
  Places <- MCPlaces
  FirstSteps <- MCFirstSteps
  Setups <- MCSetups
  MaxInstances = 2
  MaxEdits = 2
  Reordering = FALSE
INVARIANTS
  OutcomeAgrees
  NoStepSkipped
PROPERTIES
  DecisionsStand
  ChainEnds
CHECK_DEADLOCK FALSE
