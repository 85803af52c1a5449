\* Clocks that agree.
SPECIFICATION FairSpec
CONSTANTS
  a = a
  b = b
  c = c
  contract = contract
  Requests <- MCRequests
  OnLoop <- MCOnLoop
  Rows <- MCRows
  Ids <- MCIds
  Skew = 0
  MaxSteps = 2
PROPERTIES
  KeepsPromise
  Ends
CHECK_DEADLOCK FALSE
