SPECIFICATION FairSpec
CONSTANTS
  clause = clause
  blank = blank
  fix = fix
  manual = manual
  review = review
  assistant = assistant
  person = person
  liability = liability
  payment = payment
  Edits <- MCEdits
  Runs <- MCRuns
  RunOf <- MCRunOf
  Reviews <- MCReviews
  Clauses <- MCClauses
  Span <- MCSpan
  Issues <- MCIssues
  IssueOf <- MCIssueOf
  Serious <- MCSerious
  Unusable <- MCUnusable
  Rewritten <- MCRewritten
  Requests = {one, two}
  MaxWritten = 2
INVARIANTS
  NothingLeftOut
  RedlineIsExact
PROPERTIES
  IssuesFollow
  RedlineSettles
CHECK_DEADLOCK FALSE
