----------------------------- MODULE MCRedlines -----------------------------
(***************************************************************************)
(* A small instance of Redlines: a review finds two issues, the assistant  *)
(* is asked to fix one of them, across both clauses, and a person changes  *)
(* the other clause by hand.                                               *)
(***************************************************************************)
EXTENDS Redlines

CONSTANTS
  clause, blank, fix, manual,   \* changes
  review, assistant, person,    \* runs
  liability, payment            \* issues

MCEdits == {clause, blank, fix, manual}
MCRuns == {review, assistant, person}
MCRunOf == [e \in MCEdits |-> CASE e \in {clause, blank} -> review
                                [] e = fix -> assistant
                                [] e = manual -> person]
MCReviews == {review}
MCClauses == 1..2
MCSpan == [e \in MCEdits |-> CASE e = clause -> {1}
                               [] e \in {blank, manual} -> {2}
                               [] e = fix -> {1, 2}]
MCIssues == {liability, payment}
MCIssueOf == [e \in MCEdits |-> CASE e \in {clause, fix} -> liability
                                  [] e = blank -> payment
                                  [] e = manual -> NoIssue]
MCSerious == {payment}
MCUnusable == {blank}
MCRewritten == {{1}}
=============================================================================
