----------------------------- MODULE Execution -----------------------------
(***************************************************************************)
(* What app/signatures promises of each request it sends out, whatever the *)
(* provider, the network and the rest of the application do meanwhile: it  *)
(* is sent once and executed at most once, from being out or declined, and *)
(* the copy filed for an executed request is filed once and never          *)
(* replaced.  Only a withdrawal makes a request void, and only one that    *)
(* was out when the withdrawal was called; such a request may be executed  *)
(* before the withdrawal takes effect, which then is too late.             *)
(***************************************************************************)
EXTENDS Naturals

CONSTANT Requests

VARIABLES
  outcome,   \* what the application says of each request
  copy,      \* the signed version filed for it, 0 before
  called     \* the requests that a withdrawal under way called back

vars == <<outcome, copy, called>>

Outcomes == {"unsent", "out", "declined", "executed", "void"}
Live == {"out", "declined"}

Init ==
  /\ outcome = [q \in Requests |-> "unsent"]
  /\ copy = [q \in Requests |-> 0]
  /\ called = {}

Become(q, from, to) ==
  /\ outcome[q] \in from
  /\ outcome' = [outcome EXCEPT ![q] = to]
  /\ UNCHANGED called

Send(q) == Become(q, {"unsent"}, "out") /\ UNCHANGED copy
Decline(q) == Become(q, Live, "declined") /\ UNCHANGED copy

\* A declined request may be taken up again by hand.
Reopen(q) == Become(q, {"declined"}, "out") /\ UNCHANGED copy

\* A copy nobody filed before becomes the request's.
Execute(q) ==
  /\ Become(q, Live, "executed")
  /\ copy'[q] \in Nat \ {copy[p] : p \in Requests}
  /\ copy' = [copy EXCEPT ![q] = copy'[q]]

\* Sending the workflow back calls back every request that is out ...
Call ==
  /\ called = {}
  /\ called' = {q \in Requests : outcome[q] = "out"}
  /\ UNCHANGED <<outcome, copy>>

\* ... and makes them void, whatever became of them since ...
Withdraw ==
  /\ outcome' = [q \in Requests |-> IF q \in called THEN "void" ELSE outcome[q]]
  /\ called' = {}
  /\ UNCHANGED copy

\* ... or comes to nothing.
Forget == called' = {} /\ UNCHANGED <<outcome, copy>>

Next ==
  \/ \E q \in Requests :
       Send(q) \/ Decline(q) \/ Reopen(q) \/ Execute(q)
  \/ Call \/ Withdraw \/ Forget

Spec == Init /\ [][Next]_vars
=============================================================================
