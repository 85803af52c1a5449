------------------------------ MODULE AuditTrail ------------------------------
(***************************************************************************)
(* What the audit log promises: rows are only ever appended, behind all    *)
(* the rows there are, and whoever reads it in order finds that each row   *)
(* names the one before it.                                                *)
(***************************************************************************)
EXTENDS Naturals

CONSTANTS
  Ids,   \* numbers: what identifies a row, its hash included
  Times  \* numbers: what a clock may say

None == 0

\* prev_hash stands for the row whose hash it is.
Entry == [id : Ids, at : Times, prev : Ids \cup {None}]

\* ORDER BY created_at, id
Before(r, s) == r.at < s.at \/ (r.at = s.at /\ r.id < s.id)

\* prev is what somebody who reads S in order sees last.
IsTail(prev, S) ==
  IF S = {} THEN prev = None
  ELSE \E t \in S : prev = t.id /\ \A s \in S : s = t \/ Before(s, t)

\* verify_audit_hash_chain
Linked(S) == \A r \in S : IsTail(r.prev, {s \in S : Before(s, r)})

VARIABLE trail

Init == trail = {}

Append ==
  /\ trail' \in SUBSET Entry
  /\ trail \subseteq trail'
  /\ \A r \in trail' \ trail, s \in trail : Before(s, r)
  /\ Linked(trail')

Next == Append

Spec == Init /\ [][Next]_trail
=============================================================================
