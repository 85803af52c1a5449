--------------------------- MODULE ApprovalChain ---------------------------
(***************************************************************************)
(* Condition-driven approval chains of one contract                        *)
(* (app/approval_chains).  A chain runs through the steps of a definition. *)
(* On arrival at a step its rules are evaluated, and every role they ask   *)
(* for becomes a requirement that a holder of the role approves or         *)
(* rejects.  Administrators edit the definition under the running chain,   *)
(* and recalculate the requirements of its current step.                   *)
(*                                                                         *)
(* A decision locks the chain's row, checks everything, and acts on what   *)
(* it finds by then; edits, moves of the contract and other chains do not  *)
(* take that lock, and may come in between.  What a rule says of the       *)
(* contract's facts is abstract: rules and facts together ask for a role   *)
(* at a place, or do not.                                                  *)
(***************************************************************************)
EXTENDS Naturals, FiniteSets

CONSTANTS
  Definitions,
  Steps,         \* numbers
  DefinitionOf,  \* the definition each step belongs to
  Roles,
  People,
  Places,        \* bound: the places a rule may give a role in its step
  FirstSteps,    \* bound: the steps there may be at first
  Setups,        \* bound: what their rules may ask for at first
  MaxInstances,  \* bound: chains started
  MaxEdits,      \* bound: edits, moves and recalculations
  Reordering     \* whether steps are also reordered under a running chain

Absent == 0

ASSUME ChainAssumption ==
  /\ Steps \subseteq Nat \ {Absent}
  /\ DefinitionOf \in [Steps -> Definitions]
  /\ Places \subseteq Nat \ {Absent}
  /\ FirstSteps \subseteq SUBSET Steps
  /\ Setups \subseteq [Steps \X Roles -> Places \cup {Absent}]
  /\ MaxInstances \in Nat /\ MaxEdits \in Nat
  /\ Reordering \in BOOLEAN

Instances == 1..MaxInstances
Nobody == "nobody"

VARIABLES
  stage,       \* Contract.lifecycle_stage
  active,      \* definitions that chains may be started with: one at most
  order,       \* sequence_order of each step, once it has been created
  dropped,     \* deleted steps
  sequential,  \* steps of that approval_mode
  asks,        \* the place at which the rules of a step ask for a role now
  holders,     \* who holds each role
  chain,       \* ApprovalChainInstance rows
  req,         \* live ApprovalChainRequirement rows; a unique index keeps them apart
  old,         \* superseded ones
  deciding,    \* what the request that has locked a chain is about to write
  edits

definition == <<active, order, dropped, sequential, asks, holders>>
vars == <<stage, definition, chain, req, old, deciding, edits>>

-----------------------------------------------------------------------------
Stages == {"review", "approval", "signature", "active", "closed"}
Decided == {"approved", "rejected"}

Key == Instances \X Steps \X Roles
NoReq == [status |-> "none", place |-> Absent, by |-> Nobody]
Req == [status : {"none", "pending", "cancelled"} \cup Decided,
        place : Places \cup {Absent}, by : People \cup {Nobody}]
Old == [key : Key, status : Decided, by : People \cup {Nobody}]

\* steps: those in place when the chain was started (history).
Chain == [status : {"none", "pending"} \cup Decided, step : Steps \cup {Absent},
          of : Definitions \cup {Nobody}, steps : SUBSET Steps]
Decision == [role : Roles, by : People, verdict : Decided]
NoDecision == [role |-> Nobody, by |-> Nobody, verdict |-> Nobody]

Of(i) == {key \in Key : key[1] = i}
InPlace(d) ==
  {s \in Steps : DefinitionOf[s] = d /\ order[s] # Absent /\ s \notin dropped}
Row(i, s) == {r \in Roles : req[<<i, s, r>>].status # "none"}
Answered(i, s) ==
  Row(i, s) # {} /\ \A r \in Row(i, s) : req[<<i, s, r>>].status = "approved"
Pending(i, s) == {r \in Roles : req[<<i, s, r>>].status = "pending"}

\* _group_rule_sources
Wanted(s) == {r \in Roles : asks[<<s, r>>] # Absent}

TypeOK ==
  /\ stage \in Stages
  /\ active \in SUBSET Definitions
  /\ order \in [Steps -> Nat]
  /\ dropped \in SUBSET Steps
  /\ sequential \in SUBSET Steps
  /\ asks \in [Steps \X Roles -> Places \cup {Absent}]
  /\ holders \in [Roles -> SUBSET People]
  /\ chain \in [Instances -> Chain]
  /\ req \in [Key -> Req]
  /\ old \in SUBSET Old
  /\ deciding \in [Instances -> Decision \cup {NoDecision}]
  /\ edits \in Nat

Init ==
  /\ stage = "review"
  /\ \E d \in Definitions : active = {d}
  /\ \E S \in FirstSteps : order = [s \in Steps |-> IF s \in S THEN s ELSE Absent]
  /\ dropped = {}
  /\ sequential = Steps
  /\ asks \in Setups
  /\ holders = [r \in Roles |-> People]
  /\ chain = [i \in Instances |->
                [status |-> "none", step |-> Absent, of |-> Nobody, steps |-> {}]]
  /\ req = [key \in Key |-> NoReq]
  /\ old = {}
  /\ deciding = [i \in Instances |-> NoDecision]
  /\ edits = 0

-----------------------------------------------------------------------------
\* _materialize_step: a row for every role asked for now, unless the index
\* finds one there.
Fresh(s, r) == [status |-> "pending", place |-> asks[<<s, r>>], by |-> Nobody]

CanMaterialize(i, s) == Wanted(s) \cap Row(i, s) = {}

Materialize(rows, i, s) ==
  [key \in Key |-> IF key[1] = i /\ key[2] = s /\ key[3] \in Wanted(s)
                   THEN Fresh(s, key[3]) ELSE rows[key]]

Runs(d) == \E i \in Instances : chain[i].status = "pending" /\ chain[i].of = d

IsFirst(s, S) == s \in S /\ \A t \in S : order[s] <= order[t]

\* create_instance, over the interface: the contract goes to Approval from any
\* stage.  The chain of another definition may still be running.
CreateInstance(i, d) ==
  /\ chain[i].status = "none" /\ \A j \in 1..(i - 1) : chain[j].status # "none"
  /\ d \in active
  /\ ~Runs(d)
  /\ \E s \in Steps :
       /\ IsFirst(s, InPlace(d))
       /\ chain' = [chain EXCEPT ![i] =
            [status |-> "pending", step |-> s, of |-> d, steps |-> InPlace(d)]]
       /\ req' = Materialize(req, i, s)
  /\ stage' = "approval"
  /\ UNCHANGED <<definition, old, deciding, edits>>

\* on_complete: where a workflow holds the signature the contract stays.
OnComplete == {"signature", stage}

\* _advance_step: to the next step by the orders of now, or to the end.
Advance(i, rows) ==
  LET s == chain[i].step
      later == {t \in InPlace(DefinitionOf[s]) : order[t] > order[s]} IN
  IF later = {}
  THEN /\ chain' = [chain EXCEPT ![i].status = "approved", ![i].step = Absent]
       /\ req' = rows
       /\ stage' \in OnComplete
  ELSE \E t \in Steps :
         /\ IsFirst(t, later)
         /\ CanMaterialize(i, t)
         /\ chain' = [chain EXCEPT ![i].step = t]
         /\ req' = Materialize(rows, i, t)
         /\ UNCHANGED stage

MutantGoOn(i, rows) ==
  IF \E r \in Roles : rows[<<i, chain[i].step, r>>].status = "approved"
  THEN Advance(i, rows)
  ELSE req' = rows /\ UNCHANGED <<chain, stage>>
\* What a decision and a recalculation do last.
GoOn(i, rows) ==
  LET live == {r \in Roles : rows[<<i, chain[i].step, r>>].status # "none"} IN
  IF live # {} /\ \A r \in live : rows[<<i, chain[i].step, r>>].status = "approved"
  THEN Advance(i, rows)
  ELSE req' = rows /\ UNCHANGED <<chain, stage>>

-----------------------------------------------------------------------------
MutantInTurn(i, s, r) ==
  s \in sequential =>
    \A q \in Pending(i, s) \ {r} : req[<<i, s, q>>].place > req[<<i, s, r>>].place
\* Sequential steps: an earlier place that is pending blocks.
InTurn(i, s, r) ==
  s \in sequential =>
    \A q \in Pending(i, s) : req[<<i, s, q>>].place >= req[<<i, s, r>>].place

MayDecide(i, r, p) ==
  /\ chain[i].status = "pending"
  /\ r \in Pending(i, chain[i].step)
  /\ stage = "approval"
  /\ p \in holders[r]
  /\ InTurn(i, chain[i].step, r)

\* record_decision: the chain is locked, everything is checked ...
Decide(i, r, p, verdict) ==
  /\ deciding[i] = NoDecision
  /\ MayDecide(i, r, p)
  /\ deciding' = [deciding EXCEPT ![i] = [role |-> r, by |-> p, verdict |-> verdict]]
  /\ UNCHANGED <<stage, definition, chain, req, old, edits>>

KeyOf(i) == <<i, chain[i].step, deciding[i].role>>
WithDecision(i) ==
  [req EXCEPT ![KeyOf(i)].status = deciding[i].verdict, ![KeyOf(i)].by = deciding[i].by]

\* ... and it is written, and what follows from it.
Approve(i) ==
  /\ deciding[i].verdict = "approved"
  /\ GoOn(i, WithDecision(i))
  /\ deciding' = [deciding EXCEPT ![i] = NoDecision]
  /\ UNCHANGED <<definition, old, edits>>

MutantReject(i) ==
  /\ deciding[i].verdict = "rejected"
  /\ chain' = [chain EXCEPT ![i].status = "rejected"]
  /\ req' = WithDecision(i)
  /\ stage' = "review"
  /\ deciding' = [deciding EXCEPT ![i] = NoDecision]
  /\ UNCHANGED <<definition, old, edits>>
Reject(i) ==
  /\ deciding[i].verdict = "rejected"
  /\ chain' = [chain EXCEPT ![i].status = "rejected"]
  /\ req' = [key \in Key |->
               IF key[1] = i /\ req[key].status = "pending" /\ key # KeyOf(i)
               THEN [req[key] EXCEPT !.status = "cancelled"] ELSE WithDecision(i)[key]]
  /\ stage' = "review"
  /\ deciding' = [deciding EXCEPT ![i] = NoDecision]
  /\ UNCHANGED <<definition, old, edits>>

\* The request fails, for whatever reason, the index among them.
Fail(i) ==
  /\ deciding[i] # NoDecision
  /\ deciding' = [deciding EXCEPT ![i] = NoDecision]
  /\ UNCHANGED <<stage, definition, chain, req, old, edits>>

-----------------------------------------------------------------------------
Edit == edits < MaxEdits /\ edits' = edits + 1

MutantRecalculated(i) ==
  LET s == chain[i].step IN
  [key \in Key |->
     IF key[1] # i \/ key[2] # s THEN req[key]
     ELSE IF key[3] \in Wanted(s) THEN Fresh(s, key[3])
     ELSE NoReq]
\* Added roles are asked, removed ones are not any longer, others keep what they
\* have said.
Recalculated(i) ==
  LET s == chain[i].step IN
  [key \in Key |->
     IF key[1] # i \/ key[2] # s THEN req[key]
     ELSE IF key[3] \notin Wanted(s) THEN NoReq
     ELSE IF req[key].status = "none" THEN Fresh(s, key[3])
     ELSE [req[key] EXCEPT !.place = asks[<<s, key[3]>>]]]

\* recalculate, whatever the stage of the contract
Recalculate(i) ==
  LET s == chain[i].step IN
  /\ Edit
  /\ chain[i].status = "pending" /\ deciding[i] = NoDecision
  /\ old' = old \cup
       {[key |-> <<i, s, r>>, status |-> req[<<i, s, r>>].status, by |-> req[<<i, s, r>>].by] :
          r \in {q \in Row(i, s) \ Wanted(s) : req[<<i, s, q>>].status \in Decided}}
  /\ GoOn(i, Recalculated(i))
  /\ UNCHANGED <<definition, deciding>>

\* create_rule, update_rule, delete_rule, and edits of the contract's facts
EditRules(s, r, place) ==
  /\ Edit
  /\ order[s] # Absent
  /\ asks[<<s, r>>] # place
  /\ asks' = [asks EXCEPT ![<<s, r>>] = place]
  /\ UNCHANGED <<stage, active, order, dropped, sequential, holders, chain, req, old, deciding>>

\* Roles are granted, delegated and revoked.
Grant(r, P) ==
  /\ Edit
  /\ holders[r] # P
  /\ holders' = [holders EXCEPT ![r] = P]
  /\ UNCHANGED <<stage, active, order, dropped, sequential, asks, chain, req, old, deciding>>

\* update_step
SetMode(s) ==
  /\ Edit
  /\ s \in InPlace(DefinitionOf[s])
  /\ sequential' = IF s \in sequential THEN sequential \ {s} ELSE sequential \cup {s}
  /\ UNCHANGED <<stage, active, order, dropped, asks, holders, chain, req, old, deciding>>

Reorder(s, n) ==
  /\ Edit
  /\ Reordering \/ ~Runs(DefinitionOf[s])
  /\ s \in InPlace(DefinitionOf[s])
  /\ \A t \in InPlace(DefinitionOf[s]) : order[t] # n
  /\ order' = [order EXCEPT ![s] = n]
  /\ UNCHANGED <<stage, active, dropped, sequential, asks, holders, chain, req, old, deciding>>

\* create_step: nothing is asked for there yet.
CreateStep(s, n) ==
  /\ Edit
  /\ order[s] = Absent /\ \A t \in InPlace(DefinitionOf[s]) : order[t] # n
  /\ order' = [order EXCEPT ![s] = n]
  /\ asks' = [k \in Steps \X Roles |-> IF k[1] = s THEN Absent ELSE asks[k]]
  /\ UNCHANGED <<stage, active, dropped, sequential, holders, chain, req, old, deciding>>

DeleteStep(s) ==
  /\ Edit
  /\ s \in InPlace(DefinitionOf[s])
  /\ dropped' = dropped \cup {s}
  /\ UNCHANGED <<stage, active, order, sequential, asks, holders, chain, req, old, deciding>>

\* update_definition: another one may be activated once this one is not.
Activate(D) ==
  /\ Edit
  /\ D # active /\ Cardinality(D) <= 1 /\ (D = {} \/ active = {})
  /\ active' = D
  /\ UNCHANGED <<stage, order, dropped, sequential, asks, holders, chain, req, old, deciding>>

\* transition_contract_stage, called from elsewhere
MoveStage(to) ==
  /\ Edit
  /\ to \in CASE stage = "review"    -> {"approval", "signature"}
              [] stage = "approval"  -> {"review"}
              [] stage = "signature" -> {"active", "review"}
              [] stage = "active"    -> {"closed"}
              [] stage = "closed"    -> {}
  /\ stage' = to
  /\ UNCHANGED <<definition, chain, req, old, deciding>>

-----------------------------------------------------------------------------
Decides(i) ==
  \E r \in Roles, p \in People, verdict \in Decided : Decide(i, r, p, verdict)

Ends(i) == Approve(i) \/ Reject(i)

Administers ==
  \/ \E s \in Steps, r \in Roles, place \in Places \cup {Absent} : EditRules(s, r, place)
  \/ \E r \in Roles, P \in SUBSET People : Grant(r, P)
  \/ \E s \in Steps : SetMode(s) \/ DeleteStep(s)
  \/ \E s, n \in Steps : Reorder(s, n) \/ CreateStep(s, n)
  \/ \E D \in SUBSET Definitions : Activate(D)

Next ==
  \/ \E i \in Instances :
       \/ \E d \in Definitions : CreateInstance(i, d)
       \/ Decides(i) \/ Ends(i) \/ Fail(i) \/ Recalculate(i)
  \/ Administers
  \/ \E to \in Stages : MoveStage(to)

Spec == Init /\ [][Next]_vars

\* Whoever may decide does in the end, and not every request fails.
Fairness == \A i \in Instances : WF_vars(Decides(i)) /\ SF_vars(Ends(i))

FairSpec == Spec /\ Fairness

-----------------------------------------------------------------------------
Agrees(i) ==
  /\ chain[i].status = "approved" =>
       \A key \in Of(i) : req[key].status \notin {"pending", "rejected"}
  /\ chain[i].status = "rejected" =>
       \E no \in Of(i) :
         /\ req[no].status = "rejected"
         /\ \A key \in Of(i) \ {no} : req[key].status \notin {"pending", "rejected"}
  /\ chain[i].status = "pending" =>
       \A key \in Of(i) : /\ req[key].status # "rejected"
                          /\ req[key].status = "pending" => key[2] = chain[i].step

\* How a chain ended is what its requirements say: approved, when all that are
\* live at every step it came through are approved; rejected by one person, and
\* then nobody is asked any longer; and while it is pending nobody has rejected
\* it and nothing is open but at its current step.
OutcomeAgrees == \A i \in Instances : Agrees(i)

\* Every step that was there when an approved chain was started, and that nobody
\* has deleted, was answered: somebody was asked, and all asked last approved.
NoStepSkipped ==
  \A i \in Instances :
    chain[i].status = "approved" => \A s \in chain[i].steps \ dropped : Answered(i, s)

\* A decision stands, with who made it: it may stop to count, but it is never
\* changed, asked for again or lost.
DecisionsStand ==
  [][\A key \in Key :
       req[key].status \in Decided =>
         \/ req'[key].status = req[key].status /\ req'[key].by = req[key].by
         \/ req'[key] = NoReq
            /\ [key |-> key, status |-> req[key].status, by |-> req[key].by] \in old']_vars

\* What a chain can only be got out of by others: the contract is elsewhere, a
\* role that is asked has no holder, nobody is asked at all, or the step that
\* comes next has been visited.
Blocked(i) ==
  LET s == chain[i].step IN
  \/ stage # "approval"
  \/ \E r \in Pending(i, s) : holders[r] = {}
  \/ Row(i, s) = {}
  \/ \E t \in Steps \ {s} : Row(i, t) # {} /\ order[t] >= order[s] /\ t \notin dropped

\* A chain that nothing blocks comes to an end.
ChainEnds ==
  \A i \in Instances : []<>(chain[i].status = "pending" => Blocked(i))
=============================================================================
