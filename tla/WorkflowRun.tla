---------------------------- MODULE WorkflowRun ----------------------------
(***************************************************************************)
(* One request riding one workflow: the engine of app/workflows/service.py *)
(* with the routes, the scheduled beat and the contract moves that drive   *)
(* it.                                                                     *)
(*                                                                         *)
(* A call locks the run's row, changes it and walks its steps until one    *)
(* has to wait: one transaction, one action here.  Before an AI call or a  *)
(* draft the transaction is committed and the lock is gone; what follows   *)
(* goes by the row as the session read it then, and writes back only the   *)
(* fields it changed.  That is why a session keeps the row it saw.         *)
(*                                                                         *)
(* The contract is here as far as the engine asks about it: its stage,     *)
(* with everything before Approval one stage "review" and "closed" counted *)
(* as "active", and how approval of its current version stands (the ladder *)
(* itself is ApprovalLadder).  Steps that pass at once (notify, unknown    *)
(* types) and the answers that decide conditions are left out: a condition *)
(* may hold or not each time it is looked at.                              *)
(***************************************************************************)
EXTENDS Naturals, Sequences, FiniteSetsExt

CONSTANTS
  Flows,       \* the workflows a run may follow: sequences of steps
  Sessions,    \* sessions that serve requests or the beat; with one of them
               \* nothing comes between while an agent or a draft is at work
  MaxDrafts    \* bound: contracts ever drafted

Kinds == {"human", "counterparty", "ai", "draft", "approval", "signature"}
Gates == {"approval", "signature"}
Rank == [intake |-> 0, drafting |-> 1, review |-> 2, approval |-> 3,
         signature |-> 4, active |-> 5]

\* A step: what it is, the stage it sits under, whether a condition may skip
\* it, and where the parallel group it begins (or continues) ends.
Step == [kind : Kinds, stage : DOMAIN Rank, optional : BOOLEAN, next : Nat]

\* What _clean_steps and stages.problems let through, and that a slow step or
\* a gate has its group to itself.
ASSUME WorkflowAssumption ==
  /\ Flows \subseteq Seq(Step)
  /\ \A f \in Flows : \A i \in DOMAIN f :
       /\ i < f[i].next /\ f[i].next <= Len(f) + 1
       /\ \A j \in DOMAIN f : /\ i < j => Rank[f[i].stage] <= Rank[f[j].stage]
                              /\ i < j /\ j < f[i].next
                                 => f[j].next = f[i].next
       /\ f[i].kind \in {"ai", "draft"} =>
            /\ f[i].next = i + 1
            /\ \A j \in DOMAIN f : j < i => f[j].next <= i
       /\ f[i].kind = "draft" => ~ f[i].optional /\ f[i].stage = "drafting"
       /\ f[i].kind \in Gates => f[i].stage = f[i].kind
       /\ \A j \in DOMAIN f : i < j /\ j < f[i].next =>
            ~ {f[i].kind, f[j].kind} \subseteq Gates
  /\ MaxDrafts \in Nat

VARIABLES
  flow,      \* the run's pinned steps
  run,       \* the WorkflowRun row and its step rows
  contract,  \* the contract: stage and approval of the current version
  request,   \* the IntakeRequest
  drafts,    \* contracts the drafting code has created for the request
  work       \* per session, the slow work it is in

vars == <<flow, run, contract, request, drafts, work>>

-----------------------------------------------------------------------------
Steps == DOMAIN flow
Last == Len(flow)
Group(j) == {i \in Steps : j \in Steps /\ j <= i /\ i < flow[j].next}
Optional == {i \in Steps : flow[i].optional}
Gated == {i \in Steps : flow[i].kind \in Gates}

Open == {"pending", "running"}
Waiting == {"waiting_human", "waiting_job"}
Terminal == {"done", "skipped", "failed"}
Active == {"running", "waiting"}

Row == [status : {"none", "complete", "failed", "cancelled"} \cup Active,
        index : 1..(Last + 1),
        step : [Steps -> Open \cup Waiting \cup Terminal],
        linked : BOOLEAN,   \* run.contract_id is set
        owed : BOOLEAN]     \* a rejected approval still waits for its reply

ContractRow == [stage : {"review", "approval", "signature", "active"},
                pending : BOOLEAN,   \* the current version is with its approvers
                last : {"none", "approved", "rejected"}]   \* what they said of it
Approved(c) == ~ c.pending /\ c.last = "approved"

RequestRow == [status : {"open", "closed", "completed"}, linked : BOOLEAN]

Idle == [phase |-> "idle"]
Working == {Idle} \cup [phase : {"agent", "drafting", "drafted", "linked"},
                        at : Steps, saw : Row]

TypeOK ==
  /\ flow \in Flows
  /\ run \in Row
  /\ contract \in ContractRow
  /\ request \in RequestRow
  /\ drafts \in Nat
  /\ work \in [Sessions -> Working]

Init ==
  /\ flow \in Flows
  /\ run = [status |-> "none", index |-> 1, step |-> [i \in Steps |-> "pending"],
            linked |-> FALSE, owed |-> FALSE]
  /\ contract = [stage |-> "review", pending |-> FALSE, last |-> "none"]
  /\ \E linked \in BOOLEAN :
       /\ (\A i \in Steps : flow[i].kind # "draft") => linked
       /\ request = [status |-> "open", linked |-> linked]
  /\ drafts = 0
  /\ work = [s \in Sessions |-> Idle]

-----------------------------------------------------------------------------
(***************************************************************************)
(* Walking the steps.                                                      *)
(***************************************************************************)
\* Steps that do not hold the row up: over already, skipped by a condition (K
\* is what the conditions skip this time), or a draft of what exists already,
\* unless the workflow was sent back to that very step.
Passing(r, K, again) ==
  {i \in Steps : \/ r.step[i] \in Terminal
                 \/ r.step[i] \in Open /\ i \in K
                 \/ /\ r.step[i] \in Open /\ flow[i].kind = "draft"
                    /\ r.linked /\ i # again}

\* The first group from the row's index on that is not all passing.
StopsAt(r, pass) ==
  Min({j \in r.index..(Last + 1) :
         \/ j = Last + 1
         \/ /\ j = r.index \/ flow[j - 1].next = j
            /\ ~ (Group(j) \subseteq pass)})

\* The row after advance_run skipped its way to the group it stops at.
Walked(r, pass, stop) ==
  [r EXCEPT !.index = stop,
            !.step = [i \in Steps |->
               IF /\ i \in pass /\ r.step[i] \in Open
                  /\ r.index <= i /\ (i < stop \/ i \in Group(stop))
               THEN "skipped" ELSE r.step[i]]]

\* _execute_step, where it neither skips the step nor works on it at length.
Entered(i) == CASE flow[i].kind \in {"human", "counterparty", "draft"} -> "waiting_human"
                [] flow[i].kind = "ai" -> "running"
                [] flow[i].kind \in Gates -> "waiting_job"

\* What a walked row still has to execute in its group, and the row after it.
ToEnter(w) == {i \in Group(w.index) : w.step[i] \in Open}
Parked(w) ==
  LET step == [i \in Steps |-> IF i \in ToEnter(w) THEN Entered(i) ELSE w.step[i]]
  IN [w EXCEPT !.step = step,
               !.status = IF \E i \in Group(w.index) : step[i] \in Waiting
                          THEN "waiting" ELSE w.status]

\* An approval step submits the current version unless it is with its
\* approvers already; a low-risk NDA goes straight to signing.  Submitting a
\* contract that is past Approval is refused, and the whole call with it.
Submitted(c) ==
  IF c.stage \notin {"review", "approval"} THEN {}
  ELSE {[c EXCEPT !.stage = "approval", !.pending = TRUE]} \cup
       (IF c.pending THEN {} ELSE {[c EXCEPT !.stage = "signature"]})

\* A signature step opens signing: at once where approval was never entered,
\* else once the current version is approved (_advance_contract_to).
OpenedForSigning(c) ==
  IF c.stage = "review" \/ (c.stage = "approval" /\ Approved(c))
  THEN [c EXCEPT !.stage = "signature"] ELSE c

\* The contract after the steps of E are entered.
AfterEntering(c, E) ==
  LET kinds == {flow[i].kind : i \in E} IN
  IF "approval" \in kinds THEN Submitted(c)
  ELSE IF "signature" \in kinds THEN {OpenedForSigning(c)} ELSE {c}

\* Commit row r over what this session believed to be the row: only the
\* fields it changed are written.
Save(base, r) ==
  run' = [status |-> IF r.status = base.status THEN run.status ELSE r.status,
          index  |-> IF r.index = base.index THEN run.index ELSE r.index,
          linked |-> IF r.linked = base.linked THEN run.linked ELSE r.linked,
          owed   |-> IF r.owed = base.owed THEN run.owed ELSE r.owed,
          step   |-> [i \in Steps |-> IF r.step[i] = base.step[i]
                                      THEN run.step[i] ELSE r.step[i]]]

Now(s, w) == work' = [work EXCEPT ![s] = w]

\* The agent of a step that is already running, or a draft nobody has made:
\* _commit_before_slow_work, then at it.
Slow(w) ==
  \/ flow[w.index].kind = "ai" /\ w.step[w.index] = "running"
  \/ flow[w.index].kind = "draft" /\ ~ w.linked

BeginWork(s, base, w, c) ==
  /\ Slow(w)
  /\ Save(base, w)
  /\ contract' = c
  /\ Now(s, [phase |-> IF flow[w.index].kind = "ai" THEN "agent"
                       ELSE IF request.linked THEN "linked" ELSE "drafting",
             at |-> w.index, saw |-> w])
  /\ UNCHANGED request

Park(s, base, w, c) ==
  /\ ~ Slow(w)
  /\ Save(base, Parked(w))
  /\ contract' \in AfterEntering(c, ToEnter(w))
  /\ Now(s, Idle)
  /\ UNCHANGED request

\* Past the last step.  Closing the request cancels the runs the database
\* still has as running, this one too, unless its "complete" was flushed
\* before (applying an amendment does) or it had failed before it was resumed.
ClosesRequest(w) == w.linked /\ request.status = "open"
Finish(s, base, w, c) ==
  /\ \/ /\ Save(base, [w EXCEPT !.status = "complete"])
        /\ contract' = c
     \/ /\ ClosesRequest(w)
        /\ Save(base, [w EXCEPT !.status = "cancelled"])
        /\ contract' = [c EXCEPT !.pending = FALSE]
  /\ request' = IF ClosesRequest(w) THEN [request EXCEPT !.status = "completed"]
                ELSE request
  /\ Now(s, Idle)

\* advance_run from row r and contract c, on behalf of session s.
Advance(s, base, r, c, again) ==
  \/ /\ r.status # "running"
     /\ Save(base, r)
     /\ contract' = c
     /\ Now(s, Idle)
     /\ UNCHANGED request
  \/ /\ r.status = "running"
     /\ \E pass \in {Passing(r, K, again) : K \in SUBSET Optional} :
        \E w \in {Walked(r, pass, StopsAt(r, pass))} :
          \/ w.index > Last /\ Finish(s, base, w, c)
          \/ w.index <= Last /\ (BeginWork(s, base, w, c) \/ Park(s, base, w, c))

-----------------------------------------------------------------------------
(***************************************************************************)
(* Settling a waiting group from the state of what it waits on.            *)
(***************************************************************************)
\* _resolve_waiting_group, for one step of the group.
MutantSentIsSigned(i, now, c) ==
  IF now \in Terminal THEN now
  ELSE IF flow[i].kind \notin Gates THEN now
  ELSE IF c.stage \in {"signature", "active"} THEN "done"
  ELSE IF flow[i].kind = "approval" /\ c.stage = "approval" /\ Approved(c) THEN "done"
  ELSE IF c.stage = "review" /\ now = "waiting_job" THEN "failed"
  ELSE now
Verdict(i, now, c) ==
  IF now \in Terminal THEN now
  ELSE CASE flow[i].kind = "approval" ->
              IF c.stage \in {"signature", "active"}
                 \/ (c.stage = "approval" /\ Approved(c)) THEN "done"
              ELSE IF c.stage = "review" /\ now = "waiting_job" THEN "failed"
              ELSE now
         [] flow[i].kind = "signature" ->
              IF c.stage = "active" THEN "done"
              ELSE IF now # "waiting_job" THEN now
              ELSE IF c.stage = "approval" /\ Approved(c) THEN "pending"
              ELSE IF c.stage = "review" THEN "failed"
              ELSE now
         [] OTHER -> now

\* _rework_target, in its order: a Review step that ran, any Review step, a
\* Drafting step; the last one before the row's index.
ReworkTargets(r) ==
  LET before(stage) == {i \in Steps : i < r.index /\ flow[i].stage = stage}
      ran == {i \in before("review") : r.step[i] = "done"}
  IN IF ran # {} THEN ran
     ELSE IF before("review") # {} THEN before("review") ELSE before("drafting")

\* Every step from "to" on is to be done again.
MutantOneReopened(r, to) ==
  [r EXCEPT !.step[to] = "pending", !.index = to, !.status = "running"]
Reopened(r, to) ==
  [r EXCEPT !.step = [i \in Steps |-> IF i >= to THEN "pending" ELSE r.step[i]],
            !.index = to, !.status = "running"]

\* _send_back_after_rejection, or _fail_run_after_rejection when there is
\* nowhere to send it.
SentBack(r) ==
  IF ReworkTargets(r) = {} THEN [r EXCEPT !.status = "failed"]
  ELSE [Reopened(r, Max(ReworkTargets(r))) EXCEPT
          !.owed = @ \/ \E i \in Group(r.index) :
                          flow[i].kind = "approval" /\ r.step[i] = "failed"]

MutantSettledWaits(r, c) ==
  LET g == Group(r.index)
      t == [r EXCEPT !.step = [i \in Steps |-> IF i \in g
                                 THEN Verdict(i, r.step[i], c) ELSE r.step[i]]]
  IN IF r.index > Last THEN r
     ELSE IF \E i \in g : t.step[i] = "failed" /\ r.step[i] # "failed" THEN SentBack(t)
     ELSE IF \A i \in g : t.step[i] \in Terminal
          THEN [t EXCEPT !.index = flow[r.index].next]
     ELSE t
Settled(r, c) ==
  LET g == Group(r.index)
      t == [r EXCEPT !.step = [i \in Steps |-> IF i \in g
                                 THEN Verdict(i, r.step[i], c) ELSE r.step[i]]]
  IN IF r.index > Last THEN r
     ELSE IF \E i \in g : t.step[i] = "failed" /\ r.step[i] # "failed" THEN SentBack(t)
     ELSE IF \A i \in g : t.step[i] \in Terminal
          THEN [t EXCEPT !.index = flow[r.index].next, !.status = "running"]
     ELSE IF \E i \in g : t.step[i] \in Open THEN [t EXCEPT !.status = "running"]
     ELSE t

-----------------------------------------------------------------------------
(***************************************************************************)
(* Calls on the run.  Each takes the run's row lock, so none meets another *)
(* but in the middle of its slow work.                                     *)
(***************************************************************************)
Free(s) == work[s] = Idle

Start(s) ==
  /\ Free(s)
  /\ run.status = "none"
  /\ LET r == [run EXCEPT !.status = "running", !.linked = request.linked]
     IN Advance(s, run, r, contract, 0)
  /\ UNCHANGED <<flow, drafts>>

\* The open page's poll and the beat, resume_workflow_runs.
MutantRunningOnly(s) ==
  /\ Free(s)
  /\ run.status = "running"
  /\ Advance(s, run, run, contract, 0)
  /\ UNCHANGED <<flow, drafts>>
Refresh(s) ==
  /\ Free(s)
  /\ run.status \in Active
  /\ \E r \in {IF run.status = "waiting" THEN Settled(run, contract) ELSE run} :
       Advance(s, run, r, contract, 0)
  /\ UNCHANGED <<flow, drafts>>

\* complete_human_step.  The reply a rejection is owed comes with it, or the
\* call is refused.
MutantUnanswered(i) ==
  LET step == [run.step EXCEPT ![i] = "done"]
  IN IF run.index <= Last /\ \A j \in Group(run.index) : step[j] \in Terminal
     THEN [run EXCEPT !.step = step, !.index = flow[run.index].next, !.status = "running"]
     ELSE [run EXCEPT !.step = step]
Completed(i) ==
  LET step == [run.step EXCEPT ![i] = "done"]
      over == run.index <= Last
              /\ \A j \in Group(run.index) : step[j] \in Terminal
      r == [run EXCEPT !.step = step, !.owed = FALSE]
  IN IF over THEN [r EXCEPT !.index = flow[run.index].next, !.status = "running"]
     ELSE r

Complete(s, i) ==
  /\ Free(s)
  /\ run.step[i] = "waiting_human"
  /\ Advance(s, run, Completed(i), contract, 0)
  /\ UNCHANGED <<flow, drafts>>

\* _rewind_contract_for_rework goes by the steps from "to" to the first of the
\* current group.
MutantNotTheLast(to) ==
  run.linked /\ \E i \in to..(run.index - 1) : i <= Last /\ flow[i].kind \in Gates
MutantApprovalOnly(to) ==
  run.linked /\ \E i \in to..run.index : i <= Last /\ flow[i].kind = "approval"
ReopensGate(to) ==
  run.linked /\ \E i \in to..run.index : i <= Last /\ flow[i].kind \in Gates
Rewound(c, to) ==
  IF ReopensGate(to) /\ c.stage \in {"approval", "signature"}
  THEN [c EXCEPT !.stage = "review", !.pending = FALSE] ELSE c

\* return_run: the step rows and the contract go back, then the run is driven
\* from there.
Return(s, to) ==
  /\ Free(s)
  /\ run.status \in {"running", "waiting", "failed"}
  /\ to < run.index
  /\ ~ (ReopensGate(to) /\ contract.stage = "active")
  /\ LET again == IF flow[to].kind = "draft" /\ run.linked THEN to ELSE 0
     IN Advance(s, run, Reopened(run, to), Rewound(contract, to), again)
  /\ UNCHANGED <<flow, drafts>>

\* retry_ai_review, on a review step that stopped because its AI review was
\* interrupted.
RetryReview(s) ==
  /\ Free(s)
  /\ run.status = "waiting" /\ run.index <= Last
  /\ flow[run.index].kind = "ai" /\ run.step[run.index] = "waiting_human"
  /\ run.linked
  /\ LET r == [run EXCEPT !.step[run.index] = "pending", !.status = "running"]
     IN Advance(s, run, r, contract, 0)
  /\ UNCHANGED <<flow, drafts>>

\* cancel_runs_for_request.
Cancelled(r) ==
  [r EXCEPT !.status = "cancelled",
            !.step = [i \in Steps |-> IF r.step[i] \in Open \cup Waiting
                                       THEN "skipped" ELSE r.step[i]]]

\* _transition to "closed".
Close(s) ==
  /\ Free(s)
  /\ request.status = "open"
  /\ request' = [request EXCEPT !.status = "closed"]
  /\ IF run.status \in Active
     THEN /\ run' = Cancelled(run)
          /\ contract' = IF run.linked THEN [contract EXCEPT !.pending = FALSE]
                         ELSE contract
     ELSE UNCHANGED <<run, contract>>
  /\ UNCHANGED <<flow, drafts, work>>

-----------------------------------------------------------------------------
(***************************************************************************)
(* The end of slow work.                                                   *)
(***************************************************************************)
\* The row as the session has it now: the one it saw, with the step rows
\* other than its own read again.
Believed(s) == [work[s].saw EXCEPT !.step =
                  [run.step EXCEPT ![work[s].at] = work[s].saw.step[work[s].at]]]

\* The row with the session's own step done, or left to a person.
Over(r, i) == [r EXCEPT !.step[i] = "done", !.index = flow[i].next]
LeftToAPerson(r, i) == [r EXCEPT !.step[i] = "waiting_human", !.status = "waiting"]

\* The agent cleared the step, or escalated it (a failing agent does too).
AgentDone(s) ==
  /\ work[s].phase = "agent"
  /\ \E b \in {Believed(s)} :
       \E r \in {Over(b, work[s].at), LeftToAPerson(b, work[s].at)} :
         Advance(s, b, r, contract, 0)
  /\ UNCHANGED <<flow, drafts>>

\* create_contract_from_upload commits the new contract ...
DraftMade(s) ==
  /\ work[s].phase = "drafting"
  /\ drafts < MaxDrafts
  /\ drafts' = drafts + 1
  /\ Now(s, [work[s] EXCEPT !.phase = "drafted"])
  /\ UNCHANGED <<flow, run, contract, request>>

\* ... the request is linked to it in a transaction of its own ...
DraftLinked(s) ==
  /\ work[s].phase = "drafted"
  /\ request' = [request EXCEPT !.linked = TRUE]
  /\ Now(s, [work[s] EXCEPT !.phase = "linked"])
  /\ UNCHANGED <<flow, run, contract, drafts>>

\* ... and the run in a third.  A custom draft is left to an attorney.
DraftDone(s) ==
  /\ work[s].phase = "linked"
  /\ \E b \in {Believed(s)} :
       \E r \in {Over(b, work[s].at), LeftToAPerson(b, work[s].at)} :
         Advance(s, b, [r EXCEPT !.linked = TRUE], contract, 0)
  /\ UNCHANGED <<flow, drafts>>

\* Drafting raised: the step and the run are marked failed.
DraftFails(s) ==
  /\ work[s].phase = "drafting"
  /\ \E b \in {Believed(s)} :
       Save(b, [b EXCEPT !.step[work[s].at] = "failed", !.status = "failed"])
  /\ Now(s, Idle)
  /\ UNCHANGED <<flow, contract, request, drafts>>

\* The process dies, the call is refused, or the agent still waits for the
\* playbook review and yields: nothing more is written.
Abandon(s) ==
  /\ ~ Free(s)
  /\ Now(s, Idle)
  /\ UNCHANGED <<flow, run, contract, request, drafts>>

-----------------------------------------------------------------------------
(***************************************************************************)
(* What moves the contract beside the run.  Every change of its stage, and *)
(* every finished approval, settles the run that waits on it               *)
(* (advance_flow_for_contract); walking on is left to the next refresh.    *)
(***************************************************************************)
Moves(c) ==
  /\ request.linked
  /\ contract' = c
  /\ run' = IF run.linked /\ run.status = "waiting" THEN Settled(run, c) ELSE run
  /\ UNCHANGED <<flow, request, drafts, work>>

\* workflow_holds_signature
HoldsSignature ==
  /\ run.linked
  /\ run.status \in Active
  /\ \E i \in Steps : i > run.index /\ flow[i].kind = "signature"

Approve ==
  /\ contract.stage = "approval" /\ contract.pending
  /\ Moves([stage |-> IF HoldsSignature THEN "approval" ELSE "signature",
            pending |-> FALSE, last |-> "approved"])

Reject ==
  /\ contract.stage = "approval" /\ contract.pending
  /\ Moves([stage |-> "review", pending |-> FALSE, last |-> "rejected"])

\* By hand, and signing.
MoveStage(to) ==
  /\ to \in CASE contract.stage = "review"    -> {"approval", "signature"}
              [] contract.stage = "approval"  -> {"signature", "review"}
              [] contract.stage = "signature" -> {"active", "review"}
              [] contract.stage = "active"    -> {}
  /\ contract.stage = "approval" /\ to = "signature" => Approved(contract)
  /\ Moves([contract EXCEPT !.stage = to])

\* Somebody submits the contract from its own page.
Submit ==
  /\ ~ contract.pending
  /\ \E c \in Submitted(contract) : Moves(c)

\* A new version: nobody was asked about it yet.
NewVersion ==
  /\ contract.stage # "active"
  /\ request.linked
  /\ contract' = [contract EXCEPT !.pending = FALSE, !.last = "none"]
  /\ UNCHANGED <<flow, run, request, drafts, work>>

-----------------------------------------------------------------------------
Calls(s) ==
  \/ Start(s) \/ Refresh(s) \/ RetryReview(s) \/ Close(s)
  \/ \E i \in Steps : Complete(s, i)
  \/ \E to \in Steps : Return(s, to)
Works(s) == AgentDone(s) \/ DraftMade(s) \/ DraftLinked(s) \/ DraftDone(s)
Next ==
  \/ \E s \in Sessions : Calls(s) \/ Works(s) \/ DraftFails(s) \/ Abandon(s)
  \/ Approve \/ Reject \/ Submit \/ NewVersion
  \/ \E to \in {"approval", "signature", "active", "review"} : MoveStage(to)

\* The beat looks at the run again and again, and slow work ends, were it by
\* the end of its process.  People need not do anything.
Fairness ==
  /\ WF_vars(\E s \in Sessions : Refresh(s))
  /\ \A s \in Sessions : WF_vars(Works(s) \/ DraftFails(s) \/ Abandon(s))

Spec == Init /\ [][Next]_vars /\ Fairness

-----------------------------------------------------------------------------
(***************************************************************************)
(* Properties.                                                             *)
(***************************************************************************)
\* Nothing is left behind: while a run is going, every step before the current
\* one is over, and nothing after its group has begun.
InOrder ==
  run.status \in Active =>
    \A i \in Steps : /\ i < run.index => run.step[i] \in Terminal
                     /\ run.index <= Last /\ i >= flow[run.index].next
                        => run.step[i] = "pending"

\* A waiting run is really held up: by a step of its current group that waits.
HeldUp ==
  run.status = "waiting" =>
    run.index <= Last /\ \E i \in Group(run.index) : run.step[i] \in Waiting

\* A cancelled run stays as it is.
CancelledStays == [][run.status = "cancelled" => run' = run]_vars

\* Taking the run back to before its gates takes the contract back to Review.
ReworkTakesContractBack ==
  [][(/\ run'.index < run.index
      /\ \E i \in Gated : run.step[i] \in {"waiting_job", "done"}
      /\ \A i \in Gated : run'.step[i] = "pending")
     => contract'.stage = "review"]_vars

\* A request is closed as finished only with its contract signed and every
\* approval the workflow asks for given.
FinishedMeansSigned ==
  request.status = "completed" =>
    \A i \in Gated :
      /\ run.step[i] = "done" \/ (run.step[i] = "skipped" /\ flow[i].optional)
      /\ flow[i].kind = "signature" /\ run.step[i] = "done"
           => contract.stage = "active"

\* A rejection is answered before an approver is asked again, where a person
\* reviews just before every approval, and not beside it.
Reviews(j, i) ==
  /\ flow[j].next <= i /\ flow[j].stage = "review" /\ ~ flow[j].optional
  /\ flow[j].kind \in {"human", "counterparty"}
  /\ \A k \in Steps : j < k /\ k < i => flow[k].stage # "review"
PersonBefore(i) == \E j \in Steps : Reviews(j, i)
AnsweredBeforeAsked ==
  (\A i \in Steps : flow[i].kind = "approval" => PersonBefore(i))
  /\ run.owed /\ run.status \in Active
  => \A i \in Steps : flow[i].kind = "approval" => run.step[i] # "waiting_job"

\* What was signed stays signed off: a gate that is done is not opened again
\* once the contract is active.
SignedForGood ==
  [][contract.stage = "active" =>
       \A i \in Gated : run.step[i] = "done" => run'.step[i] = "done"]_vars

\* However often a run is refreshed, one contract is drafted for its request.
\* Not kept with a second session: the draft is made without the run's lock.
DraftedOnce == drafts <= 1

\* A run does not wait for ever on a gate its contract has decided: what no
\* trigger reports (a fast lane taken inside the engine, a move while the run
\* was locked) the next refresh finds.
Decided ==
  /\ run.status = "waiting" /\ run.linked
  /\ \E i \in Group(run.index) :
       /\ run.step[i] = "waiting_job"
       /\ Verdict(i, "waiting_job", contract) # "waiting_job"
DecisionIsSeen == Decided ~> ~ Decided
=============================================================================
