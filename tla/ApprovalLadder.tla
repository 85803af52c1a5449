--------------------------- MODULE ApprovalLadder ---------------------------
(***************************************************************************)
(* The approval ladder of app/approvals for one contract.                  *)
(*                                                                         *)
(* A submission files one ApprovalRequest row (a "rung"): plan_chain never *)
(* plans a second one, so no rung is ever WAITING.  People decide a rung   *)
(* in the application or with an emailed single-use token; the rung moves  *)
(* the contract on when its quorum is met, or back when it is rejected.    *)
(*                                                                         *)
(* A decision is a transaction that holds the rung's row lock, so it has   *)
(* two steps here: Begin (lock, read, check) and Commit; one decision is   *)
(* in flight at a time.  Whatever does not take that lock may run in       *)
(* between: the contract's stage and version move, and the workflow is     *)
(* closed or sent back, which cancels the rungs it read as open some time  *)
(* before (CloseRead, RewindRead).                                         *)
(*                                                                         *)
(* Submitting and moving the contract start from the Contract row as a     *)
(* session loaded it (Load).  Locking that row later does not read it      *)
(* again, so what they check may be out of date, and what they write goes  *)
(* over whatever stands there.  A submission looks for a live chain (Ask)  *)
(* and files its rung (FileRung) after it sent the e-mails; only one that  *)
(* takes the contract to Approval itself keeps the contract locked from    *)
(* the one to the other.                                                   *)
(*                                                                         *)
(* The stages before approval (intake, drafting, review) are one stage     *)
(* here, "review"; ContractStage models them, and the redline gate.        *)
(***************************************************************************)
EXTENDS Naturals, Sequences, FiniteSets

CONSTANTS
  Users,            \* people with a directory account
  Deciders,         \* whose roles grant approval:decide
  Admins,           \* whose roles grant approval:admin
  RoleHolders,      \* who hold the approver role a step may name
  Covered,          \* whose delegated authority covers this contract
  Starters,         \* whose actions drive the workflow to its approval step
  FastLaneOn,       \* the contract is an NDA whose review may find it low risk
  HoldsSignature,   \* the workflow has its own signature step ahead
  Movers,           \* bound: whose team membership changes
  Newcomers,        \* bound: whose account still awaits approval at the start
  MayOverride,      \* somebody holds contract:lifecycle_override
  Calls,            \* bound: sessions that have the contract loaded at once
  MaxRungs,         \* bound: submissions filed
  MaxVersion,       \* bound: versions of the contract
  MaxTokens         \* bound: live tokens of one person on one rung

ASSUME UsersAssumption ==
  /\ IsFiniteSet(Users)
  /\ Deciders \subseteq Users /\ Admins \subseteq Deciders
  /\ RoleHolders \subseteq Users /\ Covered \subseteq Users
  /\ Starters \subseteq Users /\ Movers \subseteq Users /\ Newcomers \subseteq Users
ASSUME BoundsAssumption ==
  /\ MaxRungs \in Nat /\ MaxVersion \in Nat /\ MaxTokens \in Nat
  /\ HoldsSignature \in BOOLEAN /\ FastLaneOn \in BOOLEAN
  /\ MayOverride \in BOOLEAN

VARIABLES
  stage,      \* Contract.lifecycle_stage
  version,    \* number of Contract.current_authoritative_version_id
  team,       \* active members of the team an approval step may name
  active,     \* users whose account is active
  filed,      \* how many rungs were filed; rungs 1..filed exist
  rung,       \* the ApprovalRequest rows
  decisions,  \* per rung, its ApprovalDecision rows in the order decided
  tokens,     \* per rung and user, unused ApprovalTokens (one that expires
              \* is one that is not used)
  txn,        \* the decision in flight, with the rung's row locked
  open,       \* the workflow's run is active (its request is not closed)
  closing,    \* the rungs a closing or a send-back in flight has read as open
  session     \* per call, the contract as its session loaded it, and what it
              \* is about to ask

vars == <<stage, version, team, active, filed, rung, decisions, tokens, txn,
          open, closing, session>>

-----------------------------------------------------------------------------
Stages == {"review", "approval", "signature", "active"}
Rungs == 1..MaxRungs
Verdicts == {"approve", "reject"}

Nobody == "nobody"
\* Who a rung asks: one person, or whoever is in the team or has the role.
Holders == [kind : {"user"}, who : Users]
           \cup [kind : {"team", "role"}, who : {Nobody}]
Modes == {"any", "all"}
Rung == [status : {"none", "pending", "approved", "rejected", "cancelled"},
         version : Nat,
         by : Users \cup {Nobody},
         holder : Holders,
         mode : Modes,
         required : SUBSET Users,
         needed : Nat,
         found : Stages \ {"active"}]  \* history: the stage its submission loaded
NoRung == [status |-> "none", version |-> 0, by |-> Nobody,
           holder |-> [kind |-> "role", who |-> Nobody], mode |-> "any",
           required |-> {}, needed |-> 1, found |-> "review"]

Decision == [by : Users, verdict : Verdicts]
Txn == [rung : Rungs, by : Users, verdict : Verdicts, via : {"app", "token"}]
NoTxn == [rung |-> 0, by |-> Nobody, verdict |-> "reject", via |-> "app"]
NotClosing == [why |-> "none", read |-> {}]

\* What a submission is about to ask, with the team as it read it.
Question == [by : Users, holder : Holders, mode : Modes, team : SUBSET Users]
NoQuestion == [by |-> Nobody, holder |-> NoRung.holder, mode |-> "any", team |-> {}]
\* A session: what it loaded, whether the user overrides, how far it is.
Session == [at : {"idle", "loaded", "asking"}, stage : Stages, version : Nat,
            open : BOOLEAN, override : BOOLEAN,
            question : Question \cup {NoQuestion}]
NoSession == [at |-> "idle", stage |-> "review", version |-> 0, open |-> FALSE,
              override |-> FALSE, question |-> NoQuestion]

Live(r) == rung[r].status = "pending"
Idle == txn.rung = 0
Locked(r) == txn.rung = r
Deciding(r) == {decisions[r][i].by : i \in DOMAIN decisions[r]}
Approvers(r) ==
  {decisions[r][i].by :
     i \in {j \in DOMAIN decisions[r] : decisions[r][j].verdict = "approve"}}

(***************************************************************************)
(* Who may act.                                                            *)
(***************************************************************************)
Holds(u, r) ==
  LET h == rung[r].holder IN
  \/ h.kind = "user" /\ h.who = u
  \/ h.kind = "role" /\ u \in RoleHolders
  \/ h.kind = "team" /\ u \in team

\* _user_eligible_to_decide
Eligible(u, r) == u \in Admins \/ (u # rung[r].by /\ Holds(u, r))

\* _step_recipients: who is sent a token when a rung becomes active.
Recipients(h, members) == CASE h.kind = "user" -> {h.who}
                            [] h.kind = "team" -> members
                            [] h.kind = "role" -> {}

\* _activate_step: one more token for every recipient of rung r.
Issued(r, h, members) == [tokens EXCEPT ![r] =
  [u \in Users |-> IF u \in Recipients(h, members) THEN @[u] + 1 ELSE @[u]]]
CanIssue(r, h, members) ==
  \A u \in Recipients(h, members) : tokens[r][u] < MaxTokens

\* _rung_config_problem: a rung nobody could be asked for is refused.
Askable(h) == CASE h.kind = "user" -> h.who \in active
                [] h.kind = "team" -> team # {}
                [] h.kind = "role" -> RoleHolders \cap active # {}

(***************************************************************************)
(* Quorum.                                                                 *)
(***************************************************************************)
MutantCurrentTeamQuorum(r) ==
  IF rung[r].mode = "all" THEN Cardinality(team) ELSE 1
\* _quorum_needed
QuorumNeeded(r) == IF rung[r].mode = "all" THEN rung[r].needed ELSE 1

MutantOwnVoteUncounted(r, u) ==
  Cardinality(IF rung[r].required # {} THEN Approvers(r) \cap rung[r].required
                                       ELSE Approvers(r) \cup {u})
\* _approvals_toward_quorum, with the decision of u about to be recorded.
TowardQuorum(r, u) ==
  LET approvers == Approvers(r) \cup {u} IN
  Cardinality(IF rung[r].required # {} THEN approvers \cap rung[r].required
                                       ELSE approvers)

\* latest_submission / _current_version_approved: the newest rung of the
\* current version that was not cancelled is approved.
Standing(v) == {r \in Rungs : rung[r].version = v
                              /\ rung[r].status \notin {"none", "cancelled"}}
VersionApproved(v) ==
  \E r \in Standing(v) :
    /\ rung[r].status = "approved"
    /\ \A s \in Standing(v) : s <= r
CurrentVersionApproved == VersionApproved(version)

\* A submission that found the contract before Approval moved it there when it
\* began, and keeps its row locked until it commits.
HoldsContract(c) == session[c].at = "asking" /\ session[c].stage = "review"
MutantNeverLocked == TRUE
ContractFree == \A c \in Calls : ~HoldsContract(c)

-----------------------------------------------------------------------------
TypeOK ==
  /\ stage \in Stages
  /\ version \in Nat
  /\ team \subseteq Users
  /\ active \subseteq Users
  /\ filed \in 0..MaxRungs
  /\ rung \in [Rungs -> Rung]
  /\ decisions \in [Rungs -> Seq(Decision)]
  /\ tokens \in [Rungs -> [Users -> Nat]]
  /\ txn \in Txn \cup {NoTxn}
  /\ open \in BOOLEAN
  /\ closing \in [why : {"none", "close", "rewind"}, read : SUBSET Rungs]
  /\ session \in [Calls -> Session]

Init ==
  /\ stage = "review"
  /\ version = 1
  /\ team \in SUBSET Users
  /\ active = Users \ Newcomers
  /\ filed = 0
  /\ rung = [r \in Rungs |-> NoRung]
  /\ decisions = [r \in Rungs |-> <<>>]
  /\ tokens = [r \in Rungs |-> [u \in Users |-> 0]]
  /\ txn = NoTxn
  /\ open = TRUE
  /\ closing = NotClosing
  /\ session = [c \in Calls |-> NoSession]

-----------------------------------------------------------------------------
\* Leaving the sessions, or all but them, alone.
LadderKept == UNCHANGED <<version, team, active, filed, rung, decisions, tokens,
                          txn, open, closing>>

\* A session loads the contract, to move it or to drive its workflow.
Load(c, override) ==
  /\ session[c].at = "idle"
  /\ override => MayOverride
  /\ session' = [session EXCEPT ![c] =
       [at |-> "loaded", stage |-> stage, version |-> version, open |-> open,
        override |-> override, question |-> NoQuestion]]
  /\ LadderKept /\ UNCHANGED stage

\* It ends without a trace: refused, returning the chain that is live, failed.
Leave(c) ==
  /\ session[c].at # "idle"
  /\ session' = [session EXCEPT ![c] = NoSession]
  /\ LadderKept /\ UNCHANGED stage

MutantAlwaysSubmits(v) == TRUE
\* No submission of the version is still open; otherwise submitting returns
\* that one and changes nothing.
NoLiveChain(v) == \A s \in Rungs : Live(s) => rung[s].version # v

\* What lets the workflow's approval step go on: a contract before signing, as
\* the session loaded it, and no live chain of the version it loaded.  A
\* contract before Approval is locked first.
MaySubmit(c) ==
  /\ session[c].at = "loaded"
  /\ session[c].open /\ ~session[c].override
  /\ session[c].stage \in {"review", "approval"}
  /\ session[c].stage = "review" => ContractFree
  /\ NoLiveChain(session[c].version)

(***************************************************************************)
(* The approval step, whose person is u, is about to ask h: it has looked, *)
(* and nobody sees what it does before it commits.                         *)
(***************************************************************************)
Ask(c, u, h, mode) ==
  /\ MaySubmit(c)
  /\ filed < MaxRungs
  /\ Askable(h)
  /\ mode = "all" => h.kind = "team"
  /\ session' = [session EXCEPT
       ![c].at = "asking",
       ![c].question = [by |-> u, holder |-> h, mode |-> mode, team |-> team]]
  /\ LadderKept /\ UNCHANGED stage

\* The rung, its tokens and the stage it moved the contract to are committed.
FileRung(c) ==
  LET r == filed + 1
      q == session[c].question
      snapshot == q.mode = "all"
  IN
  /\ session[c].at = "asking"
  /\ filed < MaxRungs
  /\ CanIssue(r, q.holder, q.team)
  /\ filed' = r
  /\ rung' = [rung EXCEPT ![r] =
       [status |-> "pending", version |-> session[c].version, by |-> q.by,
        holder |-> q.holder, mode |-> q.mode,
        required |-> IF snapshot THEN q.team ELSE {},
        needed |-> IF snapshot THEN Cardinality(q.team) ELSE 1,
        found |-> session[c].stage]]
  /\ tokens' = Issued(r, q.holder, q.team)
  /\ stage' = IF session[c].stage = "review" THEN "approval" ELSE stage
  /\ session' = [session EXCEPT ![c] = NoSession]
  /\ UNCHANGED <<version, team, active, decisions, txn, open, closing>>

\* try_fast_lane: a submission that finds the NDA low risk files nothing and
\* takes the contract straight to Signature, whatever its stage is by now.
FastLane(c) ==
  /\ FastLaneOn
  /\ MaySubmit(c)
  /\ ContractFree
  /\ stage' = "signature"
  /\ session' = [session EXCEPT ![c] = NoSession]
  /\ LadderKept

MutantDecideTwice(u, r, verdict) ==
  /\ Idle /\ Live(r) /\ u \in active /\ stage = "approval"
  /\ verdict = "approve" => u \in Covered
MutantDecideDecided(u, r, verdict) ==
  /\ Idle /\ rung[r].status # "none" /\ u \in active /\ stage = "approval"
  /\ verdict = "approve" => u \in Covered
  /\ u \notin Deciding(r)
\* What every decision checks once it holds the rung's lock.
MayBegin(u, r, verdict) ==
  /\ Idle
  /\ Live(r)
  /\ u \in active
  /\ verdict = "approve" => u \in Covered
  /\ u \notin Deciding(r)
  /\ stage = "approval"

\* The route and decide_in_app, up to the checks of _apply_decision.
BeginInApp(u, r, verdict) ==
  /\ u \in Deciders
  /\ Eligible(u, r)
  /\ MayBegin(u, r, verdict)
  /\ txn' = [rung |-> r, by |-> u, verdict |-> verdict, via |-> "app"]
  /\ UNCHANGED <<stage, version, team, active, filed, rung, decisions, tokens,
                 open, closing, session>>

MutantRequesterRedeems(u, r, verdict) ==
  /\ tokens[r][u] > 0
  /\ MayBegin(u, r, verdict)
  /\ txn' = [rung |-> r, by |-> u, verdict |-> verdict, via |-> "token"]
  /\ UNCHANGED <<stage, version, team, active, filed, rung, decisions, tokens,
                 open, closing, session>>
\* redeem_token_decision, up to the same checks: a token speaks for the
\* person it was sent to, whoever holds the rung now.
BeginWithToken(u, r, verdict) ==
  /\ tokens[r][u] > 0
  /\ u # rung[r].by
  /\ MayBegin(u, r, verdict)
  /\ txn' = [rung |-> r, by |-> u, verdict |-> verdict, via |-> "token"]
  /\ UNCHANGED <<stage, version, team, active, filed, rung, decisions, tokens,
                 open, closing, session>>

\* A decision by token consumes it.
Consumed == IF txn.via = "token"
            THEN [tokens EXCEPT ![txn.rung][txn.by] = @ - 1]
            ELSE tokens

\* What every decision records: the row, and the token it consumed.
Record ==
  /\ decisions' = [decisions EXCEPT ![txn.rung] =
                     Append(@, [by |-> txn.by, verdict |-> txn.verdict])]
  /\ tokens' = Consumed
  /\ txn' = NoTxn
  /\ UNCHANGED <<version, team, active, filed, open, closing, session>>

Reject ==
  /\ ~Idle
  /\ txn.verdict = "reject"
  /\ ContractFree
  /\ rung' = [s \in Rungs |->
       IF s = txn.rung THEN [rung[s] EXCEPT !.status = "rejected"]
       ELSE IF Live(s) /\ rung[s].version = rung[txn.rung].version
            THEN [rung[s] EXCEPT !.status = "cancelled"]
            ELSE rung[s]]
  /\ stage' = "review"
  /\ Record

QuorumMet == TowardQuorum(txn.rung, txn.by) >= QuorumNeeded(txn.rung)

ApprovePartly ==
  /\ ~Idle
  /\ txn.verdict = "approve"
  /\ ~QuorumMet
  /\ Record
  /\ UNCHANGED <<rung, stage>>

MutantSignsAtOnce == "signature"
\* on_complete: the contract moves on by an authorized override, unless an
\* active workflow keeps signing to itself.
OnComplete == IF HoldsSignature /\ open THEN stage ELSE "signature"

\* The last approval a rung needs.
ApproveFully ==
  /\ ~Idle
  /\ txn.verdict = "approve"
  /\ QuorumMet
  /\ (HoldsSignature /\ open) \/ ContractFree
  /\ rung' = [rung EXCEPT ![txn.rung].status = "approved"]
  /\ stage' = OnComplete
  /\ Record

\* The transaction fails after it locked the rung: nothing it did remains.
Rollback ==
  /\ ~Idle
  /\ txn' = NoTxn
  /\ UNCHANGED <<stage, version, team, active, filed, rung, decisions, tokens,
                 open, closing, session>>

\* reassign_rung: whoever may decide the rung hands it to one person.
Reassign(u, r, to, kind) ==
  /\ Live(r)
  /\ ~Locked(r)
  /\ u \in Deciders \cap active
  /\ Eligible(u, r)
  /\ stage = "approval"
  /\ to # rung[r].by
  /\ rung[r].holder # [kind |-> "user", who |-> to]
  /\ to \in active
  /\ to \in (IF kind = "escalate" THEN Admins ELSE Deciders)
  /\ CanIssue(r, [kind |-> "user", who |-> to], team)
  /\ rung' = [rung EXCEPT ![r].holder = [kind |-> "user", who |-> to],
                          ![r].mode = "any"]
  /\ tokens' = Issued(r, [kind |-> "user", who |-> to], team)
  /\ UNCHANGED <<stage, version, team, active, filed, decisions, txn, open,
                 closing, session>>

(***************************************************************************)
(* What runs beside the ladder without taking its locks.                   *)
(***************************************************************************)
\* _transition to "closed": cancel_runs_for_request has loaded the open rungs.
CloseRead ==
  /\ open /\ closing = NotClosing
  /\ closing' = [why |-> "close", read |-> {r \in Rungs : Live(r)}]
  /\ UNCHANGED <<stage, version, team, active, filed, rung, decisions, tokens,
                 txn, open, session>>

\* return_run: _rewind_contract_for_rework has, for a workflow sent back past
\* its approval or signature step.
RewindRead ==
  /\ open /\ closing = NotClosing
  /\ stage \in {"approval", "signature"}
  /\ closing' = [why |-> "rewind", read |-> {r \in Rungs : Live(r)}]
  /\ UNCHANGED <<stage, version, team, active, filed, rung, decisions, tokens,
                 txn, open, session>>

\* Both write them back cancelled.  The UPDATE waits for a locked row, but it
\* does not look at the row again.
Cancelling ==
  /\ \A r \in closing.read : ~Locked(r)
  /\ rung' = [r \in Rungs |-> IF r \in closing.read
                              THEN [rung[r] EXCEPT !.status = "cancelled"]
                              ELSE rung[r]]
  /\ closing' = NotClosing
  /\ UNCHANGED <<version, team, active, filed, decisions, tokens, txn, session>>

CloseWrite ==
  /\ closing.why = "close"
  /\ open' = FALSE
  /\ Cancelling
  /\ UNCHANGED stage

RewindWrite ==
  /\ closing.why = "rewind"
  /\ ContractFree
  /\ stage' = "review"
  /\ Cancelling
  /\ UNCHANGED open

\* An upload, an accepted redline or a restore makes a new version.
NewVersion ==
  /\ version < MaxVersion
  /\ ContractFree
  /\ version' = version + 1
  /\ UNCHANGED <<stage, team, active, filed, rung, decisions, tokens, txn,
                 open, closing, session>>

\* ALLOWED_TRANSITIONS.
Edges(from) == CASE from = "review"    -> {"approval", "signature"}
                 [] from = "approval"  -> {"signature", "review"}
                 [] from = "signature" -> {"active", "review"}
                 [] from = "active"    -> {}

MutantUngated(c, to) ==
  \/ session[c].override
  \/ to \in Edges(session[c].stage)
\* Judged on the contract as the session loaded it; an authorized override is
\* held to neither the edges nor the approval gate.
MayMove(c, to) ==
  \/ session[c].override
  \/ /\ to \in Edges(session[c].stage)
     /\ session[c].stage = "approval" /\ to = "signature" =>
          VersionApproved(session[c].version)

\* transition_contract_stage: a manual move, a workflow step, or signing
\* completing.
MoveStage(c, to) ==
  /\ session[c].at = "loaded"
  /\ to # session[c].stage
  /\ MayMove(c, to)
  /\ ContractFree
  /\ stage' = to
  /\ session' = [session EXCEPT ![c] = NoSession]
  /\ LadderKept

EditTeam(u) ==
  /\ team' = IF u \in team THEN team \ {u} ELSE team \cup {u}
  /\ UNCHANGED <<stage, version, active, filed, rung, decisions, tokens, txn,
                 open, closing, session>>

\* decide_user_approval: an administrator lets a registered user in.
Activate(u) ==
  /\ u \notin active
  /\ active' = active \cup {u}
  /\ UNCHANGED <<stage, version, team, filed, rung, decisions, tokens, txn,
                 open, closing, session>>

-----------------------------------------------------------------------------
Begin == \E u \in Users, r \in Rungs, verdict \in Verdicts :
           BeginInApp(u, r, verdict) \/ BeginWithToken(u, r, verdict)
Commit == Reject \/ ApprovePartly \/ ApproveFully
Submission(c) ==
  \/ \E override \in BOOLEAN : Load(c, override)
  \/ \E u \in Starters, h \in Holders, mode \in Modes : Ask(c, u, h, mode)
  \/ FileRung(c)
  \/ FastLane(c)
  \/ Leave(c)

Next ==
  \/ \E c \in Calls : Submission(c)
  \/ Begin
  \/ Commit
  \/ Rollback
  \/ \E u, to \in Users, r \in Rungs, kind \in {"delegate", "escalate"} :
       Reassign(u, r, to, kind)
  \/ CloseRead
  \/ RewindRead
  \/ CloseWrite
  \/ RewindWrite
  \/ NewVersion
  \/ \E c \in Calls, to \in Stages : MoveStage(c, to)
  \/ \E u \in Movers : EditTeam(u)
  \/ \E u \in Newcomers : Activate(u)

Spec == Init /\ [][Next]_vars

-----------------------------------------------------------------------------
(***************************************************************************)
(* Properties.                                                             *)
(***************************************************************************)

\* Nobody decides the same rung twice, however many tokens they were sent and
\* whether they answer by token or in the application.
OneVoice ==
  \A r \in Rungs : \A i, j \in DOMAIN decisions[r] :
    decisions[r][i].by = decisions[r][j].by => i = j

\* A rung that asked every member of a team is approved only when everyone
\* who was a member at submission approved it, whoever joined or left since;
\* any other approved rung carries somebody's approval.
QuorumHonoured ==
  \A r \in Rungs : rung[r].status = "approved" =>
    /\ Approvers(r) # {}
    /\ rung[r].mode = "all" => rung[r].required \subseteq Approvers(r)

\* A rung every member must approve does not stay open once they all have:
\* two approvers deciding at once see each other's decision.
NoLostQuorum ==
  \A r \in Rungs : rung[r].status = "pending" /\ rung[r].mode = "all" =>
    ~ rung[r].required \subseteq Approvers(r)

\* Every approval came from somebody whose authority covers the contract and
\* who did not ask for it (an approval administrator may approve in the
\* application what they asked for themselves).
ApproversEntitled ==
  \A r \in Rungs : \A u \in Approvers(r) :
    u \in Covered /\ (u = rung[r].by => u \in Admins)

\* The rungs of one version are never open together, so an approver is never
\* asked twice for the same text.  The code does not keep this: a submission
\* that finds the contract at Approval has nothing locked between looking for a
\* live chain and filing its own.
OneLiveChain ==
  \A r, s \in Rungs : Live(r) /\ Live(s) /\ rung[r].version = rung[s].version
                      => r = s

\* Of two rungs of one version that are open together, one was filed by a
\* submission that found the contract at Approval already: those that take it
\* there, from however many sessions, ask once.
ReviewAskedOnce ==
  \A r, s \in Rungs :
    /\ Live(r) /\ Live(s) /\ rung[r].version = rung[s].version
    /\ rung[r].found = "review" /\ rung[s].found = "review"
    => r = s

\* A rung's status agrees with the decisions on record: one rejection ends it,
\* so it stands last, and an open or approved rung carries none.
VerdictsAgree ==
  \A r \in Rungs :
    LET ds == decisions[r]
        rejections == {i \in DOMAIN ds : ds[i].verdict = "reject"}
    IN /\ rung[r].status = "rejected" => rejections = {Len(ds)}
       /\ rung[r].status \in {"none", "pending", "approved"}
            => rejections = {}

\* While an active workflow has its own signature step ahead (and no fast lane
\* applies) a contract goes from Approval to Signature only with its current
\* version approved: terms changed after the approval do not reach signing.
\* The code does not keep this, overrides aside: the gate reads the contract
\* its session loaded.
SigningHeld == HoldsSignature /\ ~FastLaneOn /\ open
               /\ stage = "approval" /\ stage' = "signature"
WorkflowHoldsSignature == [][SigningHeld => CurrentVersionApproved']_vars

\* It is as it should be unless somebody overrides, or the session that moves
\* the contract loaded it before it was changed: the approval engine, the
\* submissions and the send-backs of any number of sessions never open signing.
Overtaken(c) == session[c].stage # stage \/ session[c].version # version
SigningFollowsApproval ==
  [][SigningHeld =>
       \/ CurrentVersionApproved'
       \/ \E c \in Calls :
            /\ session[c].at = "loaded" /\ session'[c].at = "idle"
            /\ session[c].override \/ Overtaken(c)]_vars

=============================================================================
