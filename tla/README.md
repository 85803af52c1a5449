# Clean-Room Legal CLM: specifications, checks and proofs

TLA+ models of the backend of this contract-lifecycle system (`src/backend/app`),
the TLC configurations that check them on small instances, and TLAPS proofs of
what holds for every value of their constants. `PROJECT.json` names, for every
definition, the source lines it stands for, and lists the runs, the hazards the
properties are for, the disagreements found between code and its own words, and
the theorems.

    tlc -workers 2 -config ApprovalLadder.cfg MCApprovalLadder.tla
    tlapm ApprovalLadderProofs.tla

1. [The system](#1-the-system)
2. [Modules](#2-modules)
3. [Runs](#3-runs)
4. [Fairness](#4-fairness)
5. [What the checks found](#5-what-the-checks-found)
6. [Proofs](#6-proofs)
7. [What is abstracted, and what is not modelled](#7-what-is-abstracted-and-what-is-not-modelled)
8. [Plan](#8-plan)

## 1. The system

A FastAPI application (async routes, but a synchronous SQLAlchemy session, so a
route runs until it awaits), Celery workers and a Celery beat over one PostgreSQL
database, with Redis as the broker, and DocuSign, mail and a language model as
outside services. A contract is requested (intake), drafted, reviewed, approved,
signed and kept; a workflow run drives it through the stages, people act in the
application or from their mailbox, and jobs run in the background.

What makes it hard is the same everywhere. A request reads rows, decides, and
writes when it commits; it locks some of the rows it decides from and not others.
`SELECT ... FOR UPDATE` waits for a lock but, without `populate_existing`, does not
refresh an object the session already holds. Production sessions do not autoflush
(`core/database.py:89`), so a query does not see the session's own unwritten
changes; the sessions of the tests do. An UPDATE by primary key waits for the row
and then overwrites it, whatever it says by then; it writes the columns that differ
from what the session loaded, and no others. The models have each of these where a
property can tell: what a session loaded is part of its state, and what it wrote
without seeing is kept in a history variable rather than excluded.

### Components

| component | state | operations | interacts with | what must hold |
|---|---|---|---|---|
| approval ladder (`approvals/`) | `approval_request` (rung), `approval_decision`, `approval_token` | submit, decide in app, redeem a token, reassign, cancel | moves the contract (override), told by the workflow to submit, cancelled by a send-back or a closing; tells the workflow | one voice each, quorum as asked, entitled approvers, a review asked once, an unapproved version is not signed |
| contract lifecycle (`contracts/`) | `contract.lifecycle_stage`, history | transition, override, gates for approval, redlines and a signed copy | called by everyone; triggers the workflow after a move | only allowed moves; gates judged on the stage the contract has |
| workflow engine (`workflows/`) | `workflow_run`: status, index, steps; step copies of a template | start, refresh, complete, return, retry, agent execution, close, resume by beat | approvals, signatures, drafting, agents, intake | steps in order, nothing skipped that should not be, always something to wait for, nothing executed twice |
| signatures (`signatures/`, `integrations/docusign.py`) | `signature_request`, signed versions; the provider's envelope | send, webhook, manual sync, complete, void | contract stage, contract files, workflow send-back | completed means signed, active means executed, one copy each, no signature lost |
| background jobs (`jobs/`) | `job_run`; broker messages; worker processes | create, dispatch, claim, finish, fail, retry, dead-letter, reclaim, reap, cancel | every AI skill | one runner, settled in the end, a success is final |
| audit chain (`core/audit.py`) | `audit_log` rows with `prev_hash`; timeline | append under an advisory lock, verify | every write | the order verified is the order chained; nobody keeps the lock for ever |
| assistant (`assistant/`, `ai/confirmations.py`) | `assistant_run`; claim, heartbeat and cancel flag in Redis; `ai_confirmation` and its tool call | send, claim, beat, answer, ask, wait, confirm, reject, resume, stop, sweep | tools that write contracts, approvals, requests | answered once, decisions carried out as given, nothing on Thinking for ever |
| approval chains (`approval_chains/`) | definitions, steps, rules; instances and their requirements | start, decide, advance, recalculate, edit the definition | own routes start them; they move the contract | the end agrees with the requirements, no step skipped, decisions stand |
| intake (`intake/`) | request status, claim, triage, its approvals | submit, claim, transition, convert, close | workflow, approvals | one owner, closing stops what it started |
| accounts (`auth/`) | users, refresh tokens, reset tokens | register, log in, rotate, revoke, reset | every route | a rotated or revoked token buys nothing |
| contract files (`contract_files/`) | versions, the authoritative one, suggested changes, shares, revision rounds | upload, save, restore, suggest, accept, reject, share | lifecycle gates, editor callbacks, the issues of a review | a redline version is exactly what was accepted, no accepted change is forgotten |
| automatic review (`contracts/auto_review.py`, `contracts/risk.py`, `jobs/tasks.py`) | request keys in the contract's metadata, cached risk band, extraction and retry jobs | request, review, carry over, retry, wait | contract files, playbooks, jobs, a workflow step | the band is of the current text, a request ends for cause, the step goes on |
| playbooks (`playbooks/`) | rules and their versions; review runs, issues | review, suggest fixes, decide an issue | contract files | an issue closes when its fixes are decided, and as they were |
| request log (`core/request_log_queue.py`) | bounded in-process queue, writer thread | put or drop, batch, flush at shutdown | middleware | bounded; loses entries rather than block |
| limits (`core/rate_limit.py`, `ai/cost_guard.py`) | counters and reservations in Redis | reserve, settle, fail open | AI calls | spending stays under the cap but for what is in flight |
| obligations, renewals, notices, trademarks | one row each with a status and deadlines | status moves, periodic reminders | jobs, notifications | reminded once, only legal moves |
| delegated authority, roles, walls, grants, menus | policies | evaluate per request | every route | pure decisions |
| AI controller, contract brain, documents, templates | prompts, rules, extracted text | mostly text in, text out | jobs | little state that several actors change |
| search, analytics, observability, notifications, integrations | read models, outside clients | query, send | - | best effort |
| frontend, Word add-in, MCP server | none the backend relies on | HTTP clients | routes | - |

### Where it is hard

Concurrency: two approvers of one rung; a decision against a manual move, a
send-back, a closing or a new version; a webhook against a send, a send-back or
another webhook; two workers with one job; the beat's refresh against a person's
and against a step at slow work. Failure: an outside effect before the local commit
(envelope, broker message, created contract); a worker lost between claim and
finish; a download that fails. Ordering: webhooks repeated and late; messages
delivered twice or before the row they speak of is committed. Time: token expiry,
job leases, confirmation expiry, run heartbeats. Text: a change suggested on one version and
decided on another. `PROJECT.json` lists each under
`hazards`, at the line where it bites.

## 2. Modules

| module | what it is |
|---|---|
| `ApprovalLadder` | the ladder of rungs of one contract, with everything that runs beside a decision |
| `ApprovalLadderProofs` | its type invariant, inductive invariant and seven safety properties |
| `Execution` | abstract: what is promised of each request sent for signature |
| `SignatureEnvelope` | sending, webhooks, completion and the send-back; implements `Execution` |
| `SignatureEnvelopeProofs` | its invariants, and that every step is a step of `Execution` or a stutter |
| `JobQueue` | one background job, its messages, its workers, the poller and the reaper |
| `JobQueueProofs` | its type and inductive invariant, one runner, dispatched has a message |
| `WorkflowRun` | one request riding one workflow: the step engine, and the contract as far as the engine asks about it |
| `WorkflowRunProofs` | its types; with one session, the order of its steps and what its gates let through |
| `AssistantRun` | the runs of one chat: claims, heartbeats, confirmations, stops and sweeps |
| `AuditTrail` | abstract: what the audit log promises to whoever verifies it |
| `AuditChain` | transactions that append to the log under its lock, lock rows and wait for services; implements `AuditTrail` |
| `AuditChainProofs` | its invariant, and that every step is a step of `AuditTrail` or a stutter |
| `ApprovalChain` | condition-driven chains of one contract, and the edits made under them |
| `ApprovalChainProofs` | its type invariant, and that chains end as decided, without a step skipped |
| `Redlines` | the versions of one text, the changes suggested to it, and the issues they fix |
| `RedlinesProofs` | its type invariant, inductive invariant and three safety properties |
| `AutoReview` | the automatic review of a contract's text: its request, jobs, cached band, retry, and the step that waits |
| `AiWorkerProofs` | of `AutoReview`, its type invariant and two safety properties; of `AssistantRun`, its type invariant and four |
| `MC...` | the values the configurations use |

In each module an action is one transaction of the code, or one half of a
transaction where other transactions can come between its reads and its writes.
Operators named `Mutant...` stand next to the definition they vary: each is that
definition with a plausible mistake. No specification uses them; a property is
kept only if TLC refutes it once the mistake is made.

### ApprovalLadder

| model | code |
|---|---|
| `rung[r]` with status, version, requester, holder, mode, snapshot | `ApprovalRequest`; `required_approver_ids` in its metadata |
| `decisions[r]`, in order | `ApprovalDecision` rows |
| `tokens[r][u]`, a count | unused `ApprovalToken`s; an expired token is one nobody uses |
| `txn`, with `Begin...` and `Commit` | a decision from its `FOR UPDATE` to its commit |
| `stage`, `version` | lifecycle stage; number of the authoritative version |
| `open`, `closing` | the workflow's run is active; a closing or a send-back between its read and its write |
| `session[c]`, `Load`, `Leave` | the contract as a request loaded it: stage, version, whether its run is active |
| `Ask`, `FileRung`, `FastLane` | `submit_subject_for_approval` where it looks for a live chain, and at its commit; `try_fast_lane` |
| `BeginInApp`, `BeginWithToken` | `decide_in_app`, `redeem_token_decision` up to `_apply_decision`'s checks |
| `Reject`, `ApprovePartly`, `ApproveFully`, `Rollback` | the rest of `_apply_decision`, or its failure |
| `Reassign`, `RewindRead`/`RewindWrite`, `CloseRead`/`CloseWrite`, `MoveStage`, `NewVersion`, `EditTeam`, `Activate` | `reassign_rung`, `_rewind_contract_for_rework`, `cancel_runs_for_request`, `transition_contract_stage`, `promote_version`, team membership, account approval |

A submission plans one rung (`plan_chain`), so the model has no waiting rungs. No lock
spans a submission: the run's is given up before its approval step is reached, and two
runs of one contract have two. What there is comes from the contract's row: a submission
that takes the contract to Approval moves it before it files, and so keeps it locked while
it sends its mail (`HoldsContract`); one that finds it at Approval does not. Stages are
moved by the contract as loaded (`MayMove`), whoever overrides (`session[c].override`) is
exempt, and `rung[r].found` is history: the stage the submission had loaded.

### Execution and SignatureEnvelope

`Execution` says of each request: sent once; out, declined and out again as often as one
likes; executed at most once, with a copy that is nobody else's; and void only if it was
out when a withdrawal called it back (`called`), also if it was executed before the
withdrawal took effect. `SignatureEnvelope` maps the row's status to it (`OutcomeOf`), and
what a send-back has read to `called`, and is checked and proved to implement it.

| model | code |
|---|---|
| `Dispatch`, `CommitSend`, `FailSend` | `send_for_signature` before the provider's answer, its commit, its failure with a best-effort void |
| `Sign`, `Refuse` | the signers and the provider (external) |
| `WebhookIgnored`, `WebhookDeclined`, `WebhookProgress`, `WebhookCompleted` | `docusign_connect_webhook` by what it finds |
| `Begin`, `CommitCompletion`, `FailCompletion` | `sync_signature_request` to the await of the download, and after it |
| `CompleteByHand`, `SyncByHand` | the manual sync route and its override |
| `ReadForRewind`, `CommitRewind`, `FailRewind`, `VoidRewound` | `_rewind_contract_for_rework` and `_void_envelopes` |
| `LoadForMove`, `LeaveMove`, `MoveStage`, `ForceStage` | a stage moved by hand, from the contract as loaded |
| `Submit`, `Decide`, `NewVersion` | the rest of the application as far as sending depends on it |

`txn[q].seen` is the stage the completion read before it awaited: the row lock it
takes on the contract later does not reload it; `moving` and `rewind` are the same for a
stage moved by hand and for a send-back. A run parked on its signature step would keep a
send-back and a completion apart; nothing in the model does, since a contract may be in
Signature while its run is elsewhere. `forced` remembers that somebody
with override rights used them; a property that excepts overrides says so.
`ignored` holds the envelopes whose outcome the webhook answered with success and
did not record.

### JobQueue

`status`, `task`, `attempts`, `started`/`age` are the row; `messages[n]` counts the
broker's messages with retry count n; `worker[w]` is idle, working (the skill),
after (what follows a success) or spent (out of retries, the dead letter yet to be
written). `pending[r]` is a request's write between its read and its commit: `mark`
and `requeue` (dispatch), `fail` (reaper), `cancel`. Any step may come between the two;
two histories keep track of it: `stale` holds the requests and spent workers under whose
read somebody has written the status, and `overtaken` is set when one of them commits a
write that undoes what it did not see (`Undoes`). Time passes in ticks; Celery ends a task
after `TaskTimeLimit` of them, and a claim older than `JobLease` is taken for abandoned.

### WorkflowRun

| model | code |
|---|---|
| `flow[i]`: kind, stage, optional, next | the run's pinned `steps`; `next` is `_group_end`, `optional` a `skip_when` or `cond` |
| `run.status`, `index`, `step[i]`, `linked`, `owed` | `WorkflowRun`, its `WorkflowStepRun` rows, `contract_id` set, the `reply_required` of its context |
| `contract` | stage; approval of the current version pending; how its last submission ended |
| `work[s]` | what a session is at between `_commit_before_slow_work` and its next commit, and the row it believes in |
| `Start`, `Refresh`, `Complete`, `Return`, `RetryReview`, `Close` | the routes, the beat `resume_workflow_runs`, and the closing of the request |
| `Advance` = `Walked`, then `BeginWork`, `Park` or `Finish` | `advance_run` with `_execute_step` |
| `AgentDone`, `DraftMade`, `DraftLinked`, `DraftDone`, `DraftFails`, `Abandon` | the rest of a call after its slow work, and its end by a crash or an error |
| `Verdict`, `Settled`, `SentBack`, `ReworkTargets` | `_resolve_waiting_group`, its callers, `_send_back_after_rejection`, `_rework_target` |
| `Approve`, `Reject`, `MoveStage`, `Submit`, `NewVersion` | what moves the contract beside the run; each settles the run that waits on it (`Moves`, `advance_flow_for_contract`) |

A call holds the run's row lock, so calls exclude each other until one commits for
slow work. From there it goes by the attributes its session holds; step rows are read
again (`Believed`); and its commit writes only what it changed (`Save`). `Sessions`
with one member lets nothing come between; with two, everything the lock would have
kept out. A condition is evaluated anew each time a step is met, and may then skip any
optional step. Where entering an approval step would be refused (the contract is past
Approval) the action is not enabled: the code answers 409 and rolls back.

### AssistantRun

| model | code |
|---|---|
| `run[r]`: status, `waits`, `age` | `AssistantRun`; the confirmation in its `provider_state`; how old `updated_at` is, as the sweep and the lease see it |
| `conf[c]`: status, `of`, `call`, `deciding`, `due` | `AIConfirmation` with its tool call; a decision between its lock and its commit; past `expires_at` |
| `messages`, `claim`, `alive`, `flag` | the broker's messages; the claim, heartbeat and cancel keys in Redis |
| `worker[w]`: phase, task, what it has read | a Celery worker inside `drive_run` |
| `Send`, `Resume` | `stream_session`, `resume_run` |
| `Stop`, `StopUnattended` | `cancel_run`: the flag, and the end of a run that has no heartbeat (`lost`) |
| `Decide`, `CommitConfirm`, `CommitReject`, `DecideTooLate` | the confirmation routes |
| `ClaimRun`, `Refuse`, `Disown`, `Beat`, `Answer`, `Break`, `HeedStop`, `Interrupt`, `Leave` | `run_lease` and `drive_run`, by how they end |
| `Load`, `Act`, `Ask`, `Wait` | `resume_assistant_run`, `execute_confirmed`, a tool call that needs approval, the end of a turn that waits |
| `SweepRead`/`SweepWrite`, `SweepStuck`, `SweepStale` | `sweep_confirmations` between read and write; the sweep of stale runs |
| `WorkerLost`, `Lapse`, `ClaimRunsOut`, `Age`, `FallDue` | a lost worker; keys that run out; time |

A worker goes by the run it read and writes its end by key, over whatever the row says by
then. Between a claim and its first heartbeat a worker that lives cannot be told from a
dead one, and Stop and the sweep end its run; such runs are kept in the history `cut`
(`EndedFor`), and what is promised of a run is promised until it is in there. `starts` and
`acts[c][r]`, which count how often a run was begun and carried out a confirmation, are
history too and stop at two.

### AuditTrail and AuditChain

`AuditTrail` has one variable, the committed rows, and one action: add rows behind all
there are so that whoever reads them in order finds each naming the one before. In
`AuditChain` a request is a transaction: `Begin`, `Ask` for a row's lock or the chain's,
`LockRow`, `WriteAuditLog` (the advisory lock is granted; read the tail; insert),
`Await`/`Resume` of a service, and `Commit`, `Rollback`, `IdleTimeout` or
`DeadlockDetected`, each of which lets go of all locks. `Visible` is read committed.
`LoopFree` is the event loop: a handler leaves it where it awaits, and not where it
waits for the database, so one that blocks stops those that would let it go on. A row
carries the clock of its host, which may be `Skew` ahead. `trail` are the committed
rows: `KeepsPromise == Trail!Spec`.

### ApprovalChain

| model | code |
|---|---|
| `active`, `order`, `dropped`, `sequential`, `asks` | definitions, steps and rules; `asks` is what `_group_rule_sources` finds, rules and facts together |
| `holders` | who holds a role now |
| `chain[i]`, `req`, `old` | `ApprovalChainInstance`, live requirements, superseded ones |
| `deciding[i]` | a decision from the lock of its instance to its commit |
| `CreateInstance`, `Recalculate` | the routes, with `Materialize` and `Advance` (`_materialize_step`, `_advance_step`) and the subject's `OnComplete` |
| `Decide`, then `Approve`, `Reject` or `Fail` | `record_decision` |
| `EditRules`, `Grant`, `SetMode`, `Reorder`, `CreateStep`, `DeleteStep`, `Activate`, `MoveStage` | administration, and the contract moving beside |

### Redlines

| model | code |
|---|---|
| `versions`: text and source, in order | authoritative `ContractVersion`s, in the order `promote_version` made them so; a text is the author of each clause |
| `edit[e]`: status, base | `ContractEdit`; "coming" is a run that has read its base and not committed |
| `issue[i]` | `PlaybookDeviation.status`, those that count as open as one |
| `deciding[s]` | what a decision has read since it locked the contract |
| `BeginReview`/`CommitReview` | `execute_playbook_run` with `_create_playbook_redline_version` |
| `BeginFix`/`CommitFix` | `propose_contract_edit`, `_edit_contract`, `redline_with_ai` |
| `Decide`, then `Commit` or `Fail` | `accept_contract_edit`, `reject_contract_edit`, with `Applied` (`_apply_decided_redline`) and `Closed` (`_close_paired_issue`) |
| `SaveText`, `Restore`, `Upload` | `update_contract_text` and `contract_saved`; `restore_contract_version`; `add_version_from_upload` and `_redraft_contract` |
| `Settle` | `decide_deviation` |

A decision locks the contract's row; an insert of a version or a change needs a share of
it for its foreign key, so it waits (`~Locked`); a read does not. `Span[e]` are the
clauses a change replaces, and two changes overlap if they share one.

### AutoReview

| model | code |
|---|---|
| `row`: current, pending, attempt, band | the contract's authoritative version, `auto_review_pending`, `auto_review_attempt`, and `risk_summary`: a band is named by the version it was computed for; `sure` is history: no session that was overtaken had a hand in it |
| `same` | versions whose text is that of the one before (`same_text_version_ids` walks them) |
| `reviewed` | versions with a succeeded run of the model |
| `job[j]`, `made` | `JobRun`s of kind `clause_extraction` and `contract_review`; the newest is `made` |
| `at[j]`, `loaded[j]`, `outcome[j]` | the worker of a job, version and band of the contract when it loaded it, what its review came to |
| `Claim`, `Extract`, `ExtractionFails`, `Close`, `Die`, `Reap` | `_run_ai_job` by its commits, a lost worker, `_reclaim_stale_jobs` |
| `Skip`, `Read`, `StillHolds`, `Begin`, `End` | `_maybe_auto_review`: `Read` loads the contract, `StillHolds` finds its text reviewed and writes |
| `Review`, `Scan`, `ReviewFails` | `auto_review_contract` with `execute_playbook_run`: a run of the model, the keyword scan after it failed, nothing saved |
| `AcceptChanges` | `_apply_decided_redline`: text, request and jobs in one commit |
| `Receive`, `Promote`, `Queue`, `Request`, `UploadEnds` | `add_version_from_upload` and `log_counterparty_revision`, commit by commit; a person's upload is one that ends before `Request` |
| `Retry`, `NotNeeded`, `Reopen` | `retry_review`, `_reopen_review_step` |
| `Judge` | the review step of `_execute_step` when it no longer waits |
| `Stall`, `WaitPasses` | `STALL_SECONDS` of the newest job, `_REVIEW_WAIT_SECONDS` of the step |

A session keeps what it loaded (`expire_on_commit=False`, `core/database.py`), so the end
of a worker or an upload goes by the contract of its beginning; `AcceptChanges` and
`Retry` lock the contract and read it again. The band is set with every review and every
new text, but sent to the database only where it differs from the band as loaded
(`MaySend`, `MaySpare`); likewise `Request` sends nothing if the flag was set when its
session loaded the contract. Time is counted only while a request is
pending, since nothing asks for it otherwise. What `JobQueue` says of a job's messages is
one action here: a claim by whoever gets it.

## 3. Runs

| run | cfg | question |
|---|---|---|
| `approval_ladder` | `ApprovalLadder.cfg` | one rung, every interleaving of decisions, tokens, reassignment and team edits |
| `approval_versions` | `ApprovalVersions.cfg` | two sessions submit, move and override over two versions while the contract is edited, sent back and closed |
| `signature_envelope` | `SignatureEnvelope.cfg` | one request under every order of reports, syncs, send-backs, moves and failures; whether a signature is recorded in the end |
| `workflow_run` | `WorkflowRun.cfg` | order, progress and completion of a run, slow work uninterrupted but for crashes |
| `workflow_overtaken` | `WorkflowOvertaken.cfg` | gates, rejections and signed contracts, a second session acting during slow work |
| `job_queue` | `JobQueue.cfg` | two workers, two requests, duplicates, retries, losses, poller, reaper; whether a queued job is settled |
| `assistant_run` | `AssistantRun.cfg` | two questions, one confirmation, two workers: stops, decisions, sweeps, losses |
| `assistant_ends` | `AssistantEnds.cfg` | whether a run, and a wait for a decision, ends |
| `audit_chain` | `AuditChain.cfg` | three requests, two on one event loop: the log verifies, and everybody ends |
| `approval_chain` | `ApprovalChain.cfg` | two chains of two definitions, with two edits between any two steps |
| `redlines` | `Redlines.cfg` | four suggestions of three runs, decided by two requests while the contract moves on |
| `auto_review` | `AutoReview.cfg` | two texts, one retry: whose band is cached, how a request ends, whether the step that waits for the review goes on |

All of them pass. Next to the properties they check, the modules state what the code or
its documentation claims and does not keep. Each is marked "Not kept" where it is
defined, or says so; no run lists it, and TLC finds a trace to a violation within
a minute once it is added to the configuration named in section 5 (for a property other
than an invariant, under `PROPERTY`).

Bounds, and why they are enough:

- *Approval.* Three people are a requester and two deciders, one of them also an
  administrator: enough for two approvers to race, for a holder and a former
  holder, and for requester, team member and outsider to be different people. Two
  tokens per person and rung are the first e-mail and one by a reassignment back.
  Rules about one rung are checked with one and with one session. Two sessions, two
  versions and two rungs (a rejected and a resubmitted one, one per version, or two at
  once) let every pair of submissions, moves and overrides overlap; there the person asked
  is fixed and one session at a time overrides (`MCAsksBob`), since whom a rung asks
  is the other run's question. The proofs have no bounds.
- *Signature.* One request with two versions, one send-back and one move in flight:
  sending, recall and completion interact through one row and one contract. Copies
  of several requests are the proofs' business, which hold for any number.
- *Jobs.* Two workers, two messages of a kind, two claims and a retry: a job
  can be redelivered to a second worker, retried, abandoned and dead-lettered. Two requests
  can have read what a worker or the other one overwrites. A
  task limit of 1 within a lease of 2 keeps the order of the real figures.
- *Workflow.* Four workflows: one step of every kind with a conditional approval and
  a system step after signing; two reviews side by side, one conditional; an AI review
  with nobody beside it and an approval that ends the run; a person working beside the
  approvers. Between them every kind of step is first, last, skipped, sent back to and
  returned from. `workflow_overtaken` leaves the fourth out, on which two of its
  properties fail (section 5). Two drafts are one more than there should be. With two
  sessions everything of one can fall into the slow work of the other. A third can hold
  the run's past a second time, which matters with two AI steps in a row (section 5);
  these workflows have none.
- *Assistant.* Two questions that may wait for one confirmation, and two workers, since a
  message comes again only when its worker is lost. Stop is pressed in one run, one message
  is under way at a time, and a run that was ended under its worker is not followed
  further, of which nothing is promised (`MCBound`). `assistant_ends` has one question and none of
  these restrictions. The safety properties are proved without bounds.
- *Audit.* Two handlers of one loop and a request elsewhere, one row besides the chain,
  two steps each: every cycle of two locks, and every blocked loop, arises. Deadlocks of
  more than two are cut like those. The proofs have no bounds but `Skew = 0`.
- *Chains.* A definition of two steps, one of one step, two roles at two places: a step
  is followed by another, created before or behind it, deleted, asked anew. Two edits
  take back what the first did, with a recalculation in between.
- *Redlines.* Four changes: two of a review, on different issues, one of them unusable;
  one by the assistant for the first issue over both clauses, so that it overlaps all
  others; one by hand. Two issues, one serious. Two requests race. One version besides
  the first is written by a save, restore or upload (`MaxWritten`), which can come
  before, between or after the decisions; redline versions are not bounded. The proofs
  have no bounds.
- *Automatic review.* Two versions, one retry and two attempts (`MAX_JOB_ATTEMPTS` is 3):
  a review can be overtaken by the text after its own, the second text can repeat the
  first, and a job be lost, run again and given up. Three jobs are then all there are, and
  each can be late, lost or skipped for another. The safety
  properties are proved without the bounds.

`CHECK_DEADLOCK FALSE`: each system may properly come to rest (every rung decided
and no version left; every request ended; a settled job; a run that ended and a contract nobody moves; an answered
question; requests that are over; a decided chain; a text nobody changes or reviews any more).

## 4. Fairness

`ApprovalLadder` has none: nothing obliges a person to decide, and all its
properties are safety.

`SignatureEnvelope`: the provider repeats a report until it gets a success, so a
completion that was not ignored is begun again after each failure (weak fairness of
`WebhookCompleted`); a transaction ends (weak, commit or fail); and a completion that
could commit again and again does so in the end (strong): the download does not fail
for ever. Nothing is assumed of signers or
of people.

`JobQueue`: the broker delivers and the poller is run by the beat; both may be kept
from it now and then by a request between its read and its commit, hence strong
fairness. A worker does something or is ended, a request is over some time, and
time passes. Nothing is assumed of people, nor that any attempt succeeds.

`WorkflowRun`: the beat refreshes the run again and again (weak fairness of a
`Refresh` by some session), and slow work ends, if only with its process (weak). Nothing
is assumed of people, agents or drafts. The beat takes at most a batch of the oldest
runs (`jobs/tasks.py:786`): with more waiting than that, a run past the batch is seen
only when somebody opens its page, and `DecisionIsSeen` is not claimed of it.

`AssistantRun`: the beat sweeps again and again, keys and deadlines run out, a request
that decides is over some time, and a worker does something in the end, if only to be
lost (all weak). The sweep's blind write is strong, since another may come first. Nothing
is assumed of people or of answers.

`AuditChain`: a handler that can go on does, Postgres ends a transaction that idles
(`idle_in_transaction_session_timeout`, `core/database.py`) and one of those that wait
for each other (all weak). That a service answers is not assumed.

`ApprovalChain`: whoever may decide does in the end (weak), and not every decision of a
chain fails or is overtaken (strong). `ChainEnds` thus says that nothing but what
`Blocked` lists keeps people from ending a chain.

`AutoReview`: the step is visited again and again, by the page's refresh and the beat,
and time passes for the step and for the newest job (weak fairness of `Judge`,
`WaitPasses` and `Stall`). Nothing is assumed of workers, jobs or people: each may be
lost or slow for ever, and `StepGoesOn` holds all the same. As for `WorkflowRun`, not of
a run beyond the beat's batch.

`Redlines`: somebody decides in the end as long as something can be decided (weak), and
not every decision fails (strong). `RedlineSettles` says that this is enough.

## 5. What the checks found

- **A reassigned team rung cannot be approved.** The snapshot of required approvers stays
  in the metadata, so the new approver's vote counts for nothing (`Reassign`).
- **A rejection becomes a cancellation.** Closing the request writes by primary key what
  it read as open (`CloseRead`, `CloseWrite`).
- **An envelope goes out from Review.** The stage is checked before the await of the
  provider and not again (`CommitSend`).
- **Two chains at once**. Two submissions that find the contract at
  Approval both look for a live chain, and both file one. Nothing
  locks what they look at. (`OneLiveChain`, `ApprovalVersions.cfg`.)
- **An unapproved version reaches Signature**. A move is judged by the
  stage and version its session loaded; the lock inside the transition does not reload
  them, and an edge from Review to Signature has no gate. (`WorkflowHoldsSignature`,
  `ApprovalVersions.cfg`, also with `MayOverride = FALSE`.)
- **An active contract is sent back**. The send-back judges a contract
  it has not locked; the lock inside the transition does not reload it (`ReadForRewind`,
  `CommitRewind`; `SignedStays`, `SignatureEnvelope.cfg`).
- **A queued job that nothing runs**. The message is sent before the
  row's commit, which then writes `queued` over the worker's claim. (`QueuedIsSettled`,
  `JobQueue.cfg`.)
- **A job run by two workers**. The reaper fails a job that a worker has
  claimed since it was listed; run again, it has two workers. (`AtMostOneRunner`, `JobQueue.cfg`.)
- **A contract is drafted twice**. The draft step commits, and so gives
  up the row lock, before it drafts: a refresh finds no contract yet and drafts another.
  A process that dies between the contract's commit and the request's does the same. (`DraftedOnce`,
  `WorkflowOvertaken.cfg`.)
- **A former holder still decides.** Reassigning a rung leaves the tokens of its previous
  holders valid, and redeeming one never asks who holds the rung now (`BeginWithToken`).
- **A finished run ends "cancelled"** (`Finish`). Closing its request cancels the runs the
  database still has as running, which without autoflush includes the one that just
  finished; the tests' sessions autoflush and see "complete".
- **A closed request's run comes back.** An agent or draft at work when the request is
  closed commits over the cancellation. `CancelledStays`, `InOrder`, `HeldUp` and
  `FinishedMeansSigned` hold with one session and fail with two.
- **A parallel approval is reopened without its contract.** The send-back looks at the
  steps from its target to the first of the current group, and reopens all of them:
  `ReworkTakesContractBack` and `SignedForGood` fail on `Beside`.
- **A late agent puts the run back.** Two AI steps in a row, one call at the first and two
  at the second. One of these clears its step and the run goes on to approval; the other
  leaves the same step to a person; the contract is approved and signed. The call at the
  first step then commits last and takes the run back to the second. A send-back from
  there sees no gate before it and reopens the approval of an active contract.
  `SignedForGood` fails with three sessions on such a workflow.
- **An AI answers for the person.** Where the last review before an approval is an AI
  step, or one a condition skips, a rejected draft goes back unanswered;
  `AnsweredBeforeAsked` is stated for workflows with a person there.
- **A confirmed action is carried out twice**. A question that repeats the
  call of an earlier one is handed its pending confirmation; both runs are resumed. (`NeverTwice`,
  `AssistantRun.cfg`.)
- **A worker that lives is taken for lost**. Between its claim and its
  first heartbeat nothing tells it from a dead one: Stop or the sweep ends a run that then
  answers after all, and Stop gives its claim to whoever comes next. (`NeverAgain`,
  `AssistantEnds.cfg`.)
- **A confirmed action is on record as expired.** The sweep writes by key what it read as
  pending (`SweepRead`, `SweepWrite`).
- **Two answers of a chat at once.** Only sending asks whether another run is under way;
  resuming does not.
- **Clocks that disagree break the audit chain.** The tail is the latest by the clocks of
  the hosts: with `Skew = 1`, `KeepsPromise` of `AuditChain` fails, for good, on rows that
  nobody has touched.
- **A chain skips a step that was moved.** The next step is found by the orders of now:
  with `Reordering = TRUE`, `NoStepSkipped` fails, or a step is visited twice and its
  rows meet the unique index (`CanMaterialize`).
- **A chain starts from, or completes at, any stage.** `create_instance` never calls the
  subject's precheck, and `recalculate` does not ask for the stage a decision asks for: an
  active or closed contract goes back to Approval, or to Signature.
- **A step that asks nobody** leaves its chain pending for good (`Row(i, s) = {}` in
  `Blocked`).
- **A redline is reported as not applied** when it was: a change suggested late, on a base
  whose redline has been applied, is the last open one there, and rejecting it writes that
  the redline closed without changes.
- **An issue is fixed by wording that is never written.** It closes with its own changes;
  the text is written when all are decided, and a save in between discards it.
- **Suggestions are stranded.** The editor opens read-only while some wait, but one opened
  earlier saves, as do text edits, restores and uploads; and a run that read its base
  before commits on the old one.
- **A waived issue gets a fix.** The model is asked while the issue is open, and nobody
  looks again before its change is tied to it: accepted, it leaves the issue waived.
- **A person's decision on an issue is overwritten** by the closing that had read it open.
- **A save reverts what it did not see.** Saving text does not ask which version it was
  written on; the editor's save notes it, by what it read before it waited for the file.
- **A new text is not reviewed**. A review of the text before it ends by
  taking the request off, whatever was requested meanwhile (`End`), and the new text's own
  extraction finds nothing to do (`Skip`; `NewTextIsReviewed`, `AutoReview.cfg`).
- **A revision asks for nothing**. An upload that loaded the contract
  while a review was pending assigns what it had loaded, so nothing is sent; if that review
  ended meanwhile, the revision has no request (`Request`; `RevisionIsFlagged`, `AutoReview.cfg`).
- **The band of the old text is cached for the new**. A review computes the
  band of the version it loaded, and caches it after the text moved (`Cached`); an upload
  that loaded no band takes none off, whatever was cached meanwhile (`Promoted`; `NoBandOutlives`,
  `AutoReview.cfg`).
- **A retry that was given up keeps the review.** Its name stays on the contract, and the
  next text's extraction leaves the review to it (`Reap`, `Mine`).
- **One text is reviewed twice** without a retry: two extractions find the request pending
  (`Begin`, `Begin`).
- **No reconciliation job** picks up orphaned envelopes, though `void_envelope` relies
  on one (`FailSend`, `VoidRewound` leave the envelope out).
- **A cancelled running job is finished, failed or retried** by its worker, which does
  not look again (`CancelJob`, `Succeed`, `Fail`, `Retry`).

Met while reading, in the model but no property of it: two envelopes of one contract
can both complete, and either makes it active; an outcome reported before the send's
commit is answered with success and lost; a manual move from Signature to Review
leaves the envelope out; the assistant's tool for sending does not void the envelope
when its own transaction fails (`ai/tool_runtime.py`, not modelled). Completing a step
beside a failed one resumes a failed run; a second approval step finds the contract past
Approval and is refused for good when no signature step follows; a contract pulled back
to Review by hand after its approval is taken to Signature by a signature step that is
entered then, without another approval (`OpenedForSigning`).

## 6. Proofs

Every proof module EXTENDS its component. The assumptions are the named `ASSUME`s of
the modules: finiteness and inclusions of the sets of people, bounds that are natural
numbers, for jobs that the task limit is within the lease, and of workflows what the
saving of a template lets through, with a slow step alone in its group.

**ApprovalLadder.** `IInv` is `TypeOK` with: the rungs filed are `1..filed` and the
rest untouched (`FiledOK`); the decision in flight is on a live rung, by somebody
entitled who has not decided it, and consumes a token that exists (`TxnOK`); a rung
in mode `all` needs exactly its snapshot and counts only approvers in it
(`SnapshotOK`); what a closing has read was filed (`ClosingOK`). `TxnOK` is what the
row lock buys: without it neither `OneVoice` nor the token count is inductive. Of a session
about to file: whom it asks (`AskedOK`), and, if it holds the contract, that nobody else
does and no open rung of its version was filed by one that did (`HoldOK`). Proved from it:
`TypeOK`, `OneVoice`, `QuorumHonoured`, `NoLostQuorum`, `ApproversEntitled`,
`ReviewAskedOnce`, `VerdictsAgree`. `SigningFollowsApproval` is about single steps and
needs no invariant but the types: of all steps only a move goes from Approval to Signature
while the workflow is open, and it overrides, or goes by an old row, or looks at the
current version. Neither says that chains are never two, nor that nothing unapproved is
signed: `OneLiveChain` and `WorkflowHoldsSignature` say so, and are refuted (section 5).

**SignatureEnvelope.** `IInv` is `TypeOK` with: a send in flight has an envelope and
no row (`SendOK`); a completion in flight holds a row that has not ended and whose
signers signed, overrides excepted (`TxnOK`); what a send-back has read was at most
declined or completed since (`RewindOK`); copies are numbered as they are filed, a
completed request has one, and once there is one somebody was completed (`CopyOK`);
`CompletedIsSigned`; `ActiveIsExecuted`. From it the two safety properties for any number
of requests and versions, and the refinement `KeepsPromise`, with one lemma per kind of
step. Nothing is assumed of the run: completions and send-backs overlap in any way.

**JobQueue.** For every interleaving: until `overtaken`, a working claim is no older than
its task, and the task is within its lease, so an expired claim has no worker (`WorkOK`);
no two workers are busy; what a request read still holds when it commits, unless it is
`stale` (`PendingOK`); a queued, dispatched job has a message (`DeliveryOK`). Every write
of a status makes the reads of all others stale, so a write that is not stale finds the
row it read, and one that is sets `overtaken`. From it `TypeOK`, `OneRunner`,
`DispatchedIsDelivered` and `SucceededStays` for any number of workers, requests,
messages, retries and any limits.

**WorkflowRun.** `TypeOK` for any workflows and any number of sessions: the pointer
never leaves the workflow, whatever overtakes what. Under `Alone` (one session, so
nothing but a contract move comes between while an agent or a draft works) `OInv` adds,
of the row: everything before the pointer is over; a finished or cancelled run has
nothing left; otherwise what follows the current group is untouched; and a waiting row
has a step that waits and none still to begin, which is what keeps `HeldUp` when the
last but one person answers (`OrderOK`). Of slow work: it is on the current step of a
running row, still as the session saw it (`WorkOK`); with two sessions this part fails.
The walk needs that what lies between the pointer and the group it stops at is all
passing (`PassedOver`), by the largest group start below a step. From it `InOrder`,
`HeldUp`, `CancelledStays`.

`GateInv` adds what approvals and signatures leave behind: nobody completes a gate by
hand, one is skipped only by a condition that may skip it, and a step that failed and can
be tried again has stopped its run (`RowOK`); while a signature step is done the contract
is active (`SignedOK`); a request is completed only past gates all given (`FinishedOK`).
Four properties follow.

- `FinishedMeansSigned` where every gate has its group to itself or a step before it to
  which the run can be sent back (`Retreats`). Otherwise a rejection only fails the
  run, and completing the person's step beside the rejected approval takes the run past
  it: `complete_human_step` does not ask whether the run has failed.
- `SignedForGood` and `ReworkTakesContractBack` where every gate begins its group
  (`Leads`): with a person's step in front of a gate in one group, a send-back aims into
  the group of the gate itself (section 5).
- `AnsweredBeforeAsked` for any workflows, with `OwedOK`: while an answer to a rejection is
  owed, no approval behind a review has been asked for. It speaks of reviews in an earlier
  group than the approval. Beside an approval a review is asked when the approval is, so
  nothing could be owed first.

**AuditChain.** Under `Skew = 0`, `IInv` is `TypeOK` with: a lock has one holder and only
open transactions hold any (`OneHolder`, `HeldWhileOpen`); rows that are not committed are
of whoever holds the chain, so the tail a writer sees is the tail there is (`Owned`);
every row is older than the clock, and no two of one time (`Dated`); the committed rows
come first (`CommittedFirst`) and all are linked (`Chained`). From it the refinement: a commit appends,
all other steps stutter, for any number of requests, rows, ids and steps.

**ApprovalChain.** `SInv` is `TypeOK` with, of each chain: its state agrees with its
requirements (`OutcomeAgrees`), and what a request that holds it is about to write is
still open. From it `OutcomeAgrees` and `DecisionsStand`. `PInv` adds that orders within a
definition are distinct and that the steps before the current one, of those it started
with, are answered or deleted; under `~Reordering` it is inductive and gives
`NoStepSkipped`.

**Redlines.** `Inv` is `TypeOK` with: at most one request holds the contract (`OneLocks`);
what it has read is still so (`Read`), which is what the lock and the foreign keys buy;
every suggestion is on a version that exists (`Based`); changes accepted on one base are
apart (`AcceptedApart`), without which the text of a redline is not determined; and the
two invariants themselves. From it `NothingLeftOut`, `RedlineIsExact`
and `IssuesFollow`.

**AutoReview.** `Inv` is `TypeOK` with: a worker in a review has loaded a version
(`Loads`); one whose review is saved has left its run on that version, or says it is
incomplete (`Saves`); nothing reviewed or loaded is of a version not yet made (`Past`); and
`BandOfItsText`. `RequestNotDropped` needs `Saves`: the request that `End` takes off is
answered for the version loaded, which is the current text or not, and the property says
which. `BandOfItsText` is about a band that is `sure`, and inductive with `Past`: a new text
has a band only if it repeats the text before (`NewTextsBand`), and so one that an upload
found may stand. What it leaves out are the sessions that were overtaken (section 5).

**AssistantRun.** `Kept` is `ChatTypeOK` with the workers' tasks (`TaskOK`) and, of every
run that was not ended under a worker (`Runs \ cut`): the claim and the heartbeat are
those of the one worker that has it (`KeysOK`); if its answer is being produced it is
running, and no message, no wait and no decision is about it besides (`QuietOK`); an
answer begun is begun by no message again (`StartsOK`). A confirmation is committed before
anything is done for it, and the tool call says what was done (`ConfOK`, `ActOK`). A run
about to carry an action out has not done so (`UndoneYet`, `ActionOnce`), and of one that
goes on everything decided is done but what its worker has in hand (`DoneOK`). From it
`AnsweredOnce`, `DecisionsHonoured`, `EndedStays` and `ActionOnce` for any numbers of
workers, questions and confirmations, with no hypotheses. A run leaves these parts when
Stop or a sweep ends it before its worker's first heartbeat; that an answer is never begun
again, and an action carried out once in a whole chat, is therefore not proved: `NeverAgain` and
`NeverTwice` say so, and are refuted (section 5).

Only model-checked: the liveness properties `SignedIsRecorded`, `Settles`, `DecisionIsSeen`,
`RunEnds`, `WaitEnds`, `Ends`, `ChainEnds`, `RedlineSettles` and `StepGoesOn`, since fairness
is beyond the proof system; and, with two sessions, what `workflow_overtaken` checks of
`WorkflowRun`, which is proved with one. Every invariant and every action property of the
passing runs is stated by a theorem; the hypotheses a theorem has are the ones named here.
The type invariants, `DispatchedIsDelivered` and `CancelledStays` are proved rather than
listed with the runs.

## 7. What is abstracted, and what is not modelled

Abstracted in the models: the stages before approval are one, `review`, and `active`
stands for closed, terminated and expired as well; who holds a role or an authority
is constant (team membership is not); one decision is in flight at a time (two on
the same rung exclude each other by its lock; the contract's row serialises the
rest); the provider is live, not the mock mode; signed copies are not sent again;
the victim of a database deadlock is a rolled-back transaction; mail and
notifications are best effort. In `JobQueue` the attempt count saturates, and a worker's
batches (`tabular_review`) are one piece of work. In `SignatureEnvelope` the approval gate
of a stage moved by hand looks at the current version; `ApprovalLadder` has it look at the
one its session loaded.

In `WorkflowRun` there is one request with one run and one contract, a slow step or a
gate has its parallel group to itself but for people's steps, an agent's findings and
confidence are a choice, everything before Approval is "review" (a step that brings
its contract forward within it changes nothing), and the contract's trigger settles the
run in one step. Not in it: approvals of requests without a contract, chain instances,
drafts the requester attaches, the designer's `return_to`, starting a second run after
one ended.

In `AssistantRun`: titles, the events and their replay to a page that reconnects, the
deletion of a chat and a Redis that is down are left out, and a message is not delivered
to two live workers. Time is an order: a message comes back before the claim of its lost
worker runs out, and a claim outlives the sweep of a lost run. Giving up a claim deletes
the key whoever holds it.

In `AuditChain` a row's hash is its id, and what a handler does between its locks is
nothing.

In `ApprovalChain`: contracts only, stages from Review on, the history rows, the rule that
the requester's authority decides whether a chain is needed (it is part of who holds a
role). Two definitions can run two chains of one contract at once, as in the code.

In `Redlines`: positions in the text are clauses; one contract file; revision rounds with
a counterparty, shares, the decisions a new review carries over from the last one, and the
jobs that follow a version are left out. `Fail` is any decision that does not commit.

In `AutoReview`: a playbook covers the contract's type; the reason of a request (whether a
review suggests changes), reviews started by hand, a contract flagged without any job, and
a failed dispatch are left out. The version a retry's job names is not kept, since nothing
reads it. The band is also recomputed by hand (`contracts/routes.py:241`) and when a
finding is decided (`playbooks/service.py:1433`), both from a contract just loaded. Broker
retries and a second worker on one job are `JobQueue`'s. Three ways to
make a text are modelled: accepted changes, a person's upload, a counterparty's revision.

`PROJECT.json` lists every component with its status and the reason. Not planned:
pure decisions over policies, text processing and prompts, read-only queries,
clients of outside services, the frontends, migrations and scripts.

## 8. Plan

Done: `ApprovalLadder`, `Execution` and `SignatureEnvelope`, `JobQueue`, `WorkflowRun`,
`AssistantRun`, `AuditTrail` and `AuditChain`, `ApprovalChain`, `Redlines`, `AutoReview`. Next, in order:

1. `RevisionRound`: a counterparty's version against ours, its changes decided one by one,
   the round finished while the contract moves; composed with `Redlines` over one text.
2. `IntakeApproval`: claims, conversion, closing.
3. `ContractStage`: the real stage graph and its gates, with the stage history.
4. Later: request log queue, refresh tokens, reservations of the AI budget, periodic
   reminders; a second run of one request and the trigger overlapping a call in
   `WorkflowRun`.

Theorems worth proving next: `SignedForGood` and `ReworkTakesContractBack` of `WorkflowRun`
for several sessions and one slow step before the gates.
