------------------------- MODULE SignatureEnvelope -------------------------
(***************************************************************************)
(* Sending one contract for signature: app/signatures, and the send-back   *)
(* of app/workflows that recalls what is out.                              *)
(*                                                                         *)
(* A request is created at the provider first and recorded afterwards; the *)
(* provider then reports what the signers did, by a webhook it repeats     *)
(* until it is answered, in any order.  Recording a completion locks the   *)
(* request, reads the contract, awaits the download of the signed copy and *)
(* only then writes: it takes two steps here, and the stage it goes by is  *)
(* the one it read in the first (the lock transition_contract_stage takes  *)
(* does not load a contract again that the session already holds).  The    *)
(* same goes for a send-back and for a stage moved by hand.  A run that is *)
(* parked on its signature step makes a send-back and a completion exclude *)
(* each other; the run of a contract that was moved to Signature by hand,  *)
(* or that is parked elsewhere, does not, so nothing here excludes them.   *)
(*                                                                         *)
(* Approval is here only as far as sending asks about it; ApprovalLadder   *)
(* has its rules.  Stages before approval are one stage, "review", and     *)
(* "active" stands for closed contracts too.                               *)
(***************************************************************************)
EXTENDS Naturals, FiniteSets

CONSTANTS
  Requests,         \* bound: requests ever sent, and their envelopes
  MaxEdits,         \* bound: versions that are not signed copies
  Overrides         \* somebody holds contract:lifecycle_override

ASSUME EnvelopeAssumption ==
  /\ IsFiniteSet(Requests)
  /\ MaxEdits \in Nat \ {0}
  /\ Overrides \in BOOLEAN

VARIABLES
  stage,      \* Contract.lifecycle_stage
  edits,      \* versions made by people: 1..edits
  copies,     \* how many versions with source SIGNED there are
  signedHead, \* the authoritative version is one of these
  approval,   \* per version of 1..MaxEdits, where its approval stands
  forced,     \* override rights were used on this contract
  request,    \* the SignatureRequest rows
  sending,    \* sends between the provider's answer and their commit
  txn,        \* completions in flight, with the request's row locked
  rewind,     \* the send-back in flight (bound: one), and what it has read
  moving,     \* the stage a person moving it has loaded (bound: one), or "none"
  toVoid,     \* envelopes a committed send-back still has to void
  envelope,   \* what the provider knows
  ignored     \* envelopes whose outcome was ignored and not recorded

vars == <<stage, edits, copies, signedHead, approval, forced, request, sending,
          txn, rewind, moving, toVoid, envelope, ignored>>

-----------------------------------------------------------------------------
Stages == {"review", "approval", "signature", "active"}
Versions == 1..MaxEdits
Verdicts == {"none", "approved", "rejected"}
Approval == [pending : BOOLEAN, last : Verdicts]
NoApproval == [pending |-> FALSE, last |-> "none"]

Request == [status : {"none", "sent", "delivered", "completed", "declined",
                      "voided"},
            version : 0..MaxEdits,
            copy : Nat]
NoRequest == [status |-> "none", version |-> 0, copy |-> 0]
InFlight == {"sent", "delivered"}
Final == {"completed", "voided", "declined"}

Sending == [on : BOOLEAN, version : 0..MaxEdits, seen : Stages]
NotSending == [on |-> FALSE, version |-> 0, seen |-> "review"]
Txn == [on : BOOLEAN, seen : Stages]
NoTxn == [on |-> FALSE, seen |-> "review"]
\* What a send-back has read: the rows in flight and the pending approvals.
Rewinding == [on : BOOLEAN, read : SUBSET Requests,
              found : [Versions -> Approval]]
NoRewind == [on |-> FALSE, read |-> {},
             found |-> [v \in Versions |-> NoApproval]]

Envelopes == {"none", "out", "signed", "declined", "voided"}

Locked(q) == txn[q].on

\* ALLOWED_TRANSITIONS, over the stages of this module.
Allowed == [s \in Stages |-> CASE s = "review"    -> {"approval", "signature"}
                               [] s = "approval"  -> {"signature", "review"}
                               [] s = "signature" -> {"active", "review"}
                               [] s = "active"    -> {}]

EverSubmitted ==
  \E v \in Versions : approval[v].pending \/ approval[v].last # "none"
Approved(v) == ~approval[v].pending /\ approval[v].last = "approved"

\* ensure_version_is_approved: neither changed, pending nor rejected.
Sendable(v) == EverSubmitted => Approved(v)

-----------------------------------------------------------------------------
TypeOK ==
  /\ stage \in Stages
  /\ edits \in Versions
  /\ copies \in Nat
  /\ signedHead \in BOOLEAN
  /\ approval \in [Versions -> Approval]
  /\ forced \in BOOLEAN
  /\ request \in [Requests -> Request]
  /\ sending \in [Requests -> Sending]
  /\ txn \in [Requests -> Txn]
  /\ rewind \in Rewinding
  /\ moving \in Stages \cup {"none"}
  /\ toVoid \subseteq Requests
  /\ envelope \in [Requests -> Envelopes]
  /\ ignored \subseteq Requests

Init ==
  /\ stage = "review"
  /\ edits = 1
  /\ copies = 0
  /\ signedHead = FALSE
  /\ approval = [v \in Versions |-> NoApproval]
  /\ forced = FALSE
  /\ request = [q \in Requests |-> NoRequest]
  /\ sending = [q \in Requests |-> NotSending]
  /\ txn = [q \in Requests |-> NoTxn]
  /\ rewind = NoRewind
  /\ moving = "none"
  /\ toVoid = {}
  /\ envelope = [q \in Requests |-> "none"]
  /\ ignored = {}

\* What most actions leave alone.
sessionVars == <<rewind, moving>>
contractVars == <<stage, edits, copies, signedHead, approval, forced>>
rowVars == <<request, sending, txn, sessionVars, toVoid>>
providerVars == <<envelope, ignored>>

-----------------------------------------------------------------------------
(***************************************************************************)
(* Sending.                                                                *)
(***************************************************************************)
\* send_for_signature up to the provider's answer: any version of the contract
\* may be named, and nothing asks whether another request is out.
Dispatch(q, v) ==
  /\ envelope[q] = "none"
  /\ v \in 1..edits
  /\ \/ stage = "signature" /\ Sendable(v) /\ UNCHANGED forced
     \/ Overrides /\ forced' = TRUE
  /\ envelope' = [envelope EXCEPT ![q] = "out"]
  /\ sending' = [sending EXCEPT
                   ![q] = [on |-> TRUE, version |-> v, seen |-> stage]]
  /\ UNCHANGED <<stage, edits, copies, signedHead, approval, request, txn,
                 sessionVars, toVoid, ignored>>

\* ... its commit.  The contract moves only if it was seen at another stage.
CommitSend(q) ==
  /\ sending[q].on
  /\ request' = [request EXCEPT ![q] = [status |-> "sent", copy |-> 0,
                                        version |-> sending[q].version]]
  /\ stage' = IF sending[q].seen = "signature" THEN stage ELSE "signature"
  /\ sending' = [sending EXCEPT ![q] = NotSending]
  /\ UNCHANGED <<edits, copies, signedHead, approval, forced, txn, sessionVars,
                 toVoid, envelope, ignored>>

\* What trying to void envelope q comes to: it is best-effort, and the provider
\* refuses it for an envelope that is no longer out.
Void(q) ==
  \/ UNCHANGED envelope
  \/ envelope[q] = "out" /\ envelope' = [envelope EXCEPT ![q] = "voided"]

\* The commit fails, or the process dies: no row, and the envelope is voided
\* if that can be done.
FailSend(q) ==
  /\ sending[q].on
  /\ sending' = [sending EXCEPT ![q] = NotSending]
  /\ Void(q)
  /\ UNCHANGED <<contractVars, request, txn, sessionVars, toVoid, ignored>>

(***************************************************************************)
(* The provider: its signers, and what it reports.                         *)
(***************************************************************************)
Sign(q) ==
  /\ envelope[q] = "out"
  /\ envelope' = [envelope EXCEPT ![q] = "signed"]
  /\ UNCHANGED <<contractVars, rowVars, ignored>>

\* A signer declines, or the envelope expires at the provider.
Refuse(q, as) ==
  /\ envelope[q] = "out"
  /\ envelope' = [envelope EXCEPT ![q] = as]
  /\ UNCHANGED <<contractVars, rowVars, ignored>>

\* The webhook has an outcome to report.
Ended(q) == envelope[q] \in {"signed", "declined", "voided"}

\* It names an envelope without a row, or a row that has ended already.  The
\* success it is answered with tells the provider not to repeat it.
WebhookIgnored(q) ==
  /\ Ended(q)
  /\ request[q].status \in {"none"} \cup Final
  /\ ~Locked(q)
  /\ ignored' = ignored \cup {q}
  /\ UNCHANGED <<contractVars, rowVars, envelope>>

WebhookDeclined(q) ==
  /\ envelope[q] \in {"declined", "voided"}
  /\ request[q].status \in InFlight
  /\ ~Locked(q)
  /\ request' = [request EXCEPT ![q].status = "declined"]
  /\ UNCHANGED <<contractVars, sending, txn, sessionVars, toVoid, providerVars>>

\* Sent, delivered, viewed: reported of any envelope, however late.
WebhookProgress(q) ==
  /\ envelope[q] # "none"
  /\ request[q].status \in InFlight
  /\ ~Locked(q)
  /\ request' = [request EXCEPT ![q].status = "delivered"]
  /\ UNCHANGED <<contractVars, sending, txn, sessionVars, toVoid, providerVars>>

(***************************************************************************)
(* Completing.                                                             *)
(***************************************************************************)
\* sync_signature_request up to the await of the signed document: it locks the
\* row and reads the contract.
Begin(q) ==
  /\ ~Locked(q)
  /\ txn' = [txn EXCEPT ![q] = [on |-> TRUE, seen |-> stage]]
  /\ UNCHANGED <<stage, edits, copies, signedHead, approval, request, sending,
                 sessionVars, toVoid, providerVars>>

MutantAnyEndCompletes(q) ==
  /\ Ended(q)
  /\ request[q].status \in InFlight
  /\ Begin(q)
  /\ UNCHANGED forced
MutantOnlyUndelivered(q) ==
  /\ envelope[q] = "signed"
  /\ request[q].status = "sent"
  /\ Begin(q)
  /\ UNCHANGED forced
\* The provider reports that everybody signed, and the row has not ended.
WebhookCompleted(q) ==
  /\ envelope[q] = "signed"
  /\ request[q].status \in InFlight
  /\ Begin(q)
  /\ UNCHANGED forced

MutantCompletesVoided(q) ==
  /\ Overrides /\ forced' = TRUE
  /\ request[q].status \notin {"none", "completed"}
  /\ Begin(q)
\* Somebody with override rights says so, even of a row that was declined.
CompleteByHand(q) ==
  /\ Overrides /\ forced' = TRUE
  /\ request[q].status \in InFlight \cup {"declined"}
  /\ Begin(q)

\* The transition to Active goes by the stage read before the download.
MayCommit(q) == Locked(q) /\ "active" \in Allowed[txn[q].seen]

\* ... and its commit: the signed copy becomes the authoritative version.
CommitCompletion(q) ==
  /\ MayCommit(q)
  /\ copies' = copies + 1
  /\ request' = [request EXCEPT ![q] = [status |-> "completed", copy |-> copies',
                                        version |-> request[q].version]]
  /\ signedHead' = TRUE
  /\ stage' = "active"
  /\ txn' = [txn EXCEPT ![q] = NoTxn]
  /\ UNCHANGED <<edits, approval, forced, sending, sessionVars, toVoid, providerVars>>

\* The download fails, the transition is refused or a lock is not granted: all
\* is rolled back, and the provider, not answered, reports again.
FailCompletion(q) ==
  /\ Locked(q)
  /\ txn' = [txn EXCEPT ![q] = NoTxn]
  /\ UNCHANGED <<contractVars, request, sending, sessionVars, toVoid, providerVars>>

\* Somebody syncs the row by hand: even a declined one is delivered again.
SyncByHand(q, as) ==
  /\ request[q].status \in InFlight \cup {"declined"}
  /\ ~Locked(q)
  /\ request' = [request EXCEPT ![q].status = as]
  /\ UNCHANGED <<contractVars, sending, txn, sessionVars, toVoid, providerVars>>

(***************************************************************************)
(* The send-back.                                                          *)
(***************************************************************************)
\* _rewind_contract_for_rework reads the stage, the pending approvals and the
\* rows in flight, with the run's row locked and none of theirs; a signed
\* contract it refuses.
ReadForRewind ==
  /\ ~rewind.on
  /\ stage \in {"approval", "signature"}
  /\ rewind' = [on |-> TRUE,
                read |-> {q \in Requests : request[q].status \in InFlight},
                found |-> [v \in Versions |-> IF approval[v].pending
                                              THEN approval[v] ELSE NoApproval]]
  /\ UNCHANGED <<contractVars, request, sending, txn, moving, toVoid,
                 providerVars>>

\* The approvals it found pending are cancelled, also if they were decided since.
Cancelled ==
  [v \in Versions |-> IF rewind.found[v].pending
                      THEN [rewind.found[v] EXCEPT !.pending = FALSE]
                      ELSE approval[v]]

\* ... and writes what it decided, waiting for rows that are locked but not
\* looking at them, nor at the contract, again.
CommitRewind ==
  /\ rewind.on
  /\ \A q \in rewind.read : ~Locked(q)
  /\ request' = [q \in Requests |-> IF q \in rewind.read
                                    THEN [request[q] EXCEPT !.status = "voided"]
                                    ELSE request[q]]
  /\ approval' = Cancelled
  /\ stage' = "review"
  /\ toVoid' = toVoid \cup rewind.read
  /\ rewind' = NoRewind
  /\ UNCHANGED <<edits, copies, signedHead, forced, sending, txn, moving,
                 providerVars>>

FailRewind ==
  /\ rewind.on
  /\ rewind' = NoRewind
  /\ UNCHANGED <<contractVars, request, sending, txn, moving, toVoid,
                 providerVars>>

\* _void_envelopes, after the commit; a crash before it voids nothing.
VoidRewound(q) ==
  /\ q \in toVoid
  /\ toVoid' = toVoid \ {q}
  /\ Void(q)
  /\ UNCHANGED <<contractVars, request, sending, txn, sessionVars, ignored>>

(***************************************************************************)
(* The contract around it.                                                 *)
(***************************************************************************)
\* Its current version goes to approval, unless it is there already: rows that a
\* send-back in flight has not read.
Submit ==
  /\ ~signedHead
  /\ stage \in {"review", "approval"}
  /\ ~approval[edits].pending
  /\ approval' = [approval EXCEPT ![edits].pending = TRUE]
  /\ stage' = "approval"
  /\ rewind' = [rewind EXCEPT !.found[edits] = NoApproval]
  /\ UNCHANGED <<edits, copies, signedHead, forced, request, sending, txn, moving,
                 toVoid, providerVars>>

Decide(v, verdict) ==
  /\ stage = "approval"
  /\ approval[v].pending
  /\ approval' = [approval EXCEPT ![v] = [pending |-> FALSE, last |-> verdict]]
  /\ stage' \in IF verdict = "approved" THEN {"approval", "signature"}
                                        ELSE {"review"}
  /\ UNCHANGED <<edits, copies, signedHead, forced, rowVars, providerVars>>

NewVersion ==
  /\ edits < MaxEdits
  /\ edits' = edits + 1
  /\ signedHead' = FALSE
  /\ UNCHANGED <<stage, copies, approval, forced, rowVars, providerVars>>

\* Somebody who moves the stage loads the contract ...
LoadForMove ==
  /\ moving = "none"
  /\ moving' = stage
  /\ UNCHANGED <<contractVars, request, sending, txn, rewind, toVoid,
                 providerVars>>

\* ... and is refused, or ...
LeaveMove ==
  /\ moving # "none"
  /\ moving' = "none"
  /\ UNCHANGED <<contractVars, request, sending, txn, rewind, toVoid,
                 providerVars>>

\* ... writes over whatever stage it is at by then.
Move(to) ==
  /\ moving \notin {"none", to}
  /\ stage' = to
  /\ moving' = "none"
  /\ UNCHANGED <<edits, copies, signedHead, approval, request, sending, txn,
                 rewind, toVoid, providerVars>>

MutantActiveUngated(to) ==
  /\ moving # "none" /\ to \in Allowed[moving]
  /\ moving = "approval" /\ to = "signature" => ~signedHead /\ Approved(edits)
  /\ Move(to)
  /\ UNCHANGED forced
\* transition_contract_stage as a person or a workflow step calls it: the edge is
\* one from the stage as loaded.
MoveStage(to) ==
  /\ moving # "none" /\ to \in Allowed[moving]
  /\ moving = "approval" /\ to = "signature" => ~signedHead /\ Approved(edits)
  /\ to = "active" => copies > 0
  /\ Move(to)
  /\ UNCHANGED forced

\* ... and as somebody with override rights may call it.
ForceStage(to) ==
  /\ Overrides
  /\ Move(to)
  /\ forced' = TRUE

-----------------------------------------------------------------------------
Webhook(q) == \/ WebhookIgnored(q) \/ WebhookDeclined(q) \/ WebhookProgress(q)
Complete(q) == \/ WebhookCompleted(q) \/ CompleteByHand(q)
               \/ CommitCompletion(q) \/ FailCompletion(q)
Rewind == \/ ReadForRewind \/ CommitRewind \/ FailRewind

Next ==
  \/ \E q \in Requests :
       \/ \E v \in Versions : Dispatch(q, v)
       \/ CommitSend(q)
       \/ FailSend(q)
       \/ Sign(q)
       \/ \E as \in {"declined", "voided"} : Refuse(q, as)
       \/ Webhook(q)
       \/ Complete(q)
       \/ \E as \in {"delivered", "declined"} : SyncByHand(q, as)
       \/ VoidRewound(q)
  \/ Rewind
  \/ Submit
  \/ \E v \in Versions, verdict \in {"approved", "rejected"} : Decide(v, verdict)
  \/ NewVersion
  \/ LoadForMove \/ LeaveMove
  \/ \E to \in Stages : MoveStage(to) \/ ForceStage(to)

Spec == Init /\ [][Next]_vars

\* The provider repeats a report until it is answered; a completion ends one way
\* or the other, and one that could commit again and again does so once.
Fairness ==
  /\ \A q \in Requests : WF_vars(WebhookCompleted(q) /\ q \notin ignored)
  /\ \A q \in Requests : WF_vars(CommitCompletion(q) \/ FailCompletion(q))
  /\ \A q \in Requests : SF_vars(CommitCompletion(q))

FairSpec == Spec /\ Fairness

-----------------------------------------------------------------------------
(***************************************************************************)
(* Properties.                                                             *)
(***************************************************************************)

\* What a row's status says of its request (see Execution).
OutcomeOf(status) == CASE status = "none" -> "unsent"
                       [] status \in InFlight -> "out"
                       [] status = "declined" -> "declined"
                       [] status = "completed" -> "executed"
                       [] status = "voided" -> "void"

Promise == INSTANCE Execution WITH
  outcome <- [q \in Requests |-> OutcomeOf(request[q].status)],
  copy <- [q \in Requests |-> request[q].copy],
  called <- rewind.read

\* Whatever the webhook repeats or reorders and whoever syncs by hand or sends
\* the workflow back meanwhile, a request is sent once, executed once, with one
\* signed copy of its own, and void only if a send-back found it out; what is
\* executed or void stays so, unless a send-back had found it out before.
KeepsPromise == Promise!Spec

\* Unless somebody overrode it, a request is completed only when its signers
\* signed, also if it was declined, reopened or recalled before.
CompletedIsSigned ==
  \A q \in Requests :
    request[q].status = "completed" /\ ~forced => envelope[q] = "signed"

\* The request was completed, with its copy filed, also if a send-back that had
\* read it before voided it since.
Executed(q) == \/ request[q].status = "completed"
               \/ request[q].status = "voided" /\ request[q].copy > 0

\* Unless somebody overrode it, an active contract has a request that was
\* completed: no send-back, retry or manual move leaves it active without one.
ActiveIsExecuted ==
  stage = "active" /\ ~forced =>
    \E q \in Requests : Executed(q)

\* Signatures are not lost: once everybody signed a request that is on record,
\* it is completed, or else ended or its contract pulled back, unless the
\* provider was told that nobody knows the envelope.
SignedIsRecorded ==
  \A q \in Requests :
    (/\ envelope[q] = "signed" /\ request[q].status \in InFlight
     /\ q \notin ignored)
    ~> (request[q].status \notin InFlight \/ stage # "signature")

\* "This contract is already signed, so the workflow can't be sent back past
\* signature": a send-back that found requests out leaves the contract active if
\* it is active by the time it writes. Not kept: a completion may come between
\* the send-back's reads and its writes.
SignedStays ==
  [][(rewind.on /\ ~rewind'.on /\ rewind.read # {} /\ stage = "active")
       => stage' = "active"]_vars
=============================================================================
