---------------------- MODULE SignatureEnvelopeProofs ----------------------
(***************************************************************************)
(* Proofs about SignatureEnvelope, for any number of requests and versions *)
(* and whoever holds override rights, with send-backs and completions in   *)
(* any order.                                                              *)
(***************************************************************************)
EXTENDS SignatureEnvelope, TLAPS

-----------------------------------------------------------------------------
(***************************************************************************)
(* The inductive invariant.                                                *)
(***************************************************************************)
\* A request is recorded once: a send in flight has no row yet, and an envelope
\* that does not exist has neither.
SendOK == \A q \in Requests :
  /\ sending[q].on => request[q].status = "none"
  /\ envelope[q] = "none" => request[q].status = "none" /\ ~sending[q].on

\* A completion in flight holds the lock of a row that had not ended, and
\* somebody overrode or the signers signed.
TxnOK == \A q \in Requests : Locked(q) =>
  /\ request[q].status \in InFlight \cup {"declined"}
  /\ forced \/ envelope[q] = "signed"

\* What a send-back in flight has read was declined or completed since, at most.
RewindOK ==
  /\ ~rewind.on => rewind.read = {}
  /\ \A q \in rewind.read :
       request[q].status \in InFlight \cup {"declined", "completed"}

\* Copies are numbered as they are filed, and somebody has the last one; who was
\* never sent has none, who completed has one.
CopyOK ==
  /\ \A q \in Requests :
       /\ request[q].copy <= copies
       /\ request[q].status = "none" => request[q].copy = 0
       /\ request[q].status = "completed" => request[q].copy > 0
  /\ copies > 0 => \E q \in Requests : Executed(q)

IInv == /\ TypeOK /\ SendOK /\ TxnOK /\ RewindOK /\ CopyOK
        /\ CompletedIsSigned /\ ActiveIsExecuted

USE EnvelopeAssumption DEF EnvelopeAssumption

-----------------------------------------------------------------------------
LEMMA NoRewindType == NoRewind \in Rewinding
BY DEF NoRewind, Rewinding, Approval, NoApproval, Verdicts

LEMMA InitIInv == Init => IInv
<1> SUFFICES ASSUME Init PROVE IInv
  OBVIOUS
<1>1. TypeOK
  <2>1. MaxEdits \in Nat /\ 1 \in Versions
    BY DEF Versions
  <2>2. approval \in [Versions -> Approval]
    BY DEF Init, Approval, NoApproval, Verdicts
  <2>3. request \in [Requests -> Request]
    BY <2>1 DEF Init, Request, NoRequest
  <2>4. /\ sending \in [Requests -> Sending]
        /\ txn \in [Requests -> Txn]
    BY <2>1 DEF Init, Sending, NotSending, Txn, NoTxn, Stages
  <2>5. /\ stage \in Stages /\ edits \in Versions /\ copies \in Nat
        /\ signedHead \in BOOLEAN /\ forced \in BOOLEAN
        /\ rewind \in Rewinding /\ moving \in Stages \cup {"none"}
        /\ toVoid \subseteq Requests /\ ignored \subseteq Requests
    BY <2>1, NoRewindType DEF Init, Stages
  <2>6. envelope \in [Requests -> Envelopes]
    BY DEF Init, Envelopes
  <2>. QED
    BY <2>2, <2>3, <2>4, <2>5, <2>6 DEF TypeOK
<1>2. SendOK /\ TxnOK /\ RewindOK /\ CopyOK
  BY DEF Init, SendOK, TxnOK, RewindOK, CopyOK, Locked, NoRequest, NotSending,
         NoTxn, NoRewind
<1>3. CompletedIsSigned /\ ActiveIsExecuted
  BY DEF Init, CompletedIsSigned, ActiveIsExecuted, NoRequest
<1>. QED
  BY <1>1, <1>2, <1>3 DEF IInv

\* Sending: the new row is not ended, and the envelope of an old one is left.
LEMMA DispatchIInv ==
  ASSUME IInv, NEW q \in Requests, NEW v \in Versions, Dispatch(q, v)
  PROVE  IInv'
<1> DEFINE s == [on |-> TRUE, version |-> v, seen |-> stage]
<1>1. s \in Sending
  BY DEF IInv, TypeOK, Sending, Versions
<1>2. /\ sending' \in [Requests -> Sending]
      /\ \A p \in Requests : sending'[p] = IF p = q THEN s ELSE sending[p]
  BY <1>1 DEF Dispatch, IInv, TypeOK
<1>3. /\ envelope' \in [Requests -> Envelopes]
      /\ \A p \in Requests : envelope[p] = "signed" => envelope'[p] = "signed"
  BY DEF Dispatch, IInv, TypeOK, Envelopes
<1>4. TypeOK'
  BY <1>2, <1>3 DEF Dispatch, IInv, TypeOK, sessionVars
<1>5. SendOK'
  BY <1>2 DEF Dispatch, IInv, SendOK, TypeOK
<1>6. TxnOK' /\ RewindOK' /\ CopyOK'
  BY <1>3 DEF Dispatch, IInv, TxnOK, RewindOK, CopyOK, Executed, Locked, sessionVars
<1>7. CompletedIsSigned' /\ ActiveIsExecuted'
  BY <1>3 DEF Dispatch, IInv, CompletedIsSigned, ActiveIsExecuted, Executed
<1>. QED
  BY <1>4, <1>5, <1>6, <1>7 DEF IInv

LEMMA CommitSendIInv ==
  ASSUME IInv, NEW q \in Requests, CommitSend(q)
  PROVE  IInv'
<1> DEFINE row == [status |-> "sent", copy |-> 0, version |-> sending[q].version]
<1>1. /\ request' \in [Requests -> Request]
      /\ \A p \in Requests : request'[p] = IF p = q THEN row ELSE request[p]
  BY DEF CommitSend, IInv, TypeOK, Request, Sending
<1>2. /\ sending' \in [Requests -> Sending]
      /\ \A p \in Requests : sending'[p] = IF p = q THEN NotSending ELSE sending[p]
  BY DEF CommitSend, IInv, TypeOK, Sending, NotSending, Stages
<1>3. request[q].status = "none" /\ envelope[q] # "none"
  BY DEF CommitSend, IInv, SendOK
<1>4. TypeOK'
  BY <1>1, <1>2 DEF CommitSend, IInv, TypeOK, Stages, sessionVars
<1>5. SendOK'
  BY <1>1, <1>2, <1>3 DEF CommitSend, IInv, SendOK, NotSending
<1>6. TxnOK' /\ RewindOK'
  BY <1>1, <1>3
     DEF CommitSend, IInv, TxnOK, RewindOK, Locked, InFlight, sessionVars
<1>7. CopyOK'
  BY <1>1, <1>3 DEF CommitSend, IInv, TypeOK, CopyOK, Executed
<1>8. CompletedIsSigned' /\ ActiveIsExecuted'
  BY <1>1, <1>3
     DEF CommitSend, IInv, CompletedIsSigned, ActiveIsExecuted, Executed
<1>. QED
  BY <1>4, <1>5, <1>6, <1>7, <1>8 DEF IInv

\* A step that leaves the contract, the rows and the completions in flight, and
\* no signed envelope unsigned, and starts no send.
LEMMA EnvelopeStepIInv ==
  ASSUME IInv,
         UNCHANGED <<contractVars, request, txn, sessionVars>>,
         ignored' \subseteq Requests, toVoid' \subseteq Requests,
         sending' \in [Requests -> Sending],
         envelope' \in [Requests -> Envelopes],
         \A q \in Requests :
           /\ sending'[q].on => sending[q].on
           /\ envelope[q] = "signed" => envelope'[q] = "signed"
           /\ envelope'[q] = "none" => envelope[q] = "none"
  PROVE  IInv'
<1>1. TypeOK'
  BY DEF IInv, TypeOK, contractVars, sessionVars
<1>2. SendOK' /\ TxnOK' /\ RewindOK' /\ CopyOK'
  BY DEF IInv, SendOK, TxnOK, RewindOK, CopyOK, Executed, Locked, contractVars,
         sessionVars
<1>3. CompletedIsSigned' /\ ActiveIsExecuted'
  BY DEF IInv, CompletedIsSigned, ActiveIsExecuted, Executed, contractVars
<1>. QED
  BY <1>1, <1>2, <1>3 DEF IInv

LEMMA ProviderIInv ==
  ASSUME IInv, NEW q \in Requests,
         \/ FailSend(q)
         \/ Sign(q)
         \/ \E as \in {"declined", "voided"} : Refuse(q, as)
         \/ WebhookIgnored(q)
         \/ VoidRewound(q)
  PROVE  IInv'
<1>1. CASE FailSend(q)
  <2>1. /\ sending' \in [Requests -> Sending]
        /\ \A p \in Requests : sending'[p].on => sending[p].on
    BY <1>1 DEF FailSend, IInv, TypeOK, Sending, NotSending, Stages
  <2>. QED
    BY <1>1, <2>1, EnvelopeStepIInv DEF FailSend, Void, IInv, TypeOK, Envelopes
<1>2. CASE Sign(q)
  BY <1>2, EnvelopeStepIInv DEF Sign, IInv, TypeOK, Envelopes, rowVars
<1>3. CASE \E as \in {"declined", "voided"} : Refuse(q, as)
  BY <1>3, EnvelopeStepIInv DEF Refuse, IInv, TypeOK, Envelopes, rowVars
<1>4. CASE WebhookIgnored(q)
  BY <1>4, EnvelopeStepIInv DEF WebhookIgnored, IInv, TypeOK, rowVars
<1>5. CASE VoidRewound(q)
  BY <1>5, EnvelopeStepIInv DEF VoidRewound, Void, IInv, TypeOK, Envelopes
<1>. QED
  BY <1>1, <1>2, <1>3, <1>4, <1>5

\* A report, or a sync by hand, that leaves the row open.
LEMMA RowStepIInv ==
  ASSUME IInv, NEW q \in Requests,
         \/ WebhookDeclined(q)
         \/ WebhookProgress(q)
         \/ \E as \in {"delivered", "declined"} : SyncByHand(q, as)
  PROVE  IInv'
<1>1. PICK to \in {"delivered", "declined"} :
        /\ request' = [request EXCEPT ![q].status = to]
        /\ request[q].status \in InFlight \cup {"declined"}
        /\ UNCHANGED <<contractVars, sending, txn, sessionVars, toVoid, providerVars>>
  BY DEF WebhookDeclined, WebhookProgress, SyncByHand
<1>2. /\ request' \in [Requests -> Request]
      /\ request'[q].status = to
      /\ \A p \in Requests : request'[p].copy = request[p].copy
      /\ \A p \in Requests \ {q} : request'[p] = request[p]
  BY <1>1 DEF IInv, TypeOK, Request
<1>3. TypeOK'
  BY <1>1, <1>2 DEF IInv, TypeOK, contractVars, providerVars, sessionVars
<1>4. SendOK' /\ TxnOK' /\ RewindOK'
  BY <1>1, <1>2 DEF IInv, SendOK, TxnOK, RewindOK, Locked, InFlight,
                    contractVars, providerVars, sessionVars
<1>5. \A p \in Requests : /\ request[p].status = "completed" => p # q
                          /\ request'[p].status = "completed"
                               <=> request[p].status = "completed"
                          /\ Executed(p)' <=> Executed(p)
  BY <1>1, <1>2 DEF InFlight, Executed
<1>6. CopyOK' /\ CompletedIsSigned' /\ ActiveIsExecuted'
  BY <1>1, <1>2, <1>5 DEF IInv, CopyOK, CompletedIsSigned, ActiveIsExecuted,
                          contractVars, providerVars
<1>. QED
  BY <1>3, <1>4, <1>6 DEF IInv

\* A completion begins, by webhook or by hand.
LEMMA BeginIInv ==
  ASSUME IInv, NEW q \in Requests, WebhookCompleted(q) \/ CompleteByHand(q)
  PROVE  IInv'
<1> DEFINE t == [on |-> TRUE, seen |-> stage]
<1>0. t \in Txn /\ txn' = [txn EXCEPT ![q] = t] /\ txn \in [Requests -> Txn]
  BY DEF WebhookCompleted, CompleteByHand, Begin, IInv, TypeOK, Txn
<1>1. /\ txn' \in [Requests -> Txn]
      /\ \A p \in Requests : txn'[p] = IF p = q THEN t ELSE txn[p]
  BY <1>0
<1>2. /\ forced' \in BOOLEAN /\ (forced => forced')
      /\ forced' \/ envelope[q] = "signed"
      /\ request[q].status \in InFlight \cup {"declined"}
      /\ UNCHANGED <<stage, edits, copies, signedHead, approval, request,
                     sending, rewind, moving, toVoid, envelope, ignored>>
  BY DEF WebhookCompleted, CompleteByHand, Begin, IInv, TypeOK, providerVars,
         sessionVars
<1>3. TypeOK'
  BY <1>1, <1>2 DEF IInv, TypeOK
<1>4. TxnOK'
  BY <1>1, <1>2 DEF IInv, TxnOK, Locked
<1>5. SendOK' /\ RewindOK' /\ CopyOK'
  BY <1>2 DEF IInv, SendOK, RewindOK, CopyOK, Executed
<1>6. CompletedIsSigned' /\ ActiveIsExecuted'
  BY <1>2 DEF IInv, CompletedIsSigned, ActiveIsExecuted, Executed
<1>. QED
  BY <1>3, <1>4, <1>5, <1>6 DEF IInv

\* ... and ends, whatever send-back has read its row.
LEMMA CommitCompletionIInv ==
  ASSUME IInv, NEW q \in Requests, CommitCompletion(q)
  PROVE  IInv'
<1> DEFINE row == [status |-> "completed", copy |-> copies + 1,
                   version |-> request[q].version]
<1>0. /\ row \in Request
      /\ request \in [Requests -> Request]
      /\ request' = [request EXCEPT ![q] = row]
  <2>1. copies \in Nat /\ request \in [Requests -> Request]
    BY DEF IInv, TypeOK
  <2>2. row \in Request
    BY <2>1 DEF Request
  <2>. QED
    BY <2>1, <2>2 DEF CommitCompletion
<1>1. /\ request' \in [Requests -> Request]
      /\ request'[q].status = "completed" /\ request'[q].copy = copies + 1
      /\ \A p \in Requests \ {q} : request'[p] = request[p]
  BY <1>0
<1>2. /\ txn' \in [Requests -> Txn]
      /\ \A p \in Requests : txn'[p] = IF p = q THEN NoTxn ELSE txn[p]
  BY DEF CommitCompletion, IInv, TypeOK, Txn, NoTxn, Stages
<1>3. /\ Locked(q)
      /\ copies' = copies + 1 /\ copies \in Nat
      /\ stage' = "active" /\ signedHead' = TRUE
      /\ UNCHANGED <<edits, approval, forced, sending, rewind, moving, toVoid,
                     envelope, ignored>>
  BY DEF CommitCompletion, MayCommit, IInv, TypeOK, providerVars, sessionVars
<1>4. TypeOK'
  BY <1>1, <1>2, <1>3 DEF IInv, TypeOK, Stages
<1>5. request[q].status # "none" /\ ~sending[q].on
  BY <1>3 DEF IInv, TxnOK, SendOK, InFlight
<1>6. SendOK' /\ TxnOK' /\ RewindOK'
  <2>1. rewind.read \subseteq Requests
    BY DEF IInv, TypeOK, Rewinding
  <2>2. RewindOK'
    BY <1>1, <1>3, <2>1 DEF IInv, RewindOK
  <2>. QED
    BY <1>1, <1>2, <1>3, <1>5, <2>2 DEF IInv, SendOK, TxnOK, Locked, NoTxn
<1>7. CopyOK'
  <2>1. \A p \in Requests : /\ request[p].copy \in Nat
                            /\ request[p].copy <= copies
                            /\ request[p].status = "none" => request[p].copy = 0
    BY DEF IInv, TypeOK, CopyOK, Request
  <2>2. \A p \in Requests : request[p].status = "completed" => request[p].copy > 0
    BY DEF IInv, CopyOK
  <2>. QED
    BY <1>1, <1>3, <2>1, <2>2 DEF CopyOK, Executed
<1>8. CompletedIsSigned' /\ ActiveIsExecuted'
  BY <1>1, <1>3 DEF IInv, TxnOK, CompletedIsSigned, ActiveIsExecuted, Executed
<1>. QED
  BY <1>4, <1>6, <1>7, <1>8 DEF IInv

LEMMA FailCompletionIInv ==
  ASSUME IInv, NEW q \in Requests, FailCompletion(q)
  PROVE  IInv'
<1>1. /\ txn' \in [Requests -> Txn]
      /\ \A p \in Requests : txn'[p] = IF p = q THEN NoTxn ELSE txn[p]
  BY DEF FailCompletion, IInv, TypeOK, Txn, NoTxn, Stages
<1>2. TypeOK' /\ TxnOK'
  BY <1>1 DEF FailCompletion, IInv, TypeOK, TxnOK, Locked, NoTxn, contractVars,
              providerVars, sessionVars
<1>3. SendOK' /\ RewindOK' /\ CopyOK' /\ CompletedIsSigned' /\ ActiveIsExecuted'
  BY DEF FailCompletion, IInv, SendOK, RewindOK, CopyOK, CompletedIsSigned,
         ActiveIsExecuted, Executed, contractVars, providerVars, sessionVars
<1>. QED
  BY <1>2, <1>3 DEF IInv

\* A send-back reads rows that are in flight, and voids them even if they were
\* completed since; what such a row filed stays with it.
LEMMA RewindIInv ==
  ASSUME IInv, Rewind
  PROVE  IInv'
<1>1. CASE ReadForRewind
  <2>1. rewind' \in Rewinding
    <3>1. rewind'.found \in [Versions -> Approval]
      BY <1>1 DEF ReadForRewind, IInv, TypeOK, Approval, NoApproval, Verdicts
    <3>. QED
      BY <1>1, <3>1 DEF ReadForRewind, Rewinding
  <2>2. TypeOK' /\ RewindOK'
    BY <1>1, <2>1
       DEF ReadForRewind, IInv, TypeOK, RewindOK, contractVars, providerVars
  <2>3. SendOK' /\ TxnOK' /\ CopyOK' /\ CompletedIsSigned' /\ ActiveIsExecuted'
    BY <1>1 DEF ReadForRewind, IInv, SendOK, TxnOK, Locked, CopyOK, Executed,
                CompletedIsSigned, ActiveIsExecuted, contractVars, providerVars
  <2>. QED
    BY <2>2, <2>3 DEF IInv
<1>2. CASE CommitRewind
  <2>1. /\ rewind.read \subseteq Requests
        /\ \A q \in rewind.read :
             request[q].status \in InFlight \cup {"declined", "completed"}
    BY <1>2 DEF CommitRewind, IInv, TypeOK, Rewinding, RewindOK
  <2>2. /\ request' \in [Requests -> Request]
        /\ \A q \in rewind.read :
             request'[q].status = "voided" /\ request'[q].copy = request[q].copy
        /\ \A q \in Requests \ rewind.read : request'[q] = request[q]
    BY <1>2, <2>1 DEF CommitRewind, IInv, TypeOK, Request
  <2>3. \A q \in Requests :
          /\ request'[q].status = "completed" => request[q].status = "completed"
          /\ request'[q].status = "none" <=> request[q].status = "none"
          /\ request'[q].copy = request[q].copy
    BY <2>1, <2>2 DEF InFlight
  <2>4. \A q \in Requests : Executed(q) => Executed(q)'
    BY <2>2 DEF Executed, IInv, CopyOK
  <2>5. approval' \in [Versions -> Approval]
    BY <1>2 DEF CommitRewind, Cancelled, IInv, TypeOK, Rewinding, Approval
  <2>6. TypeOK'
    BY <1>2, <2>1, <2>2, <2>5, NoRewindType
       DEF CommitRewind, IInv, TypeOK, Stages, providerVars
  <2>7. TxnOK'
    <3>1. \A q \in Requests : Locked(q) => q \notin rewind.read
      BY <1>2 DEF CommitRewind
    <3>. QED
      BY <1>2, <2>2, <3>1 DEF CommitRewind, IInv, TxnOK, Locked, providerVars
  <2>8. SendOK' /\ RewindOK' /\ CopyOK'
    BY <1>2, <2>3, <2>4
       DEF CommitRewind, IInv, SendOK, RewindOK, CopyOK, NoRewind, providerVars
  <2>9. CompletedIsSigned' /\ ActiveIsExecuted'
    BY <1>2, <2>3
       DEF CommitRewind, IInv, CompletedIsSigned, ActiveIsExecuted, providerVars
  <2>. QED
    BY <2>6, <2>7, <2>8, <2>9 DEF IInv
<1>3. CASE FailRewind
  <2>1. TypeOK' /\ RewindOK'
    BY <1>3, NoRewindType
       DEF FailRewind, IInv, TypeOK, RewindOK, NoRewind, contractVars, providerVars
  <2>2. SendOK' /\ TxnOK' /\ CopyOK' /\ CompletedIsSigned' /\ ActiveIsExecuted'
    BY <1>3 DEF FailRewind, IInv, SendOK, TxnOK, Locked, CopyOK, Executed,
                CompletedIsSigned, ActiveIsExecuted, contractVars, providerVars
  <2>. QED
    BY <2>1, <2>2 DEF IInv
<1>. QED
  BY <1>1, <1>2, <1>3 DEF Rewind

\* A step that moves the contract but leaves its rows: it becomes active only
\* with a signed copy on file, or by an override.
LEMMA ContractStepIInv ==
  ASSUME IInv,
         UNCHANGED <<copies, request, sending, txn, toVoid, providerVars>>,
         rewind' \in Rewinding,
         rewind'.on = rewind.on, rewind'.read = rewind.read,
         moving' \in Stages \cup {"none"},
         stage' \in Stages, edits' \in Versions, signedHead' \in BOOLEAN,
         approval' \in [Versions -> Approval], forced' \in BOOLEAN,
         forced => forced',
         stage' = "active" => stage = "active" \/ copies > 0 \/ forced'
  PROVE  IInv'
<1>1. TypeOK'
  BY DEF IInv, TypeOK, providerVars
<1>2. SendOK' /\ TxnOK' /\ RewindOK' /\ CopyOK' /\ CompletedIsSigned'
  BY DEF IInv, SendOK, TxnOK, RewindOK, CopyOK, Executed, Locked,
         CompletedIsSigned, providerVars
<1>3. ActiveIsExecuted'
  BY DEF IInv, CopyOK, ActiveIsExecuted, Executed, providerVars
<1>. QED
  BY <1>1, <1>2, <1>3 DEF IInv

LEMMA ContractIInv ==
  ASSUME IInv,
         \/ Submit
         \/ \E v \in Versions, verdict \in {"approved", "rejected"} :
              Decide(v, verdict)
         \/ NewVersion
         \/ LoadForMove \/ LeaveMove
         \/ \E to \in Stages : MoveStage(to) \/ ForceStage(to)
  PROVE  IInv'
<1>1. CASE Submit
  <2>1. approval' \in [Versions -> Approval]
    BY <1>1 DEF Submit, IInv, TypeOK, Approval
  <2>2. edits \in Versions /\ rewind \in Rewinding /\ NoApproval \in Approval
    BY DEF IInv, TypeOK, NoApproval, Approval, Verdicts
  <2>3. /\ rewind' = [rewind EXCEPT !.found = [@ EXCEPT ![edits] = NoApproval]]
        /\ rewind'.on = rewind.on /\ rewind'.read = rewind.read
    BY <1>1, <2>2 DEF Submit, Rewinding
  <2>4. rewind' \in Rewinding
    BY <2>2, <2>3 DEF Rewinding
  <2>. QED
    BY <1>1, <2>1, <2>3, <2>4, ContractStepIInv DEF Submit, IInv, TypeOK, Stages
<1>2. CASE \E v \in Versions, verdict \in {"approved", "rejected"} :
             Decide(v, verdict)
  <2>1. approval' \in [Versions -> Approval]
    BY <1>2 DEF Decide, IInv, TypeOK, Approval, Verdicts
  <2>. QED
    BY <1>2, <2>1, ContractStepIInv
       DEF Decide, IInv, TypeOK, Stages, rowVars, sessionVars
<1>3. CASE NewVersion
  <2>1. edits' \in Versions
    BY <1>3 DEF NewVersion, IInv, TypeOK, Versions
  <2>. QED
    BY <1>3, <2>1, ContractStepIInv
       DEF NewVersion, IInv, TypeOK, rowVars, sessionVars
<1>4. CASE LoadForMove \/ LeaveMove
  BY <1>4, ContractStepIInv DEF LoadForMove, LeaveMove, IInv, TypeOK, contractVars
<1>5. CASE \E to \in Stages : MoveStage(to)
  BY <1>5, ContractStepIInv DEF MoveStage, Move, IInv, TypeOK
<1>6. CASE \E to \in Stages : ForceStage(to)
  BY <1>6, ContractStepIInv DEF ForceStage, Move, IInv, TypeOK
<1>. QED
  BY <1>1, <1>2, <1>3, <1>4, <1>5, <1>6

LEMMA NextIInv ==
  ASSUME IInv, [Next]_vars
  PROVE  IInv'
<1>1. CASE UNCHANGED vars
  BY <1>1 DEF vars, IInv, TypeOK, SendOK, TxnOK, RewindOK, CopyOK, Executed,
              Locked, CompletedIsSigned, ActiveIsExecuted
<1>2. ASSUME NEW q \in Requests,
             \/ \E v \in Versions : Dispatch(q, v)
             \/ CommitSend(q)
             \/ FailSend(q)
             \/ Sign(q)
             \/ \E as \in {"declined", "voided"} : Refuse(q, as)
             \/ Webhook(q)
             \/ Complete(q)
             \/ \E as \in {"delivered", "declined"} : SyncByHand(q, as)
             \/ VoidRewound(q)
      PROVE  IInv'
  BY <1>2, DispatchIInv, CommitSendIInv, ProviderIInv, RowStepIInv, BeginIInv,
     CommitCompletionIInv, FailCompletionIInv DEF Webhook, Complete
<1>3. CASE Rewind
  BY <1>3, RewindIInv
<1>4. CASE \/ Submit
           \/ \E v \in Versions, verdict \in {"approved", "rejected"} :
                Decide(v, verdict)
           \/ NewVersion
           \/ LoadForMove \/ LeaveMove
           \/ \E to \in Stages : MoveStage(to) \/ ForceStage(to)
  BY <1>4, ContractIInv
<1>. QED
  BY <1>1, <1>2, <1>3, <1>4 DEF Next

-----------------------------------------------------------------------------
(***************************************************************************)
(* What follows for the specification.                                     *)
(***************************************************************************)
LEMMA Invariance == Spec => []IInv
<1>1. IInv /\ [Next]_vars => IInv'
  BY NextIInv
<1>. QED
  BY InitIInv, <1>1, PTL DEF Spec

\* Every row, send, completion and envelope is in a state the code knows.
THEOREM TypeCorrect == Spec => []TypeOK
<1>1. IInv => TypeOK
  BY DEF IInv
<1>. QED
  BY Invariance, <1>1, PTL

\* Without an override no request is completed that its signers did not sign,
\* for any number of requests racing with each other and with a send-back.
THEOREM CompletedSigned == Spec => []CompletedIsSigned
<1>1. IInv => CompletedIsSigned
  BY DEF IInv
<1>. QED
  BY Invariance, <1>1, PTL

\* Without an override no contract is active that no completed request made so.
THEOREM ActiveExecuted == Spec => []ActiveIsExecuted
<1>1. IInv => ActiveIsExecuted
  BY DEF IInv
<1>. QED
  BY Invariance, <1>1, PTL

-----------------------------------------------------------------------------
(***************************************************************************)
(* The rows implement Execution.                                           *)
(***************************************************************************)
LEMMA OutcomeValues ==
  /\ OutcomeOf("none") = "unsent"
  /\ OutcomeOf("sent") = "out" /\ OutcomeOf("delivered") = "out"
  /\ OutcomeOf("declined") = "declined"
  /\ OutcomeOf("completed") = "executed" /\ OutcomeOf("voided") = "void"
BY DEF OutcomeOf, InFlight

\* A step that leaves what every row says, and what was called back, is none of
\* Execution's.
LEMMA StutterStep ==
  ASSUME UNCHANGED rewind.read,
         \A q \in Requests :
           /\ OutcomeOf(request'[q].status) = OutcomeOf(request[q].status)
           /\ request'[q].copy = request[q].copy
  PROVE  UNCHANGED Promise!vars
BY DEF Promise!vars

\* One row goes from an outcome in "from" to another.
LEMMA BecomeStep ==
  ASSUME NEW q \in Requests, NEW from, NEW to,
         UNCHANGED sessionVars,
         OutcomeOf(request[q].status) \in from,
         OutcomeOf(request'[q].status) = to,
         \A p \in Requests \ {q} : request'[p] = request[p]
  PROVE  Promise!Become(q, from, to)
BY DEF Promise!Become, sessionVars

LEMMA SameCopies ==
  ASSUME \A q \in Requests : request'[q].copy = request[q].copy
  PROVE  UNCHANGED [q \in Requests |-> request[q].copy]
OBVIOUS

\* Recording a send sends.
LEMMA SendStep ==
  ASSUME IInv, NEW q \in Requests, CommitSend(q)
  PROVE  Promise!Send(q)
<1>1. request[q].status = "none" /\ request[q].copy = 0
  BY DEF CommitSend, IInv, SendOK, CopyOK
<1>2. /\ request'[q].status = "sent" /\ request'[q].copy = 0
      /\ UNCHANGED sessionVars
      /\ \A p \in Requests \ {q} : request'[p] = request[p]
  BY DEF CommitSend, IInv, TypeOK
<1>3. Promise!Become(q, {"unsent"}, "out")
  BY <1>1, <1>2, OutcomeValues, BecomeStep
<1>4. UNCHANGED [p \in Requests |-> request[p].copy]
  BY <1>1, <1>2, SameCopies
<1>. QED
  BY <1>3, <1>4 DEF Promise!Send

\* A report or a sync declines a row, reopens a declined one or says nothing new.
LEMMA RowStep ==
  ASSUME IInv, NEW q \in Requests,
         \/ WebhookDeclined(q)
         \/ WebhookProgress(q)
         \/ \E as \in {"delivered", "declined"} : SyncByHand(q, as)
  PROVE  \/ Promise!Decline(q)
         \/ Promise!Reopen(q)
         \/ UNCHANGED Promise!vars
<1>1. PICK to \in {"delivered", "declined"} :
        /\ request' = [request EXCEPT ![q].status = to]
        /\ request[q].status \in InFlight \cup {"declined"}
        /\ UNCHANGED sessionVars
  BY DEF WebhookDeclined, WebhookProgress, SyncByHand
<1>2. /\ request'[q].status = to
      /\ \A p \in Requests \ {q} : request'[p] = request[p]
      /\ \A p \in Requests : request'[p].copy = request[p].copy
  BY <1>1 DEF IInv, TypeOK, Request
<1>3. UNCHANGED [p \in Requests |-> request[p].copy]
  BY <1>2, SameCopies
<1>4. OutcomeOf(request[q].status) \in {"out", "declined"}
  BY <1>1, OutcomeValues DEF InFlight
<1>5. CASE to = "declined"
  <2>1. Promise!Become(q, Promise!Live, "declined")
    BY <1>1, <1>2, <1>4, <1>5, OutcomeValues, BecomeStep DEF Promise!Live
  <2>. QED
    BY <1>3, <2>1 DEF Promise!Decline
<1>6. CASE to = "delivered" /\ request[q].status = "declined"
  <2>1. Promise!Become(q, {"declined"}, "out")
    BY <1>1, <1>2, <1>6, OutcomeValues, BecomeStep
  <2>. QED
    BY <1>3, <2>1 DEF Promise!Reopen
<1>7. CASE to = "delivered" /\ request[q].status \in InFlight
  <2>1. \A p \in Requests :
          OutcomeOf(request'[p].status) = OutcomeOf(request[p].status)
    BY <1>2, <1>7, OutcomeValues DEF InFlight
  <2>. QED
    BY <1>1, <1>2, <2>1, StutterStep DEF sessionVars
<1>. QED
  BY <1>1, <1>5, <1>6, <1>7

\* Committing a completion files a copy that no row had.
LEMMA ExecuteStep ==
  ASSUME IInv, NEW q \in Requests, CommitCompletion(q)
  PROVE  Promise!Execute(q)
<1> DEFINE copy == [p \in Requests |-> request[p].copy]
<1>1. /\ request'[q].status = "completed" /\ request'[q].copy = copies + 1
      /\ UNCHANGED sessionVars
      /\ \A p \in Requests \ {q} : request'[p] = request[p]
  BY DEF CommitCompletion, IInv, TypeOK
<1>2. request[q].status \in InFlight \cup {"declined"}
  BY DEF CommitCompletion, MayCommit, IInv, TxnOK
<1>3. Promise!Become(q, Promise!Live, "executed")
  BY <1>1, <1>2, OutcomeValues, BecomeStep DEF Promise!Live, InFlight
<1>4. \A p \in Requests : /\ request[p].copy \in Nat /\ copies \in Nat
                          /\ request[p].copy <= copies
  BY DEF IInv, TypeOK, CopyOK, Request
<1>5. copies + 1 \in Nat \ {request[p].copy : p \in Requests}
  BY <1>4
<1>6. copy' = [copy EXCEPT ![q] = copies + 1]
  BY <1>1
<1>7. copy'[q] = copies + 1
  BY <1>1
<1>8. {copy[p] : p \in Requests} = {request[p].copy : p \in Requests}
  OBVIOUS
<1>. QED
  BY <1>3, <1>5, <1>6, <1>7, <1>8 DEF Promise!Execute

\* A send-back calls back what it reads ...
LEMMA CallStep ==
  ASSUME IInv, ReadForRewind
  PROVE  Promise!Call
<1>1. rewind.read = {} /\ UNCHANGED request
  BY DEF ReadForRewind, IInv, RewindOK
<1>2. rewind'.read = {q \in Requests : request[q].status \in InFlight}
  BY DEF ReadForRewind
<1>3. \A q \in Requests : request[q].status \in InFlight
                             <=> OutcomeOf(request[q].status) = "out"
  <2>1. \A q \in Requests : request[q].status \in {"none", "sent", "delivered",
                                      "completed", "declined", "voided"}
    BY DEF IInv, TypeOK, Request
  <2>. QED
    BY <2>1, OutcomeValues DEF InFlight
<1>. QED
  BY <1>1, <1>2, <1>3 DEF Promise!Call

\* ... and withdraws it.
LEMMA WithdrawStep ==
  ASSUME IInv, CommitRewind
  PROVE  Promise!Withdraw
<1>1. /\ \A q \in rewind.read :
           request'[q].status = "voided" /\ request'[q].copy = request[q].copy
      /\ \A q \in Requests \ rewind.read : request'[q] = request[q]
      /\ rewind'.read = {}
  BY DEF CommitRewind, IInv, TypeOK, Rewinding, Request, NoRewind
<1>2. UNCHANGED [q \in Requests |-> request[q].copy]
  BY <1>1, SameCopies
<1>3. \A q \in Requests : OutcomeOf(request'[q].status)
           = IF q \in rewind.read THEN "void" ELSE OutcomeOf(request[q].status)
  BY <1>1, OutcomeValues
<1>. QED
  BY <1>1, <1>2, <1>3 DEF Promise!Withdraw

LEMMA PromiseStep ==
  ASSUME IInv, [Next]_vars
  PROVE  [Promise!Next]_(Promise!vars)
<1>1. CASE UNCHANGED <<request, rewind.read>>
  BY <1>1, StutterStep
<1>2. ASSUME NEW q \in Requests, CommitSend(q)
      PROVE  Promise!Next
  BY <1>2, SendStep DEF Promise!Next
<1>3. ASSUME NEW q \in Requests,
             \/ WebhookDeclined(q)
             \/ WebhookProgress(q)
             \/ \E as \in {"delivered", "declined"} : SyncByHand(q, as)
      PROVE  [Promise!Next]_(Promise!vars)
  BY <1>3, RowStep DEF Promise!Next
<1>4. ASSUME NEW q \in Requests, CommitCompletion(q)
      PROVE  Promise!Next
  BY <1>4, ExecuteStep DEF Promise!Next
<1>5. ASSUME ReadForRewind \/ CommitRewind
      PROVE  Promise!Next
  BY <1>5, CallStep, WithdrawStep DEF Promise!Next
<1>6. ASSUME FailRewind
      PROVE  Promise!Next
  <2>1. UNCHANGED request /\ rewind'.read = {}
    BY <1>6 DEF FailRewind, NoRewind
  <2>. QED
    BY <2>1 DEF Promise!Next, Promise!Forget
<1>7. ASSUME Submit
      PROVE  UNCHANGED <<request, rewind.read>>
  BY <1>7 DEF Submit, IInv, TypeOK, Rewinding
<1>8. \/ UNCHANGED <<request, rewind.read>>
      \/ \E q \in Requests :
           \/ CommitSend(q)
           \/ WebhookDeclined(q)
           \/ WebhookProgress(q)
           \/ \E as \in {"delivered", "declined"} : SyncByHand(q, as)
           \/ CommitCompletion(q)
      \/ ReadForRewind \/ CommitRewind
      \/ FailRewind
      \/ Submit
  BY DEF Next, vars, Webhook, Complete, Rewind, Dispatch, FailSend, Sign, Refuse,
         WebhookIgnored, WebhookCompleted, CompleteByHand, Begin, FailCompletion,
         VoidRewound, Decide, NewVersion, LoadForMove, LeaveMove, MoveStage,
         ForceStage, Move, rowVars, sessionVars
<1>. QED
  BY <1>1, <1>2, <1>3, <1>4, <1>5, <1>6, <1>7, <1>8

\* Any number of requests, sent, repeated, recalled and synced in any order, do
\* what Execution promises of them.
THEOREM PromiseKept == Spec => KeepsPromise
<1>1. Init => Promise!Init
  BY OutcomeValues DEF Init, NoRequest, NoRewind, Promise!Init
<1>2. IInv /\ [Next]_vars => [Promise!Next]_(Promise!vars)
  BY PromiseStep
<1>. QED
  BY Invariance, <1>1, <1>2, PTL DEF Spec, KeepsPromise, Promise!Spec
=============================================================================
