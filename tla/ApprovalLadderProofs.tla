------------------------ MODULE ApprovalLadderProofs ------------------------
(***************************************************************************)
(* Proofs about ApprovalLadder, for any people, rungs and versions.        *)
(***************************************************************************)
EXTENDS ApprovalLadder, FiniteSetTheorems, TLAPS

-----------------------------------------------------------------------------
(***************************************************************************)
(* The inductive invariant.                                                *)
(***************************************************************************)
\* Rungs not filed yet are blank.
FiledOK == \A r \in Rungs : r > filed =>
             rung[r].status = "none" /\ decisions[r] = <<>>

\* The decision in flight is on an open rung: its row lock keeps everybody
\* else from closing it.  Its author has not decided the rung and may, and
\* still has the token it came with.
TxnOK == ~Idle =>
  /\ Live(txn.rung)
  /\ txn.by \notin Deciding(txn.rung)
  /\ txn.verdict = "approve" =>
       txn.by \in Covered /\ (txn.by = rung[txn.rung].by => txn.by \in Admins)
  /\ txn.via = "token" => tokens[txn.rung][txn.by] > 0

\* What a rung in mode "all" needs is its whole snapshot.
SnapshotOK == \A r \in Rungs : rung[r].mode = "all" =>
  /\ rung[r].required # {}
  /\ rung[r].needed = Cardinality(rung[r].required)

\* What a submission is about to ask, it may: its contract was not past
\* Approval, and the team it asks all of had somebody in it.
AskedOK == \A c \in Calls :
  /\ session[c].question.mode = "all" => session[c].question.team # {}
  /\ session[c].at = "asking" => session[c].stage \in {"review", "approval"}

\* One submission at a time has the contract locked, and while it has it no
\* rung of its version is open that was filed by another one like it.
HoldOK == \A c \in Calls : HoldsContract(c) =>
  /\ \A d \in Calls : HoldsContract(d) => d = c
  /\ \A s \in Rungs : Live(s) /\ rung[s].version = session[c].version
                       => rung[s].found # "review"

\* A closing in flight read rungs that had been filed.
ClosingOK == \A r \in closing.read : r <= filed

IInv == /\ TypeOK /\ FiledOK /\ TxnOK /\ SnapshotOK /\ ClosingOK
        /\ AskedOK /\ HoldOK
        /\ OneVoice /\ QuorumHonoured /\ NoLostQuorum /\ ApproversEntitled
        /\ ReviewAskedOnce /\ VerdictsAgree

USE UsersAssumption, BoundsAssumption

-----------------------------------------------------------------------------
LEMMA InitIInv == Init => IInv
<1> SUFFICES ASSUME Init PROVE IInv
  OBVIOUS
<1>1. TypeOK
  BY DEF Init, TypeOK, Stages, Rungs, Rung, NoRung, Holders, Modes, NoTxn, Txn,
         NotClosing, Verdicts, NoSession, Session, NoQuestion, Question
<1>2. FiledOK /\ TxnOK /\ SnapshotOK /\ ClosingOK /\ AskedOK /\ HoldOK
  BY DEF Init, FiledOK, TxnOK, SnapshotOK, ClosingOK, AskedOK, HoldOK, NoRung,
         NoTxn, NotClosing, NoSession, NoQuestion, HoldsContract, Idle
<1>3. OneVoice /\ QuorumHonoured /\ ApproversEntitled /\ ReviewAskedOnce
  BY DEF Init, OneVoice, QuorumHonoured, ApproversEntitled, ReviewAskedOnce,
         NoRung, Live, Approvers
<1>4. VerdictsAgree /\ NoLostQuorum
  BY DEF Init, VerdictsAgree, NoLostQuorum, NoRung
<1>. QED
  BY <1>1, <1>2, <1>3, <1>4 DEF IInv

\* Filing a rung.
LEMMA FileIInv == ASSUME IInv, NEW c \in Calls, FileRung(c) PROVE IInv'
<1> DEFINE r == filed + 1
           new == rung'[r]
           q == session[c].question
           mode == q.mode
<1> USE DEF IInv
<1>0. /\ session[c] \in Session /\ q.team \subseteq Users /\ q.holder \in Holders
      /\ mode \in Modes /\ q.by \in Users \cup {Nobody}
      /\ session[c].version \in Nat /\ session[c].stage \in {"review", "approval"}
  BY DEF TypeOK, Session, Question, NoQuestion, NoRung, Holders, Modes, AskedOK,
         FileRung
<1>1. r \in Rungs /\ rung[r].status = "none" /\ decisions[r] = <<>>
  BY DEF FileRung, FiledOK, TypeOK, Rungs
<1>2. \A s \in Rungs : s # r => rung'[s] = rung[s]
  BY DEF FileRung, TypeOK
<1>3. /\ new.status = "pending" /\ new.version = session[c].version
      /\ new.found = session[c].stage /\ new.mode = mode
      /\ mode = "all" => new.required = q.team /\ new.needed = Cardinality(q.team)
  BY <1>1 DEF FileRung, TypeOK
<1>4. mode = "all" => q.team # {}
  BY DEF AskedOK
<1>5. TypeOK'
  <2>1. Cardinality(q.team) \in Nat
    BY <1>0, FS_Subset, FS_CardinalityType
  <2>2. rung' \in [Rungs -> Rung]
    BY <1>0, <1>1, <2>1 DEF FileRung, TypeOK, Rung, Stages
  <2>3. tokens' \in [Rungs -> [Users -> Nat]]
    BY <1>1 DEF FileRung, TypeOK, Issued
  <2>4. filed' \in 0..MaxRungs
    BY DEF FileRung, TypeOK
  <2>5. stage' \in Stages
    BY DEF FileRung, Stages, TypeOK
  <2>6. session' \in [Calls -> Session]
    BY DEF FileRung, TypeOK, NoSession, Session, Stages
  <2>. QED
    BY <2>2, <2>3, <2>4, <2>5, <2>6 DEF FileRung, TypeOK
<1>6. FiledOK'
  <2> SUFFICES ASSUME NEW s \in Rungs, s > filed'
               PROVE  rung'[s].status = "none" /\ decisions'[s] = <<>>
    BY DEF FiledOK
  <2>1. s # r /\ s > filed
    BY DEF FileRung, TypeOK, Rungs
  <2>. QED
    BY <1>2, <2>1 DEF FileRung, FiledOK
<1>7. TxnOK'
  <2>1. ~Idle => txn.rung # r /\ txn.rung \in Rungs
    BY <1>1 DEF TxnOK, TypeOK, Live, Txn, NoTxn, Idle
  <2>2. ~Idle => tokens'[txn.rung] = tokens[txn.rung]
    BY <2>1 DEF FileRung, Issued, TypeOK
  <2>. QED
    BY <1>2, <2>1, <2>2 DEF FileRung, TxnOK, Live, Deciding, Idle
<1>8. SnapshotOK'
  BY <1>1, <1>2, <1>3, <1>4 DEF SnapshotOK
<1>9. OneVoice'
  BY DEF FileRung, OneVoice
<1>10. QuorumHonoured'
  <2> SUFFICES ASSUME NEW s \in Rungs, rung'[s].status = "approved"
               PROVE  /\ Approvers(s)' # {}
                      /\ rung'[s].mode = "all" =>
                           rung'[s].required \subseteq Approvers(s)'
    BY DEF QuorumHonoured
  <2>1. rung'[s] = rung[s]
    BY <1>2, <1>3
  <2>2. Approvers(s)' = Approvers(s)
    BY DEF FileRung, Approvers
  <2>. QED
    BY <2>1, <2>2 DEF QuorumHonoured
<1>11. ApproversEntitled'
  BY <1>1, <1>2 DEF FileRung, ApproversEntitled, Approvers
<1>12. ReviewAskedOnce'
  <2>1. ASSUME NEW s \in Rungs, s # r, Live(s)', new.found = "review",
               rung'[s].version = new.version, rung'[s].found = "review"
        PROVE  FALSE
    <3>1. HoldsContract(c)
      BY <1>3, <2>1 DEF HoldsContract, FileRung
    <3>2. Live(s) /\ rung[s].version = session[c].version /\ rung[s].found = "review"
      BY <1>2, <1>3, <2>1 DEF Live
    <3>. QED
      BY <3>1, <3>2 DEF HoldOK
  <2> SUFFICES ASSUME NEW s \in Rungs, NEW t \in Rungs, Live(s)', Live(t)',
                      rung'[s].version = rung'[t].version,
                      rung'[s].found = "review", rung'[t].found = "review"
               PROVE  s = t
    BY DEF ReviewAskedOnce
  <2>2. CASE s # r /\ t # r
    BY <1>2, <2>2 DEF ReviewAskedOnce, Live
  <2>. QED
    BY <2>1, <2>2
<1>13. VerdictsAgree'
  BY <1>1, <1>2, <1>3 DEF FileRung, VerdictsAgree
<1>14. ClosingOK'
  BY DEF FileRung, ClosingOK, TypeOK, Rungs
<1>15. NoLostQuorum'
  <2> SUFFICES ASSUME NEW s \in Rungs, rung'[s].status = "pending",
                      rung'[s].mode = "all"
               PROVE  ~ rung'[s].required \subseteq Approvers(s)'
    BY DEF NoLostQuorum
  <2>1. Approvers(s)' = Approvers(s)
    BY DEF FileRung, Approvers
  <2>2. CASE s # r
    BY <1>2, <2>1, <2>2 DEF NoLostQuorum
  <2>3. CASE s = r
    <3>1. Approvers(s) = {}
      BY <1>1, <2>3 DEF Approvers
    <3>. QED
      BY <1>3, <1>4, <2>1, <2>3, <3>1
  <2>. QED
    BY <2>2, <2>3
<1>16. AskedOK'
  BY DEF FileRung, AskedOK, TypeOK, NoSession, NoQuestion
<1>17. HoldOK'
  <2> SUFFICES ASSUME NEW d \in Calls, HoldsContract(d)'
               PROVE  /\ \A e \in Calls : HoldsContract(e)' => e = d
                      /\ \A s \in Rungs :
                           Live(s)' /\ rung'[s].version = session'[d].version
                           => rung'[s].found # "review"
    BY DEF HoldOK
  <2>1. \A e \in Calls : HoldsContract(e)' =>
          e # c /\ session'[e] = session[e] /\ HoldsContract(e)
    BY DEF FileRung, TypeOK, HoldsContract, NoSession
  <2>2. \A e \in Calls : HoldsContract(e)' => e = d
    BY <2>1 DEF HoldOK
  <2>3. session[c].stage # "review"
    BY <2>1 DEF HoldOK, HoldsContract, FileRung
  <2>4. ASSUME NEW s \in Rungs, Live(s)', rung'[s].version = session'[d].version
        PROVE  rung'[s].found # "review"
    <3>1. CASE s = r
      BY <1>3, <2>3, <3>1
    <3>2. CASE s # r
      BY <1>2, <2>1, <2>4, <3>2 DEF HoldOK, Live
    <3>. QED
      BY <3>1, <3>2
  <2>. QED
    BY <2>2, <2>4
<1>. QED
  BY <1>16, <1>17, <1>5, <1>6, <1>7, <1>8, <1>9, <1>10, <1>11, <1>12, <1>13, <1>14, <1>15

\* Starting a decision.
LEMMA BeginIInv == ASSUME IInv, Begin PROVE IInv'
<1> USE DEF IInv
<1> PICK u \in Users, r \in Rungs, verdict \in Verdicts :
      BeginInApp(u, r, verdict) \/ BeginWithToken(u, r, verdict)
  BY DEF Begin
<1>1. /\ UNCHANGED <<stage, version, team, active, filed, rung, decisions,
                     tokens, open, closing, session>>
      /\ Live(r) /\ u \notin Deciding(r)
      /\ verdict = "approve" => u \in Covered
  BY DEF BeginInApp, BeginWithToken, MayBegin
<1>2. \E via \in {"app", "token"} :
        /\ txn' = [rung |-> r, by |-> u, verdict |-> verdict, via |-> via]
        /\ via = "token" => tokens[r][u] > 0
  BY DEF BeginInApp, BeginWithToken
<1>3. u = rung[r].by => u \in Admins
  BY DEF BeginInApp, BeginWithToken, Eligible
<1>4. TypeOK'
  BY <1>1, <1>2 DEF TypeOK, Txn
<1>5. TxnOK'
  BY <1>1, <1>2, <1>3 DEF TxnOK, Live, Deciding
<1>6. FiledOK' /\ SnapshotOK' /\ ClosingOK' /\ OneVoice' /\ VerdictsAgree'
  BY <1>1 DEF FiledOK, SnapshotOK, ClosingOK, OneVoice, VerdictsAgree
<1>9. AskedOK' /\ HoldOK'
  BY <1>1 DEF AskedOK, HoldOK, HoldsContract, Live
<1>7. QuorumHonoured' /\ NoLostQuorum' /\ ApproversEntitled'
  BY <1>1 DEF QuorumHonoured, NoLostQuorum, ApproversEntitled, Approvers
<1>8. ReviewAskedOnce'
  BY <1>1 DEF ReviewAskedOnce, Live
<1>. QED
  BY <1>4, <1>5, <1>6, <1>7, <1>8, <1>9

-----------------------------------------------------------------------------
(***************************************************************************)
(* Committing a decision.                                                  *)
(***************************************************************************)
\* What one more decision does to the two sets read off the record.
LEMMA AppendedDecision ==
  ASSUME NEW ds \in Seq(Decision), NEW d \in Decision
  PROVE  LET es == Append(ds, d) IN
         /\ es \in Seq(Decision)
         /\ DOMAIN es = DOMAIN ds \cup {Len(ds) + 1}
         /\ Len(ds) + 1 \notin DOMAIN ds
         /\ es[Len(ds) + 1] = d
         /\ \A i \in DOMAIN ds : es[i] = ds[i]
  OBVIOUS

\* What every committed decision keeps: the record grows by one decision of
\* somebody new.
LEMMA RecordKeeps ==
  ASSUME IInv, ~Idle, Record
  PROVE  /\ tokens' \in [Rungs -> [Users -> Nat]]
         /\ decisions' \in [Rungs -> Seq(Decision)]
         /\ txn.rung \in Rungs /\ txn.by \in Users
         /\ OneVoice'
         /\ decisions'[txn.rung] =
              Append(decisions[txn.rung], [by |-> txn.by, verdict |-> txn.verdict])
         /\ \A s \in Rungs : s # txn.rung => decisions'[s] = decisions[s]
         /\ \A s \in Rungs : Approvers(s)' =
              IF s = txn.rung /\ txn.verdict = "approve"
              THEN Approvers(s) \cup {txn.by}
              ELSE Approvers(s)
         /\ Idle'
<1> DEFINE r == txn.rung
           ds == decisions[r]
           d == [by |-> txn.by, verdict |-> txn.verdict]
<1> USE DEF IInv
<1>1. txn \in Txn
  BY DEF TypeOK, Idle, NoTxn
<1>2. r \in Rungs /\ txn.by \in Users /\ d \in Decision /\ ds \in Seq(Decision)
  BY <1>1 DEF Txn, Decision, TypeOK
<1>3. decisions' = [decisions EXCEPT ![r] = Append(ds, d)]
  BY DEF Record
<1>4. decisions'[r] = Append(ds, d) /\ \A s \in Rungs : s # r => decisions'[s] = decisions[s]
  BY <1>2, <1>3 DEF TypeOK
<1>5. decisions' \in [Rungs -> Seq(Decision)]
  BY <1>2, <1>3, AppendedDecision DEF TypeOK
<1>6. tokens' \in [Rungs -> [Users -> Nat]]
  <2>1. CASE txn.via = "token"
    <3>1. tokens[r][txn.by] - 1 \in Nat
      BY <1>2, <2>1 DEF TxnOK, TypeOK
    <3>. QED
      BY <1>2, <2>1, <3>1 DEF Record, Consumed, TypeOK
  <2>2. CASE txn.via # "token"
    BY <2>2 DEF Record, Consumed, TypeOK
  <2>. QED
    BY <2>1, <2>2
<1>7. OneVoice'
  <2> SUFFICES ASSUME NEW s \in Rungs,
                      NEW i \in DOMAIN decisions'[s], NEW j \in DOMAIN decisions'[s],
                      decisions'[s][i].by = decisions'[s][j].by
               PROVE  i = j
    BY DEF OneVoice
  <2>1. CASE s # r
    BY <1>4, <2>1 DEF OneVoice
  <2>2. CASE s = r
    <3>1. \A k \in DOMAIN ds : ds[k].by # txn.by
      BY DEF TxnOK, Deciding
    <3>2. DOMAIN decisions'[r] = DOMAIN ds \cup {Len(ds) + 1}
      BY <1>2, <1>4, AppendedDecision
    <3>3. /\ decisions'[r][Len(ds) + 1].by = txn.by
          /\ \A k \in DOMAIN ds : decisions'[r][k] = ds[k]
      BY <1>2, <1>4, AppendedDecision
    <3>4. \A k, l \in DOMAIN ds : ds[k].by = ds[l].by => k = l
      BY <1>2 DEF OneVoice
    <3>. QED
      BY <2>2, <3>1, <3>2, <3>3, <3>4
  <2>. QED
    BY <2>1, <2>2
<1>8. ASSUME NEW s \in Rungs
      PROVE  Approvers(s)' = IF s = r /\ txn.verdict = "approve"
                             THEN Approvers(s) \cup {txn.by}
                             ELSE Approvers(s)
  <2> DEFINE es == Append(ds, d)
             Of(q) == {q[i].by : i \in {j \in DOMAIN q : q[j].verdict = "approve"}}
  <2>1. Approvers(s) = Of(decisions[s]) /\ Approvers(s)' = Of(decisions'[s])
    BY DEF Approvers
  <2>2. Of(es) = IF txn.verdict = "approve" THEN Of(ds) \cup {txn.by} ELSE Of(ds)
    BY <1>2, AppendedDecision
  <2>3. CASE s = r
    BY <1>4, <2>1, <2>2, <2>3
  <2>4. CASE s # r
    BY <1>4, <2>1, <2>4
  <2>. QED
    BY <2>3, <2>4
<1>10. Idle'
  BY DEF Record, Idle, NoTxn
<1>. QED
  BY <1>2, <1>4, <1>5, <1>6, <1>7, <1>8, <1>10

\* What a step that changes the status of rung s leaves alone.
Kept(s) ==
  /\ rung'[s].version = rung[s].version /\ rung'[s].by = rung[s].by
  /\ rung'[s].mode = rung[s].mode /\ rung'[s].required = rung[s].required
  /\ rung'[s].needed = rung[s].needed /\ rung'[s].found = rung[s].found

LEMMA StatusChange ==
  ASSUME NEW s \in Rungs, rung[s] \in Rung,
         NEW status \in {"approved", "rejected", "cancelled"},
         rung'[s] = [rung[s] EXCEPT !.status = status]
  PROVE  rung'[s] \in Rung /\ Kept(s) /\ rung'[s].status = status
<1>1. rung'[s].status = status /\ Kept(s)
  BY DEF Rung, Kept
<1>2. rung'[s] \in Rung
  BY DEF Rung
<1>. QED
  BY <1>1, <1>2

\* Snapshots are as they were if statuses are all that changed.
LEMMA SnapshotKept ==
  ASSUME SnapshotOK, \A s \in Rungs : Kept(s) PROVE SnapshotOK'
  BY DEF SnapshotOK, Kept

\* Nothing opens if every open rung was open.
LEMMA NothingOpens ==
  ASSUME ReviewAskedOnce, HoldOK, AskedOK, session' = session,
         \A s \in Rungs : Kept(s),
         \A s \in Rungs : rung'[s].status = "pending" => rung[s].status = "pending"
  PROVE  ReviewAskedOnce' /\ HoldOK' /\ AskedOK'
<1>1. ReviewAskedOnce'
  BY DEF ReviewAskedOnce, Live, Kept
<1>2. HoldOK' /\ AskedOK'
  BY DEF HoldOK, AskedOK, HoldsContract, Live, Kept
<1>. QED
  BY <1>1, <1>2

\* A rejection closes its rung, and whatever else is open of that version.
LEMMA RejectIInv == ASSUME IInv, Reject PROVE IInv'
<1> USE DEF IInv
<1> DEFINE r == txn.rung
<1>1. ~Idle /\ Record /\ txn.verdict = "reject"
  BY DEF Reject
<1>2. r \in Rungs /\ rung[r].status = "pending" /\ \A s \in Rungs : rung[s] \in Rung
  BY <1>1, RecordKeeps DEF TxnOK, Live, TypeOK
<1>3. ASSUME NEW s \in Rungs
      PROVE  /\ rung'[s] \in Rung /\ Kept(s)
             /\ s = r => rung'[s].status = "rejected"
             /\ s # r => \/ rung'[s].status = rung[s].status
                         \/ /\ rung[s].status = "pending"
                            /\ rung'[s].status = "cancelled"
  <2>1. CASE s = r
    <3>1. rung'[s] = [rung[s] EXCEPT !.status = "rejected"]
      BY <2>1 DEF Reject
    <3>. QED
      BY <1>2, <2>1, <3>1, StatusChange
  <2>2. CASE s # r /\ rung'[s] = rung[s]
    BY <1>2, <2>2 DEF Kept
  <2>3. CASE s # r /\ rung'[s] # rung[s]
    <3>1. Live(s) /\ rung'[s] = [rung[s] EXCEPT !.status = "cancelled"]
      BY <2>3 DEF Reject
    <3>. QED
      BY <1>2, <2>3, <3>1, StatusChange DEF Live
  <2>. QED
    BY <2>1, <2>2, <2>3
<1>4. TypeOK'
  <2>1. rung' \in [Rungs -> Rung]
    <3>1. rung' = [s \in Rungs |-> rung'[s]]
      BY DEF Reject
    <3>. QED
      BY <1>3, <3>1
  <2>2. stage' \in Stages
    BY DEF Reject, Stages
  <2>. QED
    BY <1>1, <2>1, <2>2, RecordKeeps DEF Record, TypeOK
<1>5. FiledOK' /\ ClosingOK'
  <2>1. ClosingOK' /\ filed' = filed
    BY <1>1 DEF Record, ClosingOK
  <2> SUFFICES ASSUME NEW s \in Rungs, s > filed
               PROVE  rung'[s].status = "none" /\ decisions'[s] = <<>>
    BY <2>1 DEF FiledOK
  <2>2. s # r /\ rung[s].status = "none" /\ decisions[s] = <<>>
    BY <1>2 DEF FiledOK
  <2>. QED
    BY <1>1, <1>3, <2>2, RecordKeeps
<1>6. TxnOK' /\ OneVoice'
  BY <1>1, RecordKeeps DEF TxnOK
<1>7. SnapshotOK'
  BY <1>3, SnapshotKept
<1>8. QuorumHonoured' /\ NoLostQuorum' /\ ApproversEntitled'
  <2>1. \A s \in Rungs : Approvers(s)' = Approvers(s)
    BY <1>1, RecordKeeps
  <2>2. \A s \in Rungs : rung'[s].status = "approved" => rung[s].status = "approved"
    BY <1>3
  <2>3. QuorumHonoured'
    BY <1>3, <2>1, <2>2 DEF QuorumHonoured, Kept
  <2>4. ApproversEntitled'
    BY <1>3, <2>1 DEF ApproversEntitled, Kept
  <2>5. NoLostQuorum'
    <3>1. \A s \in Rungs : rung'[s].status = "pending" => rung[s].status = "pending"
      BY <1>3
    <3>. QED
      BY <1>3, <2>1, <3>1 DEF NoLostQuorum, Kept
  <2>. QED
    BY <2>3, <2>4, <2>5
<1>9. ReviewAskedOnce' /\ HoldOK' /\ AskedOK'
  BY <1>1, <1>3, NothingOpens DEF Record
<1>10. VerdictsAgree'
  <2> DEFINE Rejections(q) == {i \in DOMAIN q : q[i].verdict = "reject"}
             ds == decisions[r]
             d == [by |-> txn.by, verdict |-> txn.verdict]
  <2>1. /\ ds \in Seq(Decision) /\ d \in Decision
        /\ decisions'[r] = Append(ds, d)
    BY <1>1, <1>2, RecordKeeps DEF TypeOK, Decision, Verdicts
  <2>2. Rejections(ds) = {}
    BY <1>2 DEF VerdictsAgree
  <2>3. Rejections(Append(ds, d)) = {Len(Append(ds, d))}
    BY <1>1, <2>1, <2>2, AppendedDecision
  <2>4. \A s \in Rungs : s # r => decisions'[s] = decisions[s]
    BY <1>1, RecordKeeps
  <2>5. \A s \in Rungs : s # r => \/ rung'[s].status = rung[s].status
                                 \/ rung'[s].status = "cancelled"
    BY <1>3
  <2> SUFFICES ASSUME NEW s \in Rungs
               PROVE  /\ rung'[s].status = "rejected" =>
                           Rejections(decisions'[s]) = {Len(decisions'[s])}
                      /\ rung'[s].status \in {"none", "pending", "approved"} =>
                           Rejections(decisions'[s]) = {}
    BY DEF VerdictsAgree
  <2>6. CASE s = r
    BY <1>3, <2>1, <2>3, <2>6
  <2>7. CASE s # r
    BY <2>4, <2>5, <2>7 DEF VerdictsAgree
  <2>. QED
    BY <2>6, <2>7
<1>. QED
  BY <1>4, <1>5, <1>6, <1>7, <1>8, <1>9, <1>10

\* A set with as many members in T as T has holds all of T.
LEMMA AllOf ==
  ASSUME NEW S, NEW T, IsFiniteSet(T), Cardinality(S \cap T) >= Cardinality(T)
  PROVE  T \subseteq S
<1>1. IsFiniteSet(S \cap T) /\ Cardinality(S \cap T) <= Cardinality(T)
  BY FS_Subset
<1>2. Cardinality(S \cap T) = Cardinality(T)
  BY <1>1, FS_CardinalityType
<1>3. T = S \cap T
  BY <1>2, FS_Subset
<1>. QED
  BY <1>3

\* An approval, short of the quorum or meeting it.
LEMMA ApproveIInv == ASSUME IInv, ApprovePartly \/ ApproveFully PROVE IInv'
<1> USE DEF IInv
<1> DEFINE r == txn.rung
<1>1. ~Idle /\ Record /\ txn.verdict = "approve"
  BY DEF ApprovePartly, ApproveFully
<1>2. /\ r \in Rungs /\ txn.by \in Users /\ rung[r].status = "pending"
      /\ \A s \in Rungs : rung[s] \in Rung
  BY <1>1, RecordKeeps DEF TxnOK, Live, TypeOK
<1>3. ASSUME NEW s \in Rungs
      PROVE  /\ rung'[s] \in Rung /\ Kept(s)
             /\ \/ rung'[s].status = rung[s].status /\ (s = r => ~QuorumMet)
                \/ s = r /\ QuorumMet /\ rung'[s].status = "approved"
  <2>1. CASE rung'[s] = rung[s]
    <3>1. s = r => ~QuorumMet
      <4> SUFFICES ASSUME s = r, QuorumMet PROVE FALSE
        OBVIOUS
      <4>1. rung'[s] = [rung[s] EXCEPT !.status = "approved"]
        BY <1>2 DEF ApprovePartly, ApproveFully, TypeOK
      <4>. QED
        BY <1>2, <2>1, <4>1, StatusChange
    <3>. QED
      BY <1>2, <2>1, <3>1 DEF Kept
  <2>2. CASE rung'[s] # rung[s]
    <3>1. s = r /\ QuorumMet /\ rung'[s] = [rung[s] EXCEPT !.status = "approved"]
      BY <1>2, <2>2 DEF ApprovePartly, ApproveFully, TypeOK
    <3>. QED
      BY <1>2, <3>1, StatusChange
  <2>. QED
    BY <2>1, <2>2
<1>4. \A s \in Rungs : Approvers(s)' = IF s = r THEN Approvers(s) \cup {txn.by}
                                               ELSE Approvers(s)
  BY <1>1, RecordKeeps
<1>5. TypeOK'
  <2>1. stage' \in Stages
    BY DEF ApprovePartly, ApproveFully, OnComplete, TypeOK, Stages
  <2>2. rung' \in [Rungs -> Rung]
    <3>1. rung' = [s \in Rungs |-> rung'[s]]
      BY DEF ApprovePartly, ApproveFully, TypeOK
    <3>. QED
      BY <1>3, <3>1
  <2>. QED
    BY <1>1, <2>1, <2>2, RecordKeeps DEF Record, TypeOK
<1>6. FiledOK' /\ ClosingOK'
  <2>1. ClosingOK' /\ filed' = filed
    BY <1>1 DEF Record, ClosingOK
  <2> SUFFICES ASSUME NEW s \in Rungs, s > filed
               PROVE  rung'[s].status = "none" /\ decisions'[s] = <<>>
    BY <2>1 DEF FiledOK
  <2>2. s # r /\ rung[s].status = "none" /\ decisions[s] = <<>>
    BY <1>2 DEF FiledOK
  <2>. QED
    BY <1>1, <1>3, <2>2, RecordKeeps
<1>7. TxnOK' /\ OneVoice'
  BY <1>1, RecordKeeps DEF TxnOK
<1>8. SnapshotOK'
  BY <1>3, SnapshotKept
<1>9. QuorumHonoured'
  <2> SUFFICES ASSUME NEW s \in Rungs, rung'[s].status = "approved"
               PROVE  /\ Approvers(s)' # {}
                      /\ rung'[s].mode = "all" =>
                           rung'[s].required \subseteq Approvers(s)'
    BY DEF QuorumHonoured
  <2>1. CASE s # r
    <3>1. rung[s].status = "approved"
      BY <1>3, <2>1
    <3>. QED
      BY <1>3, <1>4, <2>1, <3>1 DEF QuorumHonoured, Kept
  <2>2. CASE s = r
    <3> DEFINE required == rung[r].required
               approvers == Approvers(r) \cup {txn.by}
    <3>1. QuorumMet
      BY <1>2, <1>3, <2>2
    <3>2. ASSUME rung[r].mode = "all" PROVE required \subseteq approvers
      <4>1. required # {} /\ rung[r].needed = Cardinality(required)
        BY <1>2, <3>2 DEF SnapshotOK
      <4>2. Cardinality(approvers \cap required) >= Cardinality(required)
        BY <3>1, <3>2, <4>1 DEF QuorumMet, QuorumNeeded, TowardQuorum
      <4>3. IsFiniteSet(required)
        <5>1. required \in SUBSET Users
          BY <1>2 DEF Rung
        <5>. QED
          BY <5>1, FS_Subset
      <4>. QED
        BY <4>2, <4>3, AllOf
    <3>. QED
      BY <1>3, <1>4, <2>2, <3>2 DEF Kept
  <2>. QED
    BY <2>1, <2>2
<1>10. ApproversEntitled'
  <2> SUFFICES ASSUME NEW s \in Rungs, NEW u \in Approvers(s)'
               PROVE  u \in Covered /\ (u = rung'[s].by => u \in Admins)
    BY DEF ApproversEntitled
  <2>1. rung'[s].by = rung[s].by
    BY <1>3 DEF Kept
  <2>2. CASE u \in Approvers(s)
    BY <2>1, <2>2 DEF ApproversEntitled
  <2>3. CASE s = r /\ u = txn.by
    BY <1>1, <2>1, <2>3 DEF TxnOK
  <2>. QED
    BY <1>4, <2>2, <2>3
<1>11. ReviewAskedOnce' /\ HoldOK' /\ AskedOK'
  <2>1. \A s \in Rungs : rung'[s].status = "pending" => rung[s].status = "pending"
    BY <1>3
  <2>. QED
    BY <1>1, <1>3, <2>1, NothingOpens DEF Record
<1>12. VerdictsAgree'
  <2> DEFINE Rejections(q) == {i \in DOMAIN q : q[i].verdict = "reject"}
             ds == decisions[r]
             d == [by |-> txn.by, verdict |-> txn.verdict]
  <2>1. /\ ds \in Seq(Decision) /\ d \in Decision
        /\ decisions'[r] = Append(ds, d)
    BY <1>1, <1>2, RecordKeeps DEF TypeOK, Decision, Verdicts
  <2>2. Rejections(ds) = {}
    BY <1>2 DEF VerdictsAgree
  <2>3. Rejections(Append(ds, d)) = {}
    BY <1>1, <2>1, <2>2, AppendedDecision
  <2> SUFFICES ASSUME NEW s \in Rungs
               PROVE  /\ rung'[s].status = "rejected" =>
                           Rejections(decisions'[s]) = {Len(decisions'[s])}
                      /\ rung'[s].status \in {"none", "pending", "approved"} =>
                           Rejections(decisions'[s]) = {}
    BY DEF VerdictsAgree
  <2>4. CASE s = r
    <3>1. rung'[s].status # "rejected"
      BY <1>2, <1>3, <2>4
    <3>. QED
      BY <2>1, <2>3, <2>4, <3>1
  <2>5. CASE s # r
    <3>1. decisions'[s] = decisions[s] /\ rung'[s].status = rung[s].status
      BY <1>1, <1>3, <2>5, RecordKeeps
    <3>. QED
      BY <3>1 DEF VerdictsAgree
  <2>. QED
    BY <2>4, <2>5
<1>13. NoLostQuorum'
  <2> SUFFICES ASSUME NEW s \in Rungs, rung'[s].status = "pending",
                      rung'[s].mode = "all",
                      rung'[s].required \subseteq Approvers(s)'
               PROVE  FALSE
    BY DEF NoLostQuorum
  <2>1. /\ rung[s].status = "pending" /\ rung[s].mode = "all"
        /\ rung'[s].required = rung[s].required
        /\ s = r => ~QuorumMet
    BY <1>3 DEF Kept
  <2>2. CASE s # r
    BY <1>4, <2>1, <2>2 DEF NoLostQuorum
  <2>3. CASE s = r
    <3>1. /\ rung[r].required # {}
          /\ rung[r].needed = Cardinality(rung[r].required)
      BY <1>2, <2>1, <2>3 DEF SnapshotOK
    <3>2. (Approvers(r) \cup {txn.by}) \cap rung[r].required = rung[r].required
      BY <1>4, <2>1, <2>3
    <3>3. TowardQuorum(r, txn.by) = Cardinality(rung[r].required)
      BY <3>1, <3>2 DEF TowardQuorum
    <3>4. QuorumNeeded(r) = Cardinality(rung[r].required)
      BY <2>1, <2>3, <3>1 DEF QuorumNeeded
    <3>5. Cardinality(rung[r].required) \in Nat
      <4>1. rung[r].required \in SUBSET Users
        BY <1>2 DEF Rung
      <4>. QED
        BY <4>1, FS_Subset, FS_CardinalityType
    <3>. QED
      BY <2>1, <2>3, <3>3, <3>4, <3>5 DEF QuorumMet
  <2>. QED
    BY <2>2, <2>3
<1>. QED
  BY <1>5, <1>6, <1>7, <1>8, <1>9, <1>10, <1>11, <1>12, <1>13

-----------------------------------------------------------------------------
(***************************************************************************)
(* Cancelling rungs, reassigning one, and the rest.                        *)
(***************************************************************************)
\* Cancelling any set of filed rungs none of which is being decided.
LEMMA CancelKeeps ==
  ASSUME IInv, NEW C \in SUBSET Rungs,
         \A s \in C : ~Locked(s) /\ s <= filed,
         rung' = [s \in Rungs |-> IF s \in C
                                  THEN [rung[s] EXCEPT !.status = "cancelled"]
                                  ELSE rung[s]],
         UNCHANGED <<filed, decisions, tokens, txn, session>>
  PROVE  /\ rung' \in [Rungs -> Rung]
         /\ HoldOK' /\ AskedOK'
         /\ FiledOK' /\ TxnOK' /\ SnapshotOK' /\ OneVoice' /\ QuorumHonoured'
         /\ NoLostQuorum' /\ ApproversEntitled' /\ ReviewAskedOnce' /\ VerdictsAgree'
<1> USE DEF IInv
<1>1. ASSUME NEW s \in Rungs
      PROVE  /\ rung'[s] \in Rung /\ Kept(s)
             /\ s \in C => rung'[s].status = "cancelled"
             /\ s \notin C => rung'[s] = rung[s]
  <2>1. rung[s] \in Rung
    BY DEF TypeOK
  <2>2. CASE s \in C
    <3>1. rung'[s] = [rung[s] EXCEPT !.status = "cancelled"]
      BY <2>2
    <3>. QED
      BY <2>1, <2>2, <3>1, StatusChange
  <2>3. CASE s \notin C
    BY <2>1, <2>3 DEF Kept
  <2>. QED
    BY <2>2, <2>3
<1>2. rung' \in [Rungs -> Rung]
  <2>1. rung' = [s \in Rungs |-> rung'[s]]
    OBVIOUS
  <2>. QED
    BY <1>1, <2>1
<1>3. FiledOK'
  <2> SUFFICES ASSUME NEW s \in Rungs, s > filed
               PROVE  rung'[s].status = "none" /\ decisions'[s] = <<>>
    BY DEF FiledOK
  <2>1. s \notin C
    BY DEF Rungs, TypeOK
  <2>. QED
    BY <1>1, <2>1 DEF FiledOK
<1>4. TxnOK'
  <2> SUFFICES ASSUME ~Idle PROVE TxnOK'
    BY DEF TxnOK, Idle
  <2>1. txn.rung \in Rungs /\ txn.rung \notin C
    BY DEF TypeOK, Txn, Idle, NoTxn, Locked
  <2>2. rung'[txn.rung] = rung[txn.rung]
    BY <1>1, <2>1
  <2>. QED
    BY <2>2 DEF TxnOK, Live, Deciding, Idle
<1>5. SnapshotOK'
  BY <1>1, SnapshotKept
<1>6. OneVoice'
  BY DEF OneVoice
<1>7. \A s \in Rungs : Approvers(s)' = Approvers(s)
  BY DEF Approvers
<1>8. QuorumHonoured'
  <2>1. \A s \in Rungs : rung'[s].status = "approved" => rung[s].status = "approved"
    BY <1>1
  <2>. QED
    BY <1>1, <1>7, <2>1 DEF QuorumHonoured, Kept
<1>9. ApproversEntitled'
  BY <1>1, <1>7 DEF ApproversEntitled, Kept
<1>10. ReviewAskedOnce' /\ HoldOK' /\ AskedOK'
  <2>1. \A s \in Rungs : rung'[s].status = "pending" => rung[s].status = "pending"
    BY <1>1
  <2>. QED
    BY <1>1, <2>1, NothingOpens
<1>11. VerdictsAgree'
  BY <1>1 DEF VerdictsAgree
<1>12. NoLostQuorum'
  <2>1. \A s \in Rungs : rung'[s].status = "pending" => rung[s].status = "pending"
    BY <1>1
  <2>. QED
    BY <1>1, <1>7, <2>1 DEF NoLostQuorum, Kept
<1>. QED
  BY <1>2, <1>3, <1>4, <1>5, <1>6, <1>8, <1>9, <1>10, <1>11, <1>12

\* A closing and a send-back, writing back what they read.
LEMMA CancellingIInv ==
  ASSUME IInv, CloseWrite \/ RewindWrite PROVE IInv'
<1> USE DEF IInv
<1>1. /\ closing.read \in SUBSET Rungs
      /\ \A s \in closing.read : ~Locked(s) /\ s <= filed
  BY DEF CloseWrite, RewindWrite, Cancelling, TypeOK, ClosingOK
<1>2. /\ UNCHANGED <<version, team, active, filed, decisions, tokens, txn, session>>
      /\ closing' = NotClosing
      /\ open' \in BOOLEAN /\ stage' \in Stages
  BY DEF CloseWrite, RewindWrite, Cancelling, TypeOK, Stages
<1>3. /\ rung' \in [Rungs -> Rung]
      /\ FiledOK' /\ TxnOK' /\ SnapshotOK' /\ OneVoice' /\ QuorumHonoured'
      /\ NoLostQuorum' /\ ApproversEntitled' /\ ReviewAskedOnce' /\ VerdictsAgree'
      /\ HoldOK' /\ AskedOK'
  BY <1>1, <1>2, CancelKeeps DEF CloseWrite, RewindWrite, Cancelling
<1>4. TypeOK' /\ ClosingOK'
  BY <1>2, <1>3 DEF TypeOK, ClosingOK, NotClosing
<1>. QED
  BY <1>3, <1>4

LEMMA ReassignIInv ==
  ASSUME IInv, NEW u \in Users, NEW to \in Users, NEW r \in Rungs,
         NEW kind \in {"delegate", "escalate"}, Reassign(u, r, to, kind)
  PROVE  IInv'
<1> USE DEF IInv
<1> DEFINE h == [kind |-> "user", who |-> to]
<1>1. rung[r] \in Rung /\ rung[r].status = "pending" /\ ~Locked(r)
  BY DEF Reassign, Live, TypeOK
<1>2. rung'[r] = [rung[r] EXCEPT !.holder = h, !.mode = "any"]
  BY DEF Reassign, TypeOK
<1>3. /\ rung'[r] \in Rung /\ rung'[r].mode = "any"
      /\ rung'[r].status = "pending" /\ rung'[r].version = rung[r].version
      /\ rung'[r].by = rung[r].by /\ rung'[r].found = rung[r].found
  <2>1. h \in Holders /\ "any" \in Modes
    BY DEF Holders, Modes
  <2>2. rung'[r] \in Rung
    BY <1>1, <1>2, <2>1 DEF Rung
  <2>. QED
    BY <1>1, <1>2, <2>2 DEF Rung
<1>4. \A s \in Rungs : s # r => rung'[s] = rung[s]
  BY DEF Reassign, TypeOK
<1>5. UNCHANGED <<stage, version, team, active, filed, decisions, txn, open,
                  closing, session>>
  BY DEF Reassign
<1>6. TypeOK'
  <2>1. rung' \in [Rungs -> Rung]
    BY <1>2, <1>3, <1>4 DEF Reassign, TypeOK
  <2>2. tokens' \in [Rungs -> [Users -> Nat]]
    BY DEF Reassign, TypeOK, Issued
  <2>. QED
    BY <1>5, <2>1, <2>2 DEF TypeOK
<1>7. FiledOK' /\ ClosingOK'
  BY <1>1, <1>4, <1>5 DEF FiledOK, ClosingOK
<1>8. TxnOK'
  <2> SUFFICES ASSUME ~Idle PROVE TxnOK'
    BY <1>5 DEF TxnOK, Idle
  <2>1. txn.rung \in Rungs /\ txn.rung # r
    BY <1>1 DEF TypeOK, Txn, Idle, NoTxn, Locked
  <2>2. rung'[txn.rung] = rung[txn.rung] /\ tokens'[txn.rung] = tokens[txn.rung]
    BY <1>4, <2>1 DEF Reassign, Issued, TypeOK
  <2>. QED
    BY <1>5, <2>2 DEF TxnOK, Live, Deciding, Idle
<1>9. SnapshotOK'
  BY <1>3, <1>4 DEF SnapshotOK
<1>10. OneVoice'
  BY <1>5 DEF OneVoice
<1>11. \A s \in Rungs : Approvers(s)' = Approvers(s)
  BY <1>5 DEF Approvers
<1>12. QuorumHonoured' /\ NoLostQuorum' /\ ApproversEntitled'
  BY <1>3, <1>4, <1>11 DEF QuorumHonoured, NoLostQuorum, ApproversEntitled
<1>13. ReviewAskedOnce' /\ HoldOK' /\ AskedOK'
  <2>1. ReviewAskedOnce'
    BY <1>1, <1>3, <1>4 DEF ReviewAskedOnce, Live
  <2>2. HoldOK' /\ AskedOK'
    BY <1>1, <1>3, <1>4, <1>5 DEF HoldOK, AskedOK, HoldsContract, Live
  <2>. QED
    BY <2>1, <2>2
<1>14. VerdictsAgree'
  BY <1>1, <1>3, <1>4, <1>5 DEF VerdictsAgree
<1>. QED
  BY <1>6, <1>7, <1>8, <1>9, <1>10, <1>12, <1>13, <1>14

\* Whatever leaves the rungs, their decisions and tokens and the decision in
\* flight alone.
Aside == UNCHANGED <<filed, rung, decisions, tokens>>

LEMMA AsideKeeps ==
  ASSUME IInv, Aside
  PROVE  /\ FiledOK' /\ SnapshotOK' /\ OneVoice' /\ QuorumHonoured'
         /\ NoLostQuorum' /\ ApproversEntitled' /\ ReviewAskedOnce' /\ VerdictsAgree'
         /\ txn' = txn => TxnOK'
<1>. USE DEF IInv, Aside
<1>1. FiledOK' /\ SnapshotOK' /\ OneVoice' /\ VerdictsAgree'
  BY DEF FiledOK, SnapshotOK, OneVoice, VerdictsAgree
<1>2. QuorumHonoured' /\ NoLostQuorum' /\ ApproversEntitled'
  BY DEF QuorumHonoured, NoLostQuorum, ApproversEntitled, Approvers
<1>3. ReviewAskedOnce'
  BY DEF ReviewAskedOnce, Live
<1>4. txn' = txn => TxnOK'
  BY DEF TxnOK, Live, Deciding, Idle
<1>. QED
  BY <1>1, <1>2, <1>3, <1>4

\* A session that loads the contract, asks, or ends.  One that begins to hold
\* the contract found it free, and no live chain of its version.
LEMMA SessionIInv ==
  ASSUME IInv, NEW c \in Calls,
         \/ \E override \in BOOLEAN : Load(c, override)
         \/ \E u \in Starters, h \in Holders, mode \in Modes : Ask(c, u, h, mode)
         \/ FastLane(c) \/ Leave(c)
         \/ \E to \in Stages : MoveStage(c, to)
  PROVE  IInv'
<1> USE DEF IInv
<1>1. LadderKept /\ stage' \in Stages
  BY DEF Load, Ask, FastLane, Leave, MoveStage, TypeOK, Stages
<1>2. Aside /\ UNCHANGED <<txn, closing, open>>
  BY <1>1 DEF LadderKept, Aside
<1>3. ASSUME \E u \in Starters, h \in Holders, mode \in Modes : Ask(c, u, h, mode)
      PROVE  session' \in [Calls -> Session] /\ AskedOK' /\ HoldOK'
  <2> PICK u \in Starters, h \in Holders, mode \in Modes : Ask(c, u, h, mode)
    BY <1>3
  <2> DEFINE q == [by |-> u, holder |-> h, mode |-> mode, team |-> team]
  <2>1. /\ session'[c] = [session[c] EXCEPT !.at = "asking", !.question = q]
        /\ \A d \in Calls : d # c => session'[d] = session[d]
        /\ session' = [d \in Calls |-> session'[d]]
    BY DEF Ask, TypeOK
  <2>2. q \in Question /\ session[c] \in Session
    BY DEF Question, TypeOK
  <2>3. session'[c] \in Session
    BY <2>1, <2>2 DEF Session
  <2>4. /\ session'[c].at = "asking" /\ session'[c].question = q
        /\ session'[c].stage = session[c].stage
        /\ session'[c].version = session[c].version
    BY <2>1, <2>2 DEF Session
  <2>5. session' \in [Calls -> Session]
    BY <2>1, <2>3 DEF TypeOK
  <2>6. AskedOK'
    <3>1. mode = "all" => team # {}
      BY DEF Ask, Askable
    <3>2. session[c].stage \in {"review", "approval"}
      BY DEF Ask, MaySubmit
    <3> SUFFICES ASSUME NEW d \in Calls
                 PROVE  /\ session'[d].question.mode = "all" =>
                             session'[d].question.team # {}
                        /\ session'[d].at = "asking" =>
                             session'[d].stage \in {"review", "approval"}
      BY DEF AskedOK
    <3>3. CASE d = c
      BY <2>4, <3>1, <3>2, <3>3
    <3>4. CASE d # c
      BY <2>1, <3>4 DEF AskedOK
    <3>. QED
      BY <3>3, <3>4
  <2>7. HoldOK'
    <3>1. rung' = rung
      BY <1>2 DEF Aside
    <3>2. CASE session[c].stage = "review"
      <4>1. \A d \in Calls : ~HoldsContract(d)
        BY <3>2 DEF Ask, MaySubmit, ContractFree
      <4>2. \A d \in Calls : HoldsContract(d)' => d = c
        BY <2>1, <4>1 DEF HoldsContract
      <4>3. \A s \in Rungs : Live(s)' => rung'[s].version # session'[c].version
        BY <2>4, <3>1 DEF Ask, MaySubmit, NoLiveChain, Live
      <4>. QED
        BY <4>2, <4>3 DEF HoldOK
    <3>3. CASE session[c].stage # "review"
      <4>1. \A d \in Calls : HoldsContract(d)' =>
              HoldsContract(d) /\ session'[d] = session[d]
        BY <2>1, <2>4, <3>3 DEF HoldsContract
      <4>. QED
        BY <3>1, <4>1 DEF HoldOK, Live
    <3>. QED
      BY <3>2, <3>3
  <2>. QED
    BY <2>5, <2>6, <2>7
<1>4. ASSUME ~ \E u \in Starters, h \in Holders, mode \in Modes : Ask(c, u, h, mode)
      PROVE  session' \in [Calls -> Session] /\ AskedOK' /\ HoldOK'
  <2> DEFINE Becomes(new) ==
          /\ session' = [session EXCEPT ![c] = new]
          /\ new.at # "asking" /\ new.question = NoQuestion
  <2>1. \E new \in Session : Becomes(new)
    <3>1. NoSession \in Session
      BY DEF NoSession, Session, Stages
    <3>2. ASSUME \E override \in BOOLEAN : Load(c, override)
          PROVE  \E new \in Session : Becomes(new)
      <4> PICK override \in BOOLEAN : Load(c, override)
        BY <3>2
      <4> DEFINE new == [at |-> "loaded", stage |-> stage, version |-> version,
                         open |-> open, override |-> override,
                         question |-> NoQuestion]
      <4>1. new \in Session
        BY DEF Session, TypeOK
      <4>. QED
        BY <4>1 DEF Load
    <3>3. ASSUME ~ \E override \in BOOLEAN : Load(c, override)
          PROVE  session' = [session EXCEPT ![c] = NoSession]
      BY <1>4, <3>3 DEF FastLane, Leave, MoveStage
    <3>4. NoSession.at # "asking" /\ NoSession.question = NoQuestion
      BY DEF NoSession
    <3>. QED
      BY <3>1, <3>2, <3>3, <3>4
  <2> PICK new \in Session : Becomes(new)
    BY <2>1
  <2>2. session'[c] = new /\ \A d \in Calls : d # c => session'[d] = session[d]
    BY DEF TypeOK
  <2>3. session' \in [Calls -> Session]
    BY DEF TypeOK
  <2>4. AskedOK'
    BY <2>2 DEF AskedOK, NoQuestion
  <2>5. HoldOK'
    <3>1. \A d \in Calls : HoldsContract(d)' =>
            HoldsContract(d) /\ session'[d] = session[d]
      BY <2>2 DEF HoldsContract
    <3>. QED
      BY <1>2, <3>1 DEF HoldOK, Live, Aside
  <2>. QED
    BY <2>3, <2>4, <2>5
<1>5. session' \in [Calls -> Session] /\ AskedOK' /\ HoldOK'
  BY <1>3, <1>4
<1>6. TypeOK' /\ ClosingOK'
  BY <1>1, <1>5 DEF LadderKept, TypeOK, ClosingOK
<1>. QED
  BY <1>2, <1>5, <1>6, AsideKeeps

LEMMA AsideIInv ==
  ASSUME IInv,
         \/ Rollback \/ CloseRead \/ RewindRead \/ NewVersion
         \/ \E u \in Movers : EditTeam(u)
         \/ \E u \in Newcomers : Activate(u)
         \/ UNCHANGED vars
  PROVE  IInv'
<1>1. Aside /\ session' = session
  BY DEF Aside, Rollback, CloseRead, RewindRead, NewVersion, EditTeam, Activate,
         vars
<1>2. TypeOK'
  <2> USE DEF IInv, TypeOK
  <2>1. CASE Rollback
    BY <2>1 DEF Rollback
  <2>2. CASE CloseRead \/ RewindRead
    BY <2>2 DEF CloseRead, RewindRead
  <2>3. CASE NewVersion
    BY <2>3 DEF NewVersion
  <2>4. CASE \E u \in Movers : EditTeam(u)
    BY <2>4 DEF EditTeam
  <2>5. CASE \E u \in Newcomers : Activate(u)
    BY <2>5 DEF Activate
  <2>6. CASE UNCHANGED vars
    BY <2>6 DEF vars
  <2>. QED
    BY <2>1, <2>2, <2>3, <2>4, <2>5, <2>6
<1>3. TxnOK'
  <2>1. CASE Rollback
    BY <2>1 DEF Rollback, NoTxn, TxnOK, Idle
  <2>2. CASE ~Rollback
    <3>1. txn' = txn
      BY <2>2 DEF CloseRead, RewindRead, NewVersion, EditTeam, Activate, vars
    <3>. QED
      BY <1>1, <3>1, AsideKeeps
  <2>. QED
    BY <2>1, <2>2
<1>4. ClosingOK'
  <2>1. CASE CloseRead \/ RewindRead
    <3>1. \A r \in Rungs : Live(r) => r <= filed
      BY DEF Live, IInv, FiledOK, TypeOK, Rungs
    <3>. QED
      BY <2>1, <3>1 DEF CloseRead, RewindRead, ClosingOK
  <2>2. CASE ~(CloseRead \/ RewindRead)
    <3>1. UNCHANGED <<closing, filed>>
      BY <2>2 DEF Rollback, NewVersion, EditTeam, Activate, vars
    <3>. QED
      BY <3>1 DEF IInv, ClosingOK
  <2>. QED
    BY <2>1, <2>2
<1>5. AskedOK' /\ HoldOK'
  BY <1>1 DEF IInv, AskedOK, HoldOK, HoldsContract, Live, Aside
<1>. QED
  BY <1>1, <1>2, <1>3, <1>4, <1>5, AsideKeeps DEF IInv

-----------------------------------------------------------------------------
LEMMA NextIInv == ASSUME IInv, [Next]_vars PROVE IInv'
<1>1. ASSUME \E c \in Calls : Submission(c) \/ \E to \in Stages : MoveStage(c, to)
      PROVE  IInv'
  BY <1>1, FileIInv, SessionIInv DEF Submission
<1>2. CASE Begin
  BY <1>2, BeginIInv
<1>3. CASE Commit
  BY <1>3, RejectIInv, ApproveIInv DEF Commit
<1>4. ASSUME \E u, to \in Users, r \in Rungs, kind \in {"delegate", "escalate"} :
               Reassign(u, r, to, kind)
      PROVE  IInv'
  BY <1>4, ReassignIInv
<1>5. CASE CloseWrite \/ RewindWrite
  BY <1>5, CancellingIInv
<1>. QED
  BY <1>1, <1>2, <1>3, <1>4, <1>5, AsideIInv DEF Next

\* The inductive invariant holds of every reachable state.
THEOREM Invariance == Spec => []IInv
<1>1. Init => IInv
  BY InitIInv
<1>2. IInv /\ [Next]_vars => IInv'
  BY NextIInv
<1>. QED
  BY <1>1, <1>2, PTL DEF Spec

\* The state is well typed: no rung has a token spent twice.
THEOREM TypeCorrect == Spec => []TypeOK
<1>1. IInv => TypeOK
  BY DEF IInv
<1>. QED
  BY <1>1, Invariance, PTL

\* Nobody decides the same rung twice.
THEOREM OneVoiceHolds == Spec => []OneVoice
<1>1. IInv => OneVoice
  BY DEF IInv
<1>. QED
  BY <1>1, Invariance, PTL

\* An approved rung has the approvals it asked for: of the whole team as it was
\* at submission when it asked for all of it.
THEOREM QuorumHolds == Spec => []QuorumHonoured
<1>1. IInv => QuorumHonoured
  BY DEF IInv
<1>. QED
  BY <1>1, Invariance, PTL

\* Two approvers deciding at once never both find the quorum short.
THEOREM NoQuorumLost == Spec => []NoLostQuorum
<1>1. IInv => NoLostQuorum
  BY DEF IInv
<1>. QED
  BY <1>1, Invariance, PTL

\* No approval comes from somebody without the authority, or from whoever asked
\* for it unless they administer approvals.
THEOREM EntitlementHolds == Spec => []ApproversEntitled
<1>1. IInv => ApproversEntitled
  BY DEF IInv
<1>. QED
  BY <1>1, Invariance, PTL

\* Submissions that take the contract to Approval never leave two rungs of one
\* version open, whatever the others and the send-backs do.
THEOREM ReviewAsksOnce == Spec => []ReviewAskedOnce
<1>1. IInv => ReviewAskedOnce
  BY DEF IInv
<1>. QED
  BY <1>1, Invariance, PTL

\* A rung's status agrees with the decisions on record.
THEOREM VerdictsHold == Spec => []VerdictsAgree
<1>1. IInv => VerdictsAgree
  BY DEF IInv
<1>. QED
  BY <1>1, Invariance, PTL

-----------------------------------------------------------------------------
(***************************************************************************)
(* From Approval to Signature.                                             *)
(***************************************************************************)
\* A session that moves the contract it loaded is the only way out of Approval
\* and into Signature that an active workflow with a signature step of its own
\* leaves: on_complete stays where it is, a submission and a send-back lead
\* elsewhere.  Such a session either overrides, or judged the very contract it
\* moves, or was overtaken.
THEOREM SignatureFollows == Spec => SigningFollowsApproval
<1> DEFINE Excused == \E c \in Calls :
             /\ session[c].at = "loaded" /\ session'[c].at = "idle"
             /\ session[c].override \/ Overtaken(c)
<1>1. ASSUME TypeOK, [Next]_vars, SigningHeld
      PROVE  CurrentVersionApproved' \/ Excused
  <2> USE DEF SigningHeld
  <2>1. \E c \in Calls, to \in Stages : MoveStage(c, to)
    <3>1. ASSUME NEW c \in Calls PROVE ~Submission(c)
      <4>1. ~FileRung(c) /\ ~FastLane(c) /\ ~Leave(c)
        BY <1>1 DEF FileRung, FastLane, Leave
      <4>2. ASSUME NEW override \in BOOLEAN PROVE ~Load(c, override)
        BY <1>1 DEF Load
      <4>3. ASSUME NEW u \in Starters, NEW h \in Holders, NEW mode \in Modes
            PROVE  ~Ask(c, u, h, mode)
        BY <1>1 DEF Ask
      <4>. QED
        BY <4>1, <4>2, <4>3 DEF Submission
    <3>2. ~Begin
      BY <1>1 DEF Begin, BeginInApp, BeginWithToken
    <3>3. ~Commit
      <4>1. ~ApproveFully
        BY <1>1 DEF ApproveFully, OnComplete
      <4>. QED
        BY <1>1, <4>1 DEF Commit, Reject, ApprovePartly
    <3>4. ASSUME NEW u \in Users, NEW to \in Users, NEW r \in Rungs,
                 NEW kind \in {"delegate", "escalate"}
          PROVE  ~Reassign(u, r, to, kind)
      BY <1>1 DEF Reassign
    <3>5. ~(Rollback \/ CloseRead \/ RewindRead \/ CloseWrite \/ RewindWrite
            \/ NewVersion)
      BY <1>1 DEF Rollback, CloseRead, RewindRead, CloseWrite, RewindWrite,
                  NewVersion
    <3>6. ~(\E u \in Movers : EditTeam(u)) /\ ~(\E u \in Newcomers : Activate(u))
      BY <1>1 DEF EditTeam, Activate
    <3>7. ~UNCHANGED vars
      BY <1>1 DEF vars
    <3>. QED
      BY <1>1, <3>1, <3>2, <3>3, <3>4, <3>5, <3>6, <3>7 DEF Next
  <2> PICK c \in Calls, to \in Stages : MoveStage(c, to)
    BY <2>1
  <2>2. /\ session[c].at = "loaded" /\ session'[c].at = "idle" /\ to = "signature"
        /\ UNCHANGED <<version, rung>>
    BY <1>1 DEF MoveStage, LadderKept, NoSession, TypeOK
  <2>3. CASE session[c].override \/ Overtaken(c)
    BY <2>2, <2>3
  <2>4. CASE ~session[c].override /\ ~Overtaken(c)
    <3>1. CurrentVersionApproved
      BY <1>1, <2>2, <2>4 DEF MoveStage, MayMove, Overtaken, CurrentVersionApproved
    <3>. QED
      BY <2>2, <3>1 DEF CurrentVersionApproved, VersionApproved, Standing
  <2>. QED
    BY <2>3, <2>4
<1>2. TypeOK /\ [Next]_vars =>
        [SigningHeld => CurrentVersionApproved' \/ Excused]_vars
  BY <1>1
<1>. QED
  BY <1>2, TypeCorrect, PTL DEF Spec, SigningFollowsApproval
=============================================================================
