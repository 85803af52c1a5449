------------------------ MODULE ApprovalChainProofs ------------------------
(***************************************************************************)
(* Proofs about ApprovalChain: a chain's end agrees with its requirements, *)
(* decisions stand, and without reordering under way no step is skipped.   *)
(***************************************************************************)
EXTENDS ApprovalChain, TLAPS

-----------------------------------------------------------------------------
(***************************************************************************)
(* Types.                                                                  *)
(***************************************************************************)
LEMMA WithDecisionType ==
  ASSUME TypeOK, NEW i \in Instances, deciding[i] # NoDecision
  PROVE  /\ WithDecision(i) \in [Key -> Req]
         /\ deciding[i] \in Decision
<1>1. deciding[i] \in Decision
  BY DEF TypeOK
<1> DEFINE d == deciding[i]
<1>2. d.verdict \in Decided /\ d.by \in People
  BY <1>1 DEF Decision
<1>3. ASSUME NEW row \in Req
      PROVE  [row EXCEPT !.status = d.verdict, !.by = d.by] \in Req
  BY <1>2 DEF Req
<1> HIDE DEF d
<1>4. req \in [Key -> Req]
  BY DEF TypeOK
<1>5. WithDecision(i) = [req EXCEPT ![KeyOf(i)] =
                          [req[KeyOf(i)] EXCEPT !.status = d.verdict, !.by = d.by]]
  BY <1>4 DEF WithDecision, d
<1> DEFINE row == [req[KeyOf(i)] EXCEPT !.status = d.verdict, !.by = d.by]
<1>6. KeyOf(i) \in Key => row \in Req
  BY <1>3, <1>4
<1> HIDE DEF row
<1>7. WithDecision(i) = [req EXCEPT ![KeyOf(i)] = row]
  BY <1>5 DEF row
<1>8. WithDecision(i) \in [Key -> Req]
  BY <1>4, <1>6, <1>7
<1> QED BY <1>1, <1>8

LEMMA MaterializeType ==
  ASSUME TypeOK, NEW i \in Instances, NEW s \in Steps, NEW rows \in [Key -> Req]
  PROVE  Materialize(rows, i, s) \in [Key -> Req]
<1> SUFFICES ASSUME NEW key \in Key, key[1] = i, key[2] = s, key[3] \in Wanted(s)
             PROVE  Fresh(s, key[3]) \in Req
  BY DEF Materialize
<1> <<s, key[3]>> \in Steps \X Roles
  BY DEF Wanted
<1> QED BY DEF TypeOK, Fresh, Req

LEMMA RecalculatedType ==
  ASSUME TypeOK, NEW i \in Instances
  PROVE  Recalculated(i) \in [Key -> Req]
<1> SUFFICES ASSUME NEW key \in Key, key[2] = chain[i].step
             PROVE  /\ Fresh(chain[i].step, key[3]) \in Req
                    /\ NoReq \in Req
                    /\ [req[key] EXCEPT !.place = asks[<<chain[i].step, key[3]>>]] \in Req
  BY DEF Recalculated, TypeOK
<1> <<chain[i].step, key[3]>> \in Steps \X Roles
  BY DEF Key
<1> asks[<<chain[i].step, key[3]>>] \in Places \cup {Absent}
  BY DEF TypeOK
<1>1. Fresh(chain[i].step, key[3]) \in Req /\ NoReq \in Req
  BY DEF Fresh, NoReq, Req
<1>2. ASSUME NEW row \in Req, NEW place \in Places \cup {Absent}
      PROVE  [row EXCEPT !.place = place] \in Req
  BY DEF Req
<1>3. req[key] \in Req
  BY DEF TypeOK
<1> QED BY <1>1, <1>2, <1>3

\* What a decision and a recalculation do last changes one chain.
LEMMA GoOnType ==
  ASSUME TypeOK, NEW i \in Instances, NEW rows \in [Key -> Req], GoOn(i, rows)
  PROVE  req' \in [Key -> Req] /\ chain' \in [Instances -> Chain] /\ stage' \in Stages
<1>1. CASE Advance(i, rows)
  <2> DEFINE s == chain[i].step
             later == {t \in InPlace(DefinitionOf[s]) : order[t] > order[s]}
  <2>1. CASE later = {}
    <3> DEFINE c == [chain[i] EXCEPT !.status = "approved", !.step = Absent]
    <3>1. /\ chain' = [chain EXCEPT ![i].status = "approved", ![i].step = Absent]
          /\ req' = rows /\ stage' \in OnComplete
      BY <1>1, <2>1 DEF Advance
    <3>2. chain \in [Instances -> Chain]
      BY DEF TypeOK
    <3>4. chain' \in [Instances -> Chain]
      BY <3>1, <3>2 DEF Chain, Decided
    <3>3. stage' \in Stages
      BY <3>1 DEF OnComplete, Stages, TypeOK
    <3> QED BY <3>1, <3>3, <3>4
  <2>2. CASE later # {}
    <3>1. PICK t \in Steps : /\ chain' = [chain EXCEPT ![i].step = t]
                             /\ req' = Materialize(rows, i, t)
                             /\ UNCHANGED stage
      BY <1>1, <2>2 DEF Advance
    <3>2. req' \in [Key -> Req]
      BY <3>1, MaterializeType
    <3>3. chain' \in [Instances -> Chain]
      BY <3>1 DEF TypeOK, Chain
    <3> QED BY <3>1, <3>2, <3>3 DEF TypeOK
  <2> QED BY <2>1, <2>2
<1>2. CASE ~Advance(i, rows)
  BY <1>2 DEF GoOn, TypeOK
<1> QED BY <1>1, <1>2

\* A chain that is pending has a step.
StepThere == \A i \in Instances : chain[i].status = "pending" => chain[i].step \in Steps

LEMMA TypeStep ==
  ASSUME TypeOK, StepThere, [Next]_vars
  PROVE  TypeOK'
<1>1. ASSUME NEW i \in Instances, NEW d \in Definitions, CreateInstance(i, d)
      PROVE  TypeOK'
  <2>1. PICK s \in Steps :
          /\ chain' = [chain EXCEPT ![i] =
               [status |-> "pending", step |-> s, of |-> d, steps |-> InPlace(d)]]
          /\ req' = Materialize(req, i, s)
    BY <1>1 DEF CreateInstance
  <2>2. req' \in [Key -> Req]
    BY <2>1, MaterializeType DEF TypeOK
  <2>3. chain' \in [Instances -> Chain]
    BY <2>1 DEF TypeOK, Chain, InPlace
  <2> QED BY <1>1, <2>2, <2>3 DEF CreateInstance, TypeOK, definition, Stages
<1>2. ASSUME NEW i \in Instances, NEW r \in Roles, NEW p \in People, NEW verdict \in Decided,
             Decide(i, r, p, verdict)
      PROVE  TypeOK'
  BY <1>2 DEF Decide, TypeOK, definition, Decision
<1>3. ASSUME NEW i \in Instances, Approve(i)
      PROVE  TypeOK'
  <2> deciding[i] # NoDecision
    BY <1>3 DEF Approve, NoDecision, Nobody
  <2>1. req' \in [Key -> Req] /\ chain' \in [Instances -> Chain] /\ stage' \in Stages
    BY <1>3, WithDecisionType, GoOnType DEF Approve
  <2> QED BY <1>3, <2>1 DEF Approve, TypeOK, definition
<1>4. ASSUME NEW i \in Instances, Reject(i)
      PROVE  TypeOK'
  <2> deciding[i] # NoDecision
    BY <1>4 DEF Reject, NoDecision, Nobody
  <2>0. ASSUME NEW row \in Req
        PROVE  [row EXCEPT !.status = "cancelled"] \in Req
    BY DEF Req
  <2>1. req' \in [Key -> Req]
    <3>1. WithDecision(i) \in [Key -> Req] /\ req \in [Key -> Req]
      BY WithDecisionType DEF TypeOK
    <3>2. \A key \in Key : req[key] \in Req /\ WithDecision(i)[key] \in Req
      BY <3>1
    <3>3. \A key \in Key : [req[key] EXCEPT !.status = "cancelled"] \in Req
      BY <2>0, <3>2
    <3> QED BY <1>4, <3>2, <3>3 DEF Reject
  <2>2. chain' \in [Instances -> Chain] /\ stage' \in Stages
    BY <1>4 DEF Reject, TypeOK, Chain, Decided, Stages
  <2> QED BY <1>4, <2>1, <2>2 DEF Reject, TypeOK, definition
<1>5. ASSUME NEW i \in Instances, Fail(i)
      PROVE  TypeOK'
  BY <1>5 DEF Fail, TypeOK, definition
<1>6. ASSUME NEW i \in Instances, Recalculate(i)
      PROVE  TypeOK'
  <2>1. req' \in [Key -> Req] /\ chain' \in [Instances -> Chain] /\ stage' \in Stages
    BY <1>6, RecalculatedType, GoOnType DEF Recalculate
  <2> DEFINE s == chain[i].step
             gone == {q \in Row(i, s) \ Wanted(s) : req[<<i, s, q>>].status \in Decided}
  <2>2. ASSUME NEW r \in gone
        PROVE  [key |-> <<i, s, r>>, status |-> req[<<i, s, r>>].status,
                by |-> req[<<i, s, r>>].by] \in Old
    <3>1. s \in Steps /\ r \in Roles
      BY <1>6 DEF Row, StepThere, Recalculate
    <3> QED BY <3>1 DEF Old, Key, TypeOK, Req
  <2>3. old' \in SUBSET Old
    <3>1. old' = old \cup {[key |-> <<i, s, r>>, status |-> req[<<i, s, r>>].status,
                            by |-> req[<<i, s, r>>].by] : r \in gone}
      BY <1>6 DEF Recalculate
    <3> QED BY <2>2, <3>1 DEF TypeOK
  <2> QED BY <1>6, <2>1, <2>3 DEF Recalculate, TypeOK, definition, Edit
<1>7. CASE Administers
  <2>1. ASSUME NEW s \in Steps, NEW r \in Roles, NEW place \in Places \cup {Absent},
               EditRules(s, r, place)
        PROVE  TypeOK'
    BY <2>1 DEF EditRules, Edit, TypeOK
  <2>2. ASSUME NEW r \in Roles, NEW P \in SUBSET People, Grant(r, P)
        PROVE  TypeOK'
    BY <2>2 DEF Grant, Edit, TypeOK
  <2>3. ASSUME NEW s \in Steps, SetMode(s) \/ DeleteStep(s)
        PROVE  TypeOK'
    BY <2>3 DEF SetMode, DeleteStep, Edit, TypeOK
  <2>4. ASSUME NEW s \in Steps, NEW n \in Steps, Reorder(s, n) \/ CreateStep(s, n)
        PROVE  TypeOK'
    <3>1. n \in Nat
      BY ChainAssumption DEF ChainAssumption
    <3>2. \A k \in Steps \X Roles : asks[k] \in Places \cup {Absent}
      BY DEF TypeOK
    <3>3. CASE Reorder(s, n)
      BY <3>1, <3>3 DEF Reorder, Edit, TypeOK
    <3>4. CASE CreateStep(s, n)
      <4>1. asks' \in [Steps \X Roles -> Places \cup {Absent}]
        BY <3>2, <3>4 DEF CreateStep
      <4> QED BY <3>1, <3>4, <4>1 DEF CreateStep, Edit, TypeOK
    <3> QED BY <2>4, <3>3, <3>4
  <2>5. ASSUME NEW D \in SUBSET Definitions, Activate(D)
        PROVE  TypeOK'
    BY <2>5 DEF Activate, Edit, TypeOK
  <2> QED BY <1>7, <2>1, <2>2, <2>3, <2>4, <2>5 DEF Administers
<1>8. ASSUME NEW to \in Stages, MoveStage(to)
      PROVE  TypeOK'
  BY <1>8 DEF MoveStage, TypeOK, Edit, definition
<1>9. CASE UNCHANGED vars
  BY <1>9 DEF vars, definition, TypeOK
<1> QED BY <1>1, <1>2, <1>3, <1>4, <1>5, <1>6, <1>7, <1>8, <1>9 DEF Next, Decides, Ends
-----------------------------------------------------------------------------
(***************************************************************************)
(* The end of a chain agrees with its requirements.                        *)
(***************************************************************************)
\* What is invariant of one chain: a chain that was not started has no
\* requirements, and a decision in flight is one of a pending requirement of the
\* current step, which only its own request can change.
Sound(i) ==
  /\ chain[i].status = "pending" => chain[i].step \in Steps
  /\ chain[i].status = "none" => \A key \in Of(i) : req[key] = NoReq
  /\ deciding[i] # NoDecision =>
       chain[i].status = "pending" /\ deciding[i].role \in Pending(i, chain[i].step)
  /\ Agrees(i)

SInv == TypeOK /\ \A i \in Instances : Sound(i)

LEMMA KeyIs ==
  ASSUME NEW i \in Instances, NEW key \in Of(i)
  PROVE  key \in Key /\ key[2] \in Steps /\ key[3] \in Roles /\ key = <<i, key[2], key[3]>>
  BY DEF Of, Key

LEMMA KeyOfIs ==
  ASSUME NEW i \in Instances, NEW s \in Steps, NEW r \in Roles
  PROVE  <<i, s, r>> \in Of(i)
  BY DEF Of, Key

\* A step that leaves a chain alone keeps what is invariant of it.
LEMMA SoundKept ==
  ASSUME NEW i \in Instances, Sound(i),
         chain'[i] = chain[i], deciding'[i] = deciding[i],
         \A key \in Of(i) : req'[key] = req[key]
  PROVE  Sound(i)'
<1>1. Agrees(i)'
  BY DEF Sound, Agrees
<1>2. ASSUME deciding[i] # NoDecision
      PROVE  deciding[i].role \in Pending(i, chain[i].step)'
  <2>1. /\ chain[i].step \in Steps /\ deciding[i].role \in Roles
        /\ req[<<i, chain[i].step, deciding[i].role>>].status = "pending"
    BY <1>2 DEF Sound, Pending
  <2>2. <<i, chain[i].step, deciding[i].role>> \in Of(i)
    BY <2>1, KeyOfIs
  <2> QED BY <2>1, <2>2 DEF Pending
<1> QED BY <1>1, <1>2 DEF Sound

LEMMA WithDecisionIs ==
  ASSUME SInv, NEW i \in Instances, deciding[i] # NoDecision
  PROVE  /\ KeyOf(i) \in Of(i) /\ req[KeyOf(i)].status = "pending"
         /\ chain[i].status = "pending" /\ chain[i].step \in Steps
         /\ KeyOf(i)[2] = chain[i].step
         /\ WithDecision(i)[KeyOf(i)].status = deciding[i].verdict
         /\ \A key \in Key \ {KeyOf(i)} : WithDecision(i)[key] = req[key]
<1>1. /\ chain[i].status = "pending" /\ chain[i].step \in Steps
      /\ deciding[i].role \in Roles /\ req[KeyOf(i)].status = "pending"
  BY DEF SInv, Sound, Pending, KeyOf
<1>2. KeyOf(i) \in Of(i) /\ KeyOf(i) \in Key /\ KeyOf(i)[2] = chain[i].step
  BY <1>1 DEF KeyOf, Of, Key
<1>3. req \in [Key -> Req]
  BY DEF SInv, TypeOK
<1> DEFINE k == KeyOf(i)
<1>4. WithDecision(i) =
        [req EXCEPT ![k] = [req[k] EXCEPT !.status = deciding[i].verdict, !.by = deciding[i].by]]
  BY <1>2, <1>3 DEF WithDecision
<1>5. req[k] \in Req
  BY <1>2, <1>3
<1> HIDE DEF k
<1>6. WithDecision(i)[k].status = deciding[i].verdict
  BY <1>2, <1>3, <1>4, <1>5 DEF Req, k
<1>7. \A key \in Key \ {k} : WithDecision(i)[key] = req[key]
  BY <1>3, <1>4
<1> QED BY <1>1, <1>2, <1>6, <1>7 DEF k

\* A chain that goes on with rows that agree with it agrees with them again, and
\* leaves the others alone.
LEMMA GoOnAgrees ==
  ASSUME TypeOK, NEW i \in Instances, NEW rows \in [Key -> Req], GoOn(i, rows),
         chain[i].status = "pending", chain[i].step \in Steps,
         \A key \in Of(i) : /\ rows[key].status # "rejected"
                            /\ rows[key].status = "pending" => key[2] = chain[i].step
  PROVE  /\ chain'[i].status \in {"pending", "approved"}
         /\ chain'[i].status = "pending" => chain'[i].step \in Steps
         /\ Agrees(i)'
         /\ \A key \in Key \ Of(i) : req'[key] = rows[key]
         /\ \A j \in Instances \ {i} : chain'[j] = chain[j]
<1> DEFINE s == chain[i].step
           live == {r \in Roles : rows[<<i, s, r>>].status # "none"}
           done == live # {} /\ \A r \in live : rows[<<i, s, r>>].status = "approved"
           later == {t \in InPlace(DefinitionOf[s]) : order[t] > order[s]}
<1>1. CASE ~done
  BY <1>1 DEF GoOn, Agrees
<1>2. ASSUME done, NEW key \in Of(i)
      PROVE  rows[key].status \notin {"pending", "rejected"}
  BY <1>2, KeyIs
<1>3. CASE done /\ later = {}
  <2>1. /\ chain' = [chain EXCEPT ![i].status = "approved", ![i].step = Absent]
        /\ req' = rows
    BY <1>3 DEF GoOn, Advance
  <2>2. chain'[i].status = "approved" /\ \A j \in Instances \ {i} : chain'[j] = chain[j]
    BY <2>1 DEF TypeOK, Chain
  <2> QED BY <1>2, <1>3, <2>1, <2>2 DEF Agrees
<1>4. CASE done /\ later # {}
  <2>1. PICK t \in Steps : /\ chain' = [chain EXCEPT ![i].step = t]
                           /\ req' = Materialize(rows, i, t)
    BY <1>4 DEF GoOn, Advance
  <2>2. /\ chain'[i].status = "pending" /\ chain'[i].step = t
        /\ \A j \in Instances \ {i} : chain'[j] = chain[j]
    BY <2>1 DEF TypeOK, Chain
  <2>3. \A key \in Key : req'[key] = IF key[1] = i /\ key[2] = t /\ key[3] \in Wanted(t)
                                     THEN Fresh(t, key[3]) ELSE rows[key]
    BY <2>1 DEF Materialize
  <2>4. ASSUME NEW key \in Of(i)
        PROVE  /\ req'[key].status # "rejected"
               /\ req'[key].status = "pending" => key[2] = t
    <3>1. rows[key].status \notin {"pending", "rejected"} /\ key \in Key /\ key[1] = i
      BY <1>2, <1>4, KeyIs DEF Of
    <3>2. CASE key[2] = t /\ key[3] \in Wanted(t)
      <4>1. req'[key] = Fresh(t, key[3])
        BY <2>3, <3>1, <3>2
      <4> QED BY <3>2, <4>1 DEF Fresh
    <3>3. CASE ~(key[2] = t /\ key[3] \in Wanted(t))
      BY <2>3, <3>1, <3>3
    <3> QED BY <3>2, <3>3
  <2>5. \A key \in Key \ Of(i) : req'[key] = rows[key]
    BY <2>3 DEF Of
  <2> QED BY <2>2, <2>4, <2>5 DEF Agrees
<1> QED BY <1>1, <1>3, <1>4

LEMMA SoundInit == Init => SInv
<1> SUFFICES ASSUME Init PROVE SInv
  OBVIOUS
<1>1. TypeOK
  <2>1. order \in [Steps -> Nat]
    BY ChainAssumption DEF ChainAssumption, Init, Absent
  <2>2. asks \in [Steps \X Roles -> Places \cup {Absent}]
    BY ChainAssumption DEF ChainAssumption, Init
  <2>3. chain \in [Instances -> Chain] /\ req \in [Key -> Req]
    BY DEF Init, Chain, NoReq, Req
  <2> QED BY <2>1, <2>2, <2>3 DEF Init, TypeOK, Stages
<1>2. \A i \in Instances : Sound(i)
  BY DEF Init, Sound, Agrees, Of
<1> QED BY <1>1, <1>2 DEF SInv

LEMMA SoundStep ==
  ASSUME SInv, [Next]_vars
  PROVE  SInv'
<1>t. TypeOK
  BY DEF SInv
<1>0. TypeOK'
  BY <1>t, TypeStep DEF SInv, Sound, StepThere
<1>s. \A j \in Instances : Sound(j)
  BY DEF SInv
<1> SUFFICES ASSUME NEW j \in Instances PROVE Sound(j)'
  BY <1>0 DEF SInv
<1>1. ASSUME NEW i \in Instances, NEW d \in Definitions, CreateInstance(i, d)
      PROVE  Sound(j)'
  <2>1. PICK s \in Steps :
          /\ chain' = [chain EXCEPT ![i] =
               [status |-> "pending", step |-> s, of |-> d, steps |-> InPlace(d)]]
          /\ req' = Materialize(req, i, s)
    BY <1>1 DEF CreateInstance
  <2>2. deciding' = deciding /\ chain[i].status = "none"
    BY <1>1 DEF CreateInstance
  <2>3. \A key \in Key : req'[key] = IF key[1] = i /\ key[2] = s /\ key[3] \in Wanted(s)
                                     THEN Fresh(s, key[3]) ELSE req[key]
    BY <2>1 DEF Materialize
  <2>4. CASE j = i
    <3>1. chain'[j].status = "pending" /\ chain'[j].step = s
      BY <1>t, <2>1, <2>4 DEF TypeOK
    <3>2. deciding'[j] = NoDecision
      BY <1>s, <2>2, <2>4 DEF Sound
    <3>3. ASSUME NEW key \in Of(j)
          PROVE  /\ req'[key].status # "rejected"
                 /\ req'[key].status = "pending" => key[2] = s
      <4>1. req[key] = NoReq /\ key \in Key /\ key[1] = i
        BY <1>s, <2>2, <2>4, KeyIs DEF Sound, Of
      <4>2. CASE key[2] = s /\ key[3] \in Wanted(s)
        <5>1. req'[key] = Fresh(s, key[3])
          BY <2>3, <4>1, <4>2
        <5> QED BY <4>2, <5>1 DEF Fresh
      <4>3. CASE ~(key[2] = s /\ key[3] \in Wanted(s))
        <5>1. req'[key] = NoReq
          BY <2>3, <4>1, <4>3
        <5> QED BY <5>1 DEF NoReq
      <4> QED BY <4>2, <4>3
    <3> QED BY <3>1, <3>2, <3>3 DEF Sound, Agrees
  <2>5. CASE j # i
    <3>1. \A key \in Of(j) : req'[key] = req[key]
      BY <2>3, <2>5 DEF Of
    <3> QED BY <1>t, <1>s, <2>1, <2>2, <2>5, <3>1, SoundKept DEF TypeOK
  <2> QED BY <2>4, <2>5
<1>2. ASSUME NEW i \in Instances, NEW r \in Roles, NEW p \in People, NEW verdict \in Decided,
             Decide(i, r, p, verdict)
      PROVE  Sound(j)'
  <2>1. chain' = chain /\ req' = req
    BY <1>2 DEF Decide
  <2>2. CASE j = i
    <3>1. deciding'[i].role = r /\ chain[i].status = "pending" /\ r \in Pending(i, chain[i].step)
      BY <1>t, <1>2 DEF Decide, MayDecide, TypeOK
    <3>2. Pending(i, chain[i].step)' = Pending(i, chain[i].step)
      BY <2>1 DEF Pending
    <3> QED BY <1>s, <2>1, <2>2, <3>1, <3>2 DEF Sound, Agrees
  <2>3. CASE j # i
    BY <1>t, <1>s, <1>2, <2>1, <2>3, SoundKept DEF Decide, TypeOK
  <2> QED BY <2>2, <2>3
<1>3. ASSUME NEW i \in Instances, Approve(i)
      PROVE  Sound(j)'
  <2>1. deciding[i] # NoDecision /\ deciding[i].verdict = "approved"
    BY <1>3 DEF Approve, NoDecision, Nobody
  <2>2. /\ WithDecision(i) \in [Key -> Req] /\ GoOn(i, WithDecision(i))
        /\ deciding' = [deciding EXCEPT ![i] = NoDecision]
    BY <1>t, <1>3, <2>1, WithDecisionType DEF Approve
  <2>3. /\ chain[i].status = "pending" /\ chain[i].step \in Steps
        /\ \A key \in Of(i) : /\ WithDecision(i)[key].status # "rejected"
                              /\ WithDecision(i)[key].status = "pending" => key[2] = chain[i].step
    BY <1>s, <2>1, WithDecisionIs, KeyIs DEF Sound, Agrees
  <2>4. /\ chain'[i].status \in {"pending", "approved"}
        /\ chain'[i].status = "pending" => chain'[i].step \in Steps
        /\ Agrees(i)'
        /\ \A key \in Key \ Of(i) : req'[key] = WithDecision(i)[key]
        /\ \A k \in Instances \ {i} : chain'[k] = chain[k]
    BY <1>t, <2>2, <2>3, GoOnAgrees
  <2>5. CASE j = i
    BY <1>t, <2>2, <2>4, <2>5 DEF Sound, TypeOK
  <2>6. CASE j # i
    <3>1. \A key \in Of(j) : req'[key] = req[key]
      BY <2>1, <2>4, <2>6, WithDecisionIs DEF Of
    <3> QED BY <1>t, <1>s, <2>2, <2>4, <2>6, <3>1, SoundKept DEF TypeOK
  <2> QED BY <2>5, <2>6
<1>4. ASSUME NEW i \in Instances, Reject(i)
      PROVE  Sound(j)'
  <2>1. deciding[i] # NoDecision /\ deciding[i].verdict = "rejected"
    BY <1>4 DEF Reject, NoDecision, Nobody
  <2>2. /\ chain' = [chain EXCEPT ![i].status = "rejected"]
        /\ deciding' = [deciding EXCEPT ![i] = NoDecision]
        /\ \A key \in Key : req'[key] =
             IF key[1] = i /\ req[key].status = "pending" /\ key # KeyOf(i)
             THEN [req[key] EXCEPT !.status = "cancelled"] ELSE WithDecision(i)[key]
    BY <1>4 DEF Reject
  <2>3. /\ KeyOf(i) \in Of(i) /\ KeyOf(i) \in Key
        /\ WithDecision(i)[KeyOf(i)].status = "rejected"
        /\ \A key \in Key \ {KeyOf(i)} : WithDecision(i)[key] = req[key]
        /\ chain[i].status = "pending"
    BY <2>1, WithDecisionIs, KeyIs
  <2>4. CASE j = i
    <3>1. chain'[j].status = "rejected" /\ deciding'[j] = NoDecision
      BY <1>t, <2>2, <2>4 DEF TypeOK, Chain
    <3>2. req'[KeyOf(i)].status = "rejected"
      BY <2>2, <2>3
    <3>3. ASSUME NEW key \in Of(i) \ {KeyOf(i)}
          PROVE  req'[key].status \notin {"pending", "rejected"}
      <4>1. key \in Key /\ key[1] = i /\ req[key] \in Req /\ req[key].status # "rejected"
        BY <1>t, <1>s, <2>3, KeyIs DEF Sound, Agrees, TypeOK, Of
      <4>2. CASE req[key].status = "pending"
        BY <2>2, <4>1, <4>2 DEF Req
      <4>3. CASE req[key].status # "pending"
        BY <2>2, <2>3, <4>1, <4>3
      <4> QED BY <4>2, <4>3
    <3> QED BY <2>3, <2>4, <3>1, <3>2, <3>3 DEF Sound, Agrees
  <2>5. CASE j # i
    <3>1. \A key \in Of(j) : req'[key] = req[key]
      BY <2>2, <2>3, <2>5 DEF Of
    <3> QED BY <1>t, <1>s, <2>2, <2>5, <3>1, SoundKept DEF TypeOK
  <2> QED BY <2>4, <2>5
<1>5. ASSUME NEW i \in Instances, Fail(i)
      PROVE  Sound(j)'
  <2>1. chain' = chain /\ req' = req /\ deciding' = [deciding EXCEPT ![i] = NoDecision]
    BY <1>5 DEF Fail
  <2>2. CASE j = i
    BY <1>t, <1>s, <2>1, <2>2 DEF Sound, Agrees, TypeOK
  <2>3. CASE j # i
    BY <1>t, <1>s, <2>1, <2>3, SoundKept DEF TypeOK
  <2> QED BY <2>2, <2>3
<1>6. ASSUME NEW i \in Instances, Recalculate(i)
      PROVE  Sound(j)'
  <2>1. /\ chain[i].status = "pending" /\ deciding[i] = NoDecision /\ chain[i].step \in Steps
        /\ deciding' = deciding
        /\ GoOn(i, Recalculated(i)) /\ Recalculated(i) \in [Key -> Req]
    BY <1>t, <1>s, <1>6, RecalculatedType DEF Recalculate, Sound
  <2> DEFINE s == chain[i].step
  <2>2. \A key \in Key : Recalculated(i)[key] =
          IF key[1] # i \/ key[2] # s THEN req[key]
          ELSE IF key[3] \notin Wanted(s) THEN NoReq
          ELSE IF req[key].status = "none" THEN Fresh(s, key[3])
          ELSE [req[key] EXCEPT !.place = asks[<<s, key[3]>>]]
    BY DEF Recalculated
  <2>3. ASSUME NEW key \in Of(i)
        PROVE  /\ Recalculated(i)[key].status # "rejected"
               /\ Recalculated(i)[key].status = "pending" => key[2] = s
    <3>1. key \in Key /\ req[key] \in Req /\ req[key].status # "rejected"
      BY <1>t, <1>s, <2>1, KeyIs DEF Sound, Agrees, TypeOK
    <3>2. CASE key[1] # i \/ key[2] # s
      BY <1>s, <2>1, <2>2, <3>1, <3>2 DEF Sound, Agrees
    <3>3. CASE key[1] = i /\ key[2] = s
      <4>1. Recalculated(i)[key] \in
              {NoReq, Fresh(s, key[3]), [req[key] EXCEPT !.place = asks[<<s, key[3]>>]]}
        BY <2>2, <3>1, <3>3
      <4>2. [req[key] EXCEPT !.place = asks[<<s, key[3]>>]].status = req[key].status
        BY <3>1 DEF Req
      <4>3. NoReq.status # "rejected" /\ Fresh(s, key[3]).status # "rejected"
        BY DEF NoReq, Fresh
      <4> HIDE DEF s
      <4> QED BY <3>1, <3>3, <4>1, <4>2, <4>3
    <3> QED BY <3>2, <3>3
  <2>4. /\ chain'[i].status \in {"pending", "approved"}
        /\ chain'[i].status = "pending" => chain'[i].step \in Steps
        /\ Agrees(i)'
        /\ \A key \in Key \ Of(i) : req'[key] = Recalculated(i)[key]
        /\ \A k \in Instances \ {i} : chain'[k] = chain[k]
    BY <1>t, <2>1, <2>3, GoOnAgrees
  <2>5. CASE j = i
    BY <1>t, <2>1, <2>4, <2>5 DEF Sound, TypeOK
  <2>6. CASE j # i
    <3>1. \A key \in Of(j) : req'[key] = req[key]
      BY <2>2, <2>4, <2>6 DEF Of
    <3> QED BY <1>s, <2>1, <2>4, <2>6, <3>1, SoundKept
  <2> QED BY <2>5, <2>6
<1>7. CASE UNCHANGED <<chain, req, deciding>>
  BY <1>s, <1>7, SoundKept
<1>8. Administers => UNCHANGED <<chain, req, deciding>>
  BY DEF Administers, EditRules, Grant, SetMode, DeleteStep, Reorder, CreateStep, Activate
<1>9. ASSUME NEW to \in Stages, MoveStage(to)
      PROVE  UNCHANGED <<chain, req, deciding>>
  BY <1>9 DEF MoveStage
<1>10. UNCHANGED vars => UNCHANGED <<chain, req, deciding>>
  BY DEF vars
<1> QED BY <1>1, <1>2, <1>3, <1>4, <1>5, <1>6, <1>7, <1>8, <1>9, <1>10 DEF Next, Decides, Ends

THEOREM Soundness == Spec => []SInv
  BY SoundInit, SoundStep, PTL DEF Spec

\* Every reachable chain, requirement and decision is well typed.
THEOREM TypeCorrect == Spec => []TypeOK
<1>1. SInv => TypeOK
  BY DEF SInv
<1> QED BY <1>1, Soundness, PTL

\* The end of every chain is what its requirements say, for any numbers of
\* definitions, steps, roles and people.
THEOREM Agreement == Spec => []OutcomeAgrees
<1>1. SInv => OutcomeAgrees
  BY DEF SInv, Sound, OutcomeAgrees
<1> QED BY <1>1, Soundness, PTL

-----------------------------------------------------------------------------
(***************************************************************************)
(* Decisions stand.                                                        *)
(***************************************************************************)
\* What is live before a chain goes on is not written by going on: the step it
\* comes to had no rows, and is not the one it comes from.
LEMMA GoOnKeeps ==
  ASSUME TypeOK, NEW i \in Instances, NEW rows \in [Key -> Req], GoOn(i, rows),
         chain[i].step \in Steps,
         \A key \in Of(i) : key[2] # chain[i].step => rows[key] = req[key],
         NEW key \in Key, rows[key].status # "none"
  PROVE  req'[key] = rows[key]
<1> DEFINE s == chain[i].step
           later == {t \in InPlace(DefinitionOf[s]) : order[t] > order[s]}
<1>1. CASE req' = rows
  BY <1>1
<1>2. CASE req' # rows
  <2>1. PICK t \in Steps : t \in later /\ CanMaterialize(i, t) /\ req' = Materialize(rows, i, t)
    BY <1>2 DEF GoOn, Advance, IsFirst
  <2>2. t # s
    BY <2>1 DEF TypeOK
  <2>3. CASE key[1] = i /\ key[2] = t /\ key[3] \in Wanted(t)
    <3>1. key \in Of(i) /\ key = <<i, t, key[3]>> /\ rows[key] = req[key]
      BY <2>2, <2>3, KeyIs DEF Of
    <3>2. key[3] \notin Row(i, t)
      BY <2>1, <2>3 DEF CanMaterialize
    <3>3. req[<<i, t, key[3]>>].status = "none"
      BY <2>3, <3>2 DEF Row, Wanted
    <3> QED BY <3>1, <3>3
  <2>4. CASE ~(key[1] = i /\ key[2] = t /\ key[3] \in Wanted(t))
    BY <2>1, <2>4 DEF Materialize
  <2> QED BY <2>3, <2>4
<1> QED BY <1>1, <1>2

Stands(key) ==
  \/ req'[key].status = req[key].status /\ req'[key].by = req[key].by
  \/ req'[key] = NoReq
     /\ [key |-> key, status |-> req[key].status, by |-> req[key].by] \in old'

LEMMA StandsStep ==
  ASSUME SInv, Next, NEW key \in Key, req[key].status \in Decided
  PROVE  Stands(key)
<1>t. TypeOK /\ req[key] \in Req
  BY DEF SInv, TypeOK
<1>s. \A j \in Instances : Sound(j)
  BY DEF SInv
<1>k. \A i \in Instances : key[1] = i => key \in Of(i)
  BY DEF Of
<1>1. ASSUME NEW i \in Instances, NEW d \in Definitions, CreateInstance(i, d)
      PROVE  Stands(key)
  <2>1. PICK s \in Steps : req' = Materialize(req, i, s)
    BY <1>1 DEF CreateInstance
  <2>2. key[1] # i
    BY <1>1, <1>s, <1>k DEF CreateInstance, Sound, NoReq, Decided
  <2>3. req'[key] = req[key]
    BY <2>1, <2>2 DEF Materialize
  <2> QED BY <2>3 DEF Stands
<1>2. ASSUME NEW i \in Instances, Approve(i)
      PROVE  Stands(key)
  <2>1. deciding[i] # NoDecision
    BY <1>2 DEF Approve, NoDecision, Nobody
  <2>2. /\ chain[i].step \in Steps /\ KeyOf(i)[2] = chain[i].step /\ KeyOf(i) # key
        /\ \A k \in Key \ {KeyOf(i)} : WithDecision(i)[k] = req[k]
    BY <2>1, WithDecisionIs DEF Decided
  <2>3. /\ WithDecision(i)[key] = req[key] /\ WithDecision(i) \in [Key -> Req]
        /\ GoOn(i, WithDecision(i))
        /\ \A k \in Of(i) : k[2] # chain[i].step => WithDecision(i)[k] = req[k]
    BY <1>t, <1>2, <2>1, <2>2, WithDecisionType DEF Approve, Of
  <2>4. WithDecision(i)[key].status # "none"
    BY <2>3 DEF Decided
  <2>5. req'[key] = req[key]
    BY <1>t, <2>2, <2>3, <2>4, GoOnKeeps
  <2> QED BY <2>5 DEF Stands
<1>3. ASSUME NEW i \in Instances, Reject(i)
      PROVE  Stands(key)
  <2>1. deciding[i] # NoDecision
    BY <1>3 DEF Reject, NoDecision, Nobody
  <2>2. KeyOf(i) # key /\ \A k \in Key \ {KeyOf(i)} : WithDecision(i)[k] = req[k]
    BY <2>1, WithDecisionIs DEF Decided
  <2>3. req'[key] = req[key]
    BY <1>3, <2>2 DEF Reject, Decided
  <2> QED BY <2>3 DEF Stands
<1>4. ASSUME NEW i \in Instances, Recalculate(i)
      PROVE  Stands(key)
  <2> DEFINE s == chain[i].step
  <2>1. /\ s \in Steps /\ GoOn(i, Recalculated(i)) /\ Recalculated(i) \in [Key -> Req]
    BY <1>t, <1>s, <1>4, RecalculatedType DEF Recalculate, Sound
  <2>2. \A k \in Key : Recalculated(i)[k] =
          IF k[1] # i \/ k[2] # s THEN req[k]
          ELSE IF k[3] \notin Wanted(s) THEN NoReq
          ELSE IF req[k].status = "none" THEN Fresh(s, k[3])
          ELSE [req[k] EXCEPT !.place = asks[<<s, k[3]>>]]
    BY DEF Recalculated
  <2>3. \A k \in Of(i) : k[2] # s => Recalculated(i)[k] = req[k]
    BY <2>2 DEF Of
  <2>4. CASE Recalculated(i)[key].status # "none"
    <3>1. req'[key] = Recalculated(i)[key]
      BY <1>t, <2>1, <2>3, <2>4, GoOnKeeps
    <3>2. /\ [req[key] EXCEPT !.place = asks[<<s, key[3]>>]].status = req[key].status
          /\ [req[key] EXCEPT !.place = asks[<<s, key[3]>>]].by = req[key].by
      BY <1>t DEF Req
    <3>3. Recalculated(i)[key] \in {req[key], [req[key] EXCEPT !.place = asks[<<s, key[3]>>]]}
      <4>1. NoReq.status = "none" /\ req[key].status # "none"
        BY DEF Decided, NoReq
      <4>2. Recalculated(i)[key] # NoReq
        BY <2>4, <4>1
      <4> HIDE DEF s
      <4> QED BY <2>2, <4>1, <4>2
    <3> HIDE DEF s
    <3> QED BY <3>1, <3>2, <3>3 DEF Stands
  <2>5. CASE Recalculated(i)[key].status = "none"
    <3>1. key[1] = i /\ key[2] = s /\ key[3] \notin Wanted(s) /\ Recalculated(i)[key] = NoReq
      <4>1. [req[key] EXCEPT !.place = asks[<<s, key[3]>>]].status = req[key].status
        BY <1>t DEF Req
      <4> HIDE DEF s
      <4> QED BY <2>2, <2>5, <4>1 DEF Decided
    <3>2. key = <<i, s, key[3]>> /\ key[3] \in Row(i, s) \ Wanted(s)
      BY <1>k, <3>1, KeyIs DEF Row, Decided
    <3>3. [key |-> key, status |-> req[key].status, by |-> req[key].by] \in old'
      BY <1>4, <3>2 DEF Recalculate
    <3>4. req'[key] = NoReq
      <4>1. CASE req' = Recalculated(i)
        BY <3>1, <4>1
      <4>2. CASE req' # Recalculated(i)
        <5>1. PICK t \in Steps : /\ order[t] > order[s]
                                 /\ req' = Materialize(Recalculated(i), i, t)
          BY <2>1, <4>2 DEF GoOn, Advance, IsFirst
        <5>2. t # s
          BY <2>1, <5>1, <1>t DEF TypeOK
        <5> QED BY <3>1, <5>1, <5>2 DEF Materialize
      <4> QED BY <4>1, <4>2
    <3> QED BY <3>3, <3>4 DEF Stands
  <2> QED BY <2>4, <2>5
<1>5. CASE UNCHANGED req
  BY <1>5 DEF Stands
<1>6. Administers => UNCHANGED req
  BY DEF Administers, EditRules, Grant, SetMode, DeleteStep, Reorder, CreateStep, Activate
<1>7. ASSUME NEW i \in Instances, Fail(i) \/ Decides(i)
      PROVE  UNCHANGED req
  BY <1>7 DEF Fail, Decides, Decide
<1>8. ASSUME NEW to \in Stages, MoveStage(to)
      PROVE  UNCHANGED req
  BY <1>8 DEF MoveStage
<1> QED BY <1>1, <1>2, <1>3, <1>4, <1>5, <1>6, <1>7, <1>8 DEF Next, Ends

\* No decision is changed, asked for again or lost, whatever is edited and
\* recalculated meanwhile, for any numbers of steps, roles and edits.
THEOREM DecisionsKept == Spec => DecisionsStand
<1>1. SInv /\ [Next]_vars =>
        [\A key \in Key : req[key].status \in Decided =>
           \/ req'[key].status = req[key].status /\ req'[key].by = req[key].by
           \/ req'[key] = NoReq
              /\ [key |-> key, status |-> req[key].status, by |-> req[key].by] \in old']_vars
  BY StandsStep DEF Stands
<1> QED BY <1>1, Soundness, PTL DEF Spec, DecisionsStand

-----------------------------------------------------------------------------
(***************************************************************************)
(* No step is skipped, when steps are not reordered under a running chain. *)
(***************************************************************************)
\* The steps in place have orders of their own.
Distinct ==
  \A s, t \in Steps :
    /\ DefinitionOf[s] = DefinitionOf[t] /\ order[s] = order[t] /\ order[s] # Absent
    /\ s \notin dropped /\ t \notin dropped
    => s = t

\* What a pending chain has behind it is answered, and what an approved one has.
Path(i) ==
  /\ chain[i].status # "none" =>
       \A s \in chain[i].steps : DefinitionOf[s] = chain[i].of /\ order[s] # Absent
  /\ chain[i].status = "pending" =>
       /\ DefinitionOf[chain[i].step] = chain[i].of
       /\ \A s \in chain[i].steps \ dropped :
            /\ order[s] < order[chain[i].step] => Answered(i, s)
            /\ order[s] = order[chain[i].step] => s = chain[i].step
       /\ order[chain[i].step] # Absent
  /\ chain[i].status = "approved" => \A s \in chain[i].steps \ dropped : Answered(i, s)

PInv == SInv /\ Distinct /\ \A i \in Instances : Path(i)

AnsweredIn(rows, i, s) ==
  /\ {r \in Roles : rows[<<i, s, r>>].status # "none"} # {}
  /\ \A r \in Roles : rows[<<i, s, r>>].status # "none" => rows[<<i, s, r>>].status = "approved"

LEMMA AnsweredIs ==
  ASSUME NEW i \in Instances, NEW s \in Steps
  PROVE  /\ Answered(i, s) <=> AnsweredIn(req, i, s)
         /\ Answered(i, s)' <=> AnsweredIn(req', i, s)
  BY DEF Answered, AnsweredIn, Row

LEMMA AnsweredSame ==
  ASSUME NEW rows, NEW others, NEW i \in Instances, NEW s \in Steps,
         \A r \in Roles : rows[<<i, s, r>>] = others[<<i, s, r>>],
         AnsweredIn(rows, i, s)
  PROVE  AnsweredIn(others, i, s)
  BY DEF AnsweredIn

\* A step that leaves a chain and the orders alone, and only deletes steps.
LEMMA PathKept ==
  ASSUME TypeOK, NEW i \in Instances, Path(i), chain'[i] = chain[i],
         chain[i].status = "pending" => chain[i].step \in Steps,
         \A key \in Of(i) : req'[key] = req[key],
         \A s \in Steps : order[s] # Absent => order'[s] # Absent,
         chain[i].status = "pending" =>
           \A s \in Steps : DefinitionOf[s] = chain[i].of /\ order[s] # Absent
                            => order'[s] = order[s],
         dropped \subseteq dropped'
  PROVE  Path(i)'
<1>1. chain[i].steps \subseteq Steps
  BY DEF TypeOK, Chain
<1>2. ASSUME NEW s \in Steps, Answered(i, s)
      PROVE  Answered(i, s)'
  <2>1. \A r \in Roles : <<i, s, r>> \in Of(i)
    BY KeyOfIs
  <2> QED BY <1>2, <2>1, AnsweredIs, AnsweredSame
<1> QED BY <1>1, <1>2 DEF Path

LEMMA GoOnPath ==
  ASSUME TypeOK, Distinct, NEW i \in Instances, Path(i),
         chain[i].status = "pending", chain[i].step \in Steps,
         NEW rows \in [Key -> Req], GoOn(i, rows),
         \A key \in Of(i) : key[2] # chain[i].step => rows[key] = req[key],
         UNCHANGED <<order, dropped>>
  PROVE  Path(i)'
<1> DEFINE s == chain[i].step
           S == chain[i].steps
           later == {t \in InPlace(DefinitionOf[s]) : order[t] > order[s]}
<1>0. /\ S \subseteq Steps /\ order \in [Steps -> Nat]
      /\ DefinitionOf[s] = chain[i].of /\ order[s] # Absent
      /\ \A t \in S : DefinitionOf[t] = chain[i].of /\ order[t] # Absent
      /\ \A t \in S \ dropped : order[t] = order[s] => t = s
  BY DEF TypeOK, Chain, Path
<1>1. ASSUME NEW t \in S \ dropped, order[t] < order[s]
      PROVE  AnsweredIn(rows, i, t)
  <2>1. t \in Steps /\ t # s /\ AnsweredIn(req, i, t)
    BY <1>0, <1>1, AnsweredIs DEF Path
  <2>2. \A r \in Roles : <<i, t, r>> \in Of(i) /\ rows[<<i, t, r>>] = req[<<i, t, r>>]
    BY <2>1, KeyOfIs
  <2> QED BY <2>1, <2>2, AnsweredSame
<1>2. CASE ~AnsweredIn(rows, i, s)
  <2>1. req' = rows /\ chain' = chain
    BY <1>2 DEF GoOn, AnsweredIn
  <2>2. \A t \in S \ dropped : order[t] < order[s] => Answered(i, t)'
    BY <1>0, <1>1, <2>1, AnsweredIs
  <2> QED BY <1>0, <2>1, <2>2 DEF Path
<1>3. CASE AnsweredIn(rows, i, s)
  <2>1. Advance(i, rows)
    BY <1>3 DEF GoOn, AnsweredIn
  <2>2. \A t \in S \ dropped : order[t] > order[s] => t \in later
    BY <1>0 DEF InPlace
  <2>3. \A t \in S \ dropped : t \notin later => AnsweredIn(rows, i, t)
    BY <1>0, <1>1, <1>3, <2>2
  <2>4. CASE later = {}
    <3>1. /\ req' = rows /\ chain'[i].status = "approved"
          /\ chain'[i].steps = S /\ chain'[i].of = chain[i].of
      BY <2>1, <2>4 DEF Advance, TypeOK, Chain
    <3>2. \A t \in S \ dropped : Answered(i, t)'
      BY <1>0, <2>3, <2>4, <3>1, AnsweredIs
    <3> QED BY <1>0, <3>1, <3>2 DEF Path
  <2>5. CASE later # {}
    <3>1. PICK t \in Steps : /\ IsFirst(t, later)
                             /\ chain' = [chain EXCEPT ![i].step = t]
                             /\ req' = Materialize(rows, i, t)
      BY <2>1, <2>5 DEF Advance
    <3>2. /\ chain'[i].status = "pending" /\ chain'[i].step = t
          /\ chain'[i].steps = S /\ chain'[i].of = chain[i].of
      BY <3>1 DEF TypeOK, Chain
    <3>3. /\ DefinitionOf[t] = chain[i].of /\ order[t] # Absent /\ t \notin dropped
          /\ \A u \in later : order[t] <= order[u]
      BY <1>0, <3>1 DEF IsFirst, InPlace
    <3>4. \A u \in S \ dropped : order[u] = order[t] => u = t
      BY <1>0, <3>3 DEF Distinct
    <3>5. ASSUME NEW u \in S \ dropped, order[u] < order[t]
          PROVE  Answered(i, u)'
      <4>1. u \in Steps /\ u # t /\ u \notin later
        BY <1>0, <3>3, <3>5
      <4>2. AnsweredIn(rows, i, u)
        BY <2>3, <4>1
      <4>3. \A r \in Roles : req'[<<i, u, r>>] = rows[<<i, u, r>>]
        BY <3>1, <4>1, KeyOfIs, KeyIs DEF Materialize
      <4> QED BY <4>1, <4>2, <4>3, AnsweredSame, AnsweredIs
    <3> QED BY <1>0, <3>2, <3>3, <3>4, <3>5 DEF Path
  <2> QED BY <2>4, <2>5
<1> QED BY <1>2, <1>3

LEMMA PathInit == Init => PInv
<1> SUFFICES ASSUME Init PROVE PInv
  OBVIOUS
<1>1. Distinct
  BY DEF Init, Distinct
<1>2. \A i \in Instances : Path(i)
  BY DEF Init, Path
<1> QED BY <1>1, <1>2, SoundInit DEF PInv

LEMMA PathStep ==
  ASSUME ~Reordering, PInv, [Next]_vars
  PROVE  PInv'
<1>i. TypeOK /\ SInv /\ Distinct
  BY DEF PInv, SInv
<1>s. \A j \in Instances : Sound(j) /\ Path(j)
  BY DEF PInv, SInv
<1>0. SInv'
  BY <1>i, SoundStep
<1>o. order \in [Steps -> Nat] /\ dropped \in SUBSET Steps
  BY <1>i DEF TypeOK
<1>n. \A n \in Steps : n # Absent /\ n \in Nat
  BY ChainAssumption DEF ChainAssumption
<1>p. \A j \in Instances : chain[j].status = "pending" => chain[j].step \in Steps
  BY <1>s DEF Sound
\* Actions that leave orders and deletions alone.
<1>1. CASE /\ UNCHANGED <<order, dropped>>
           /\ \A j \in Instances : Path(j)'
  <2>1. Distinct'
    BY <1>i, <1>1 DEF Distinct
  <2> QED BY <1>0, <1>1, <2>1 DEF PInv
<1>2. ASSUME NEW i \in Instances, NEW d \in Definitions, CreateInstance(i, d)
      PROVE  PInv'
  <2>1. PICK s \in Steps :
          /\ IsFirst(s, InPlace(d))
          /\ chain' = [chain EXCEPT ![i] =
               [status |-> "pending", step |-> s, of |-> d, steps |-> InPlace(d)]]
          /\ req' = Materialize(req, i, s)
    BY <1>2 DEF CreateInstance
  <2>2. UNCHANGED <<order, dropped>>
    BY <1>2 DEF CreateInstance, definition
  <2>3. ASSUME NEW j \in Instances
        PROVE  Path(j)'
    <3>1. CASE j = i
      <4>1. chain'[j] = [status |-> "pending", step |-> s, of |-> d, steps |-> InPlace(d)]
        BY <1>i, <2>1, <3>1 DEF TypeOK
      <4>2. /\ s \in InPlace(d)
            /\ \A t \in InPlace(d) : /\ t \in Steps /\ order[s] <= order[t]
                                     /\ order[t] = order[s] => t = s
                                     /\ DefinitionOf[t] = d /\ order[t] # Absent
        BY <1>i, <2>1 DEF IsFirst, InPlace, Distinct
      <4>3. \A t \in InPlace(d) : ~(order[t] < order[s])
        BY <1>o, <4>2
      <4> QED BY <2>2, <4>1, <4>2, <4>3 DEF Path
    <3>2. CASE j # i
      <4>1. chain'[j] = chain[j]
        BY <1>i, <2>1, <3>2 DEF TypeOK
      <4>2. \A key \in Of(j) : req'[key] = req[key]
        BY <2>1, <3>2 DEF Materialize, Of
      <4> QED BY <1>i, <1>s, <1>p, <2>2, <4>1, <4>2, PathKept
    <3> QED BY <3>1, <3>2
  <2> QED BY <1>1, <2>2, <2>3
<1>3. ASSUME NEW i \in Instances, Approve(i)
      PROVE  PInv'
  <2>1. deciding[i] # NoDecision /\ UNCHANGED <<order, dropped>>
    BY <1>3 DEF Approve, NoDecision, Nobody, definition
  <2>2. /\ chain[i].status = "pending" /\ chain[i].step \in Steps
        /\ KeyOf(i) \in Of(i) /\ KeyOf(i)[2] = chain[i].step
        /\ \A k \in Key \ {KeyOf(i)} : WithDecision(i)[k] = req[k]
    BY <1>i, <2>1, WithDecisionIs
  <2>3. WithDecision(i) \in [Key -> Req] /\ GoOn(i, WithDecision(i))
    BY <1>i, <1>3, <2>1, WithDecisionType DEF Approve
  <2>4. \A k \in Of(i) : k[2] # chain[i].step => WithDecision(i)[k] = req[k]
    BY <2>2 DEF Of
  <2>5. Path(i)'
    BY <1>i, <1>s, <2>1, <2>2, <2>3, <2>4, GoOnPath
  <2>6. ASSUME NEW j \in Instances \ {i}
        PROVE  Path(j)'
    <3>1. chain'[j] = chain[j]
      BY <1>i, <2>3 DEF GoOn, Advance, TypeOK
    <3>2. \A key \in Of(j) : req'[key] = WithDecision(i)[key]
      BY <2>3 DEF GoOn, Advance, Materialize, Of
    <3>3. \A key \in Of(j) : WithDecision(i)[key] = req[key]
      BY <2>2 DEF Of
    <3> QED BY <1>i, <1>s, <1>p, <2>1, <3>1, <3>2, <3>3, PathKept
  <2> QED BY <1>1, <2>1, <2>5, <2>6
<1>4. ASSUME NEW i \in Instances, Reject(i)
      PROVE  PInv'
  <2>1. deciding[i] # NoDecision /\ UNCHANGED <<order, dropped>>
    BY <1>4 DEF Reject, NoDecision, Nobody, definition
  <2>2. KeyOf(i) \in Of(i) /\ \A k \in Key \ {KeyOf(i)} : WithDecision(i)[k] = req[k]
    BY <1>i, <2>1, WithDecisionIs
  <2>3. ASSUME NEW j \in Instances
        PROVE  Path(j)'
    <3>1. CASE j = i
      <4>1. /\ chain'[j].status = "rejected" /\ chain[j].status # "none"
            /\ chain'[j].steps = chain[j].steps /\ chain'[j].of = chain[j].of
        BY <1>i, <1>s, <1>4, <2>1, <3>1 DEF Reject, TypeOK, Chain, Sound
      <4> QED BY <1>s, <2>1, <4>1 DEF Path
    <3>2. CASE j # i
      <4>1. chain'[j] = chain[j]
        BY <1>i, <1>4, <3>2 DEF Reject, TypeOK
      <4>2. \A key \in Of(j) : req'[key] = req[key]
        BY <1>4, <2>2, <3>2 DEF Reject, Of
      <4> QED BY <1>i, <1>s, <1>p, <2>1, <4>1, <4>2, PathKept
    <3> QED BY <3>1, <3>2
  <2> QED BY <1>1, <2>1, <2>3
<1>5. ASSUME NEW i \in Instances, Recalculate(i)
      PROVE  PInv'
  <2>1. UNCHANGED <<order, dropped>>
    BY <1>5 DEF Recalculate, definition
  <2>2. /\ chain[i].status = "pending" /\ chain[i].step \in Steps
        /\ GoOn(i, Recalculated(i)) /\ Recalculated(i) \in [Key -> Req]
    BY <1>i, <1>p, <1>5, RecalculatedType DEF Recalculate
  <2>3. /\ \A k \in Of(i) : k[2] # chain[i].step => Recalculated(i)[k] = req[k]
        /\ \A j \in Instances \ {i} : \A k \in Of(j) : Recalculated(i)[k] = req[k]
    BY DEF Recalculated, Of
  <2>4. Path(i)'
    BY <1>i, <1>s, <2>1, <2>2, <2>3, GoOnPath
  <2>5. ASSUME NEW j \in Instances \ {i}
        PROVE  Path(j)'
    <3>1. chain'[j] = chain[j]
      BY <1>i, <2>2 DEF GoOn, Advance, TypeOK
    <3>2. \A key \in Of(j) : req'[key] = Recalculated(i)[key]
      BY <2>2 DEF GoOn, Advance, Materialize, Of
    <3> QED BY <1>i, <1>s, <1>p, <2>1, <2>3, <3>1, <3>2, PathKept
  <2> QED BY <1>1, <2>1, <2>4, <2>5
<1>6. CASE UNCHANGED <<chain, req, order, dropped>>
  <2>1. \A j \in Instances : Path(j)'
    BY <1>i, <1>s, <1>p, <1>6, PathKept
  <2> QED BY <1>1, <1>6, <2>1
<1>7. ASSUME NEW s \in Steps, DeleteStep(s)
      PROVE  PInv'
  <2>1. UNCHANGED <<chain, req, order>> /\ dropped \subseteq dropped'
    BY <1>7 DEF DeleteStep
  <2>2. Distinct'
    BY <1>i, <2>1 DEF Distinct
  <2>3. \A j \in Instances : Path(j)'
    BY <1>i, <1>s, <1>p, <2>1, PathKept
  <2> QED BY <1>0, <2>2, <2>3 DEF PInv
<1>8. ASSUME NEW s \in Steps, NEW n \in Steps, Reorder(s, n) \/ CreateStep(s, n)
      PROVE  PInv'
  <2>1. /\ UNCHANGED <<chain, req, dropped>> /\ order' = [order EXCEPT ![s] = n]
        /\ \A t \in InPlace(DefinitionOf[s]) : order[t] # n
    BY <1>8 DEF Reorder, CreateStep
  <2>2. order[s] = Absent \/ ~Runs(DefinitionOf[s])
    BY <1>8 DEF Reorder, CreateStep
  <2>3. Distinct'
    BY <1>i, <1>o, <1>n, <2>1 DEF Distinct, InPlace
  <2>4. ASSUME NEW j \in Instances
        PROVE  Path(j)'
    <3>1. \A t \in Steps : order[t] # Absent => order'[t] # Absent
      BY <1>o, <1>n, <2>1
    <3>2. chain[j].status = "pending" =>
            \A t \in Steps : DefinitionOf[t] = chain[j].of /\ order[t] # Absent
                             => order'[t] = order[t]
      BY <1>o, <2>1, <2>2 DEF Runs
    <3> QED BY <1>i, <1>s, <1>p, <2>1, <3>1, <3>2, PathKept
  <2> QED BY <1>0, <2>3, <2>4 DEF PInv
<1>9. CASE Administers
  <2>1. ASSUME \/ \E s \in Steps, r \in Roles, place \in Places \cup {Absent} :
                    EditRules(s, r, place)
               \/ \E r \in Roles, P \in SUBSET People : Grant(r, P)
               \/ \E s \in Steps : SetMode(s)
               \/ \E D \in SUBSET Definitions : Activate(D)
        PROVE  UNCHANGED <<chain, req, order, dropped>>
    BY <2>1 DEF EditRules, Grant, SetMode, Activate
  <2> QED BY <1>6, <1>7, <1>8, <1>9, <2>1 DEF Administers
<1>10. ASSUME NEW i \in Instances, Fail(i) \/ Decides(i)
       PROVE  UNCHANGED <<chain, req, order, dropped>>
  BY <1>10 DEF Fail, Decides, Decide, definition
<1>11. ASSUME NEW to \in Stages, MoveStage(to)
       PROVE  UNCHANGED <<chain, req, order, dropped>>
  BY <1>11 DEF MoveStage, definition
<1>12. UNCHANGED vars => UNCHANGED <<chain, req, order, dropped>>
  BY DEF vars, definition
<1> QED BY <1>2, <1>3, <1>4, <1>5, <1>6, <1>9, <1>10, <1>11, <1>12 DEF Next, Ends

\* A chain that is approved has had the approval of every step it was started
\* with and that is still there, unless steps change places while it runs.
THEOREM NothingSkipped == ~Reordering => (Spec => []NoStepSkipped)
<1> SUFFICES ASSUME ~Reordering PROVE Spec => []NoStepSkipped
  OBVIOUS
<1>1. PInv => NoStepSkipped
  BY DEF PInv, Path, NoStepSkipped
<1>2. PInv /\ [Next]_vars => PInv'
  BY PathStep
<1> QED BY <1>1, <1>2, PathInit, PTL DEF Spec
=============================================================================
