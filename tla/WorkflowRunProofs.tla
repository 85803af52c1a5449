------------------------- MODULE WorkflowRunProofs -------------------------
(***************************************************************************)
(* The types of WorkflowRun, for any workflows and any number of sessions; *)
(* and, with one session, three invariants, each resting on the one before *)
(* it.  OrderOK is the order of the steps: sending back, walking on and    *)
(* settling are all shown to keep it.  GateInv adds what the gates, the    *)
(* draft, the contract and the request say of one another: what is closed  *)
(* as finished is signed, what was signed stays signed off, rework takes   *)
(* the contract back.  OwedOK adds the reply a rejection is owed.          *)
(***************************************************************************)
EXTENDS WorkflowRun, FiniteSetTheorems, TLAPS

-----------------------------------------------------------------------------
(***************************************************************************)
(* Numbers.                                                                *)
(***************************************************************************)
\* Min is what its name says, of any set of natural numbers that has any.
LEMMA LeastIn ==
  ASSUME NEW S \in SUBSET Nat, S # {}
  PROVE  Min(S) \in S /\ \A y \in S : Min(S) <= y
<1>. DEFINE Below(x) == 1..x
            T == {Below(x) : x \in S}
<1>1. T \subseteq FiniteSubsetsOf(Nat) /\ T # {}
  <2>1. ASSUME NEW x \in S PROVE Below(x) \in FiniteSubsetsOf(Nat)
    <3>1. IsFiniteSet(1..x)
      BY FS_Interval
    <3>2. 1..x \in SUBSET Nat
      OBVIOUS
    <3>. QED
      BY <3>1, <3>2 DEF FiniteSubsetsOf
  <2>2. PICK x \in S : TRUE
    OBVIOUS
  <2>3. Below(x) \in T
    OBVIOUS
  <2>. HIDE DEF Below
  <2>. QED
    BY <2>1, <2>3
<1>2. PICK t \in T : \A u \in T : ~ (<<u, t>> \in StrictSubsetOrdering(Nat))
  BY <1>1, FS_StrictSubsetOrderingWellFounded, WFMin
<1>3. PICK x \in S : t = Below(x)
  BY <1>2
<1>4. ASSUME NEW y \in S, y < x PROVE FALSE
  <2>1. Below(y) \in T
    OBVIOUS
  <2>2. Below(y) \subseteq Below(x) /\ x \in Below(x) /\ x \notin Below(y)
    BY <1>4
  <2>3. Below(y) # Below(x)
    BY <2>2
  <2>4. Below(y) \in SUBSET Nat /\ Below(x) \in SUBSET Nat
    OBVIOUS
  <2>. HIDE DEF Below
  <2>5. <<Below(y), Below(x)>> \in StrictSubsetOrdering(Nat)
    BY <2>2, <2>3, <2>4 DEF StrictSubsetOrdering
  <2>. QED
    BY <1>2, <1>3, <2>1, <2>5
<1>5. \A y \in S : x <= y
  BY <1>4
<1>. QED
  BY <1>5 DEF Min

\* So is Max, where there is a bound.
LEMMA GreatestIn ==
  ASSUME NEW n \in Nat, NEW S \in SUBSET (1..n), S # {}
  PROVE  Max(S) \in S /\ \A y \in S : y <= Max(S)
<1>. DEFINE T == {n - x : x \in S}
<1>1. T \in SUBSET Nat /\ T # {}
  <2>1. \A x \in S : n - x \in Nat
    OBVIOUS
  <2>2. PICK x \in S : TRUE
    OBVIOUS
  <2>3. n - x \in T
    OBVIOUS
  <2>. QED
    BY <2>1, <2>3
<1>2. PICK x \in S : Min(T) = n - x
  BY <1>1, LeastIn
<1>3. \A y \in S : x >= y
  BY <1>1, <1>2, LeastIn
<1>. QED
  BY <1>3 DEF Max

-----------------------------------------------------------------------------
(***************************************************************************)
(* What the workflow's steps look like.                                    *)
(***************************************************************************)
LEMMA FlowFacts ==
  ASSUME flow \in Flows
  PROVE  /\ Last \in Nat /\ Steps = 1..Last
         /\ \A i \in Steps : /\ flow[i] \in Step
                             /\ flow[i].next \in Nat
                             /\ i < flow[i].next /\ flow[i].next <= Last + 1
         /\ \A i, j \in Steps : i < j /\ j < flow[i].next => flow[j].next = flow[i].next
<1>. USE WorkflowAssumption DEF WorkflowAssumption
<1>1. flow \in Seq(Step)
  OBVIOUS
<1>2. Last \in Nat /\ Steps = 1..Last /\ \A i \in Steps : flow[i] \in Step
  BY <1>1 DEF Last, Steps
<1>3. \A i \in Steps : flow[i].next \in Nat
  BY <1>2 DEF Step
<1>. QED
  BY <1>1, <1>2, <1>3 DEF Steps, Last

\* A slow step is alone in its group.
LEMMA SlowFacts ==
  ASSUME flow \in Flows, NEW i \in Steps, flow[i].kind \in {"ai", "draft"}
  PROVE  /\ flow[i].next = i + 1
         /\ \A j \in Steps : j < i => flow[j].next <= i
BY WorkflowAssumption DEF WorkflowAssumption, Steps

-----------------------------------------------------------------------------
(***************************************************************************)
(* The rows the engine computes are rows.                                  *)
(***************************************************************************)
LEMMA RowFacts ==
  ASSUME flow \in Flows, NEW r \in Row
  PROVE  /\ r.index \in 1..(Last + 1)
         /\ r.step \in [Steps -> Open \cup Waiting \cup Terminal]
         /\ r.status \in {"none", "complete", "failed", "cancelled"} \cup Active
         /\ r.linked \in BOOLEAN /\ r.owed \in BOOLEAN
BY DEF Row

\* The walk stops at a step of the workflow or at its end, where the next group
\* begins that is not all passing, and at none before.
LEMMA StopFacts ==
  ASSUME flow \in Flows, NEW r \in Row, NEW pass
  PROVE  /\ StopsAt(r, pass) \in r.index..(Last + 1)
         /\ LET stop == StopsAt(r, pass) IN
              \/ stop = Last + 1
              \/ /\ stop = r.index \/ flow[stop - 1].next = stop
                 /\ ~ (Group(stop) \subseteq pass)
         /\ \A j \in r.index..Last :
              /\ j < StopsAt(r, pass)
              /\ j = r.index \/ flow[j - 1].next = j
              => Group(j) \subseteq pass
<1>. DEFINE S == {j \in r.index..(Last + 1) :
                    \/ j = Last + 1
                    \/ /\ j = r.index \/ flow[j - 1].next = j
                       /\ ~ (Group(j) \subseteq pass)}
<1>1. Last \in Nat /\ r.index \in 1..(Last + 1)
  BY FlowFacts, RowFacts
<1>2. S \in SUBSET Nat /\ Last + 1 \in S
  BY <1>1
<1>3. Min(S) \in S /\ \A j \in S : Min(S) <= j
  BY <1>2, LeastIn
<1>4. StopsAt(r, pass) = Min(S)
  BY DEF StopsAt
<1>5. ASSUME NEW j \in r.index..Last, j < Min(S),
             j = r.index \/ flow[j - 1].next = j
      PROVE  Group(j) \subseteq pass
  <2>1. j \notin S
    BY <1>1, <1>2, <1>3, <1>5
  <2>. QED
    BY <1>1, <1>5, <2>1
<1>. QED
  BY <1>3, <1>4, <1>5

LEMMA WalkedType ==
  ASSUME flow \in Flows, NEW r \in Row, NEW pass, NEW stop \in 1..(Last + 1)
  PROVE  Walked(r, pass, stop) \in Row
BY DEF Walked, Row, Terminal

LEMMA EnteredType ==
  ASSUME flow \in Flows, NEW i \in Steps
  PROVE  Entered(i) \in {"waiting_human", "running", "waiting_job"}
<1>1. flow[i].kind \in Kinds
  BY FlowFacts DEF Step
<1>. QED
  BY <1>1 DEF Entered, Kinds, Gates

LEMMA ParkedType ==
  ASSUME flow \in Flows, NEW w \in Row
  PROVE  Parked(w) \in Row
BY EnteredType DEF Parked, Row, Open, Waiting, Active

LEMMA VerdictType ==
  ASSUME flow \in Flows, NEW i \in Steps, NEW now \in Open \cup Waiting \cup Terminal, NEW c
  PROVE  Verdict(i, now, c) \in Open \cup Waiting \cup Terminal
BY DEF Verdict, Open, Terminal

LEMMA ReopenedType ==
  ASSUME flow \in Flows, NEW r \in Row, NEW to \in Steps
  PROVE  Reopened(r, to) \in Row
<1>1. to \in 1..(Last + 1)
  BY FlowFacts
<1>. QED
  BY <1>1 DEF Reopened, Row, Open, Active

LEMMA TargetFacts ==
  ASSUME flow \in Flows, NEW r \in Row, ReworkTargets(r) # {}
  PROVE  /\ Max(ReworkTargets(r)) \in Steps
         /\ Max(ReworkTargets(r)) < r.index
<1>1. ReworkTargets(r) \subseteq {i \in Steps : i < r.index}
  BY DEF ReworkTargets
<1>2. Steps = 1..Last /\ Last \in Nat
  BY FlowFacts
<1>. QED
  BY <1>1, <1>2, GreatestIn

LEMMA SentBackType ==
  ASSUME flow \in Flows, NEW r \in Row
  PROVE  SentBack(r) \in Row
<1>1. CASE ReworkTargets(r) = {}
  BY <1>1 DEF SentBack, Row
<1>2. CASE ReworkTargets(r) # {}
  <2>. DEFINE b == Reopened(r, Max(ReworkTargets(r)))
  <2>1. b \in Row
    BY <1>2, TargetFacts, ReopenedType
  <2>2. \A v \in BOOLEAN : [b EXCEPT !.owed = v] \in Row
    BY <2>1 DEF Row
  <2>. HIDE DEF b
  <2>3. PICK v \in BOOLEAN : v = (b.owed \/ \E i \in Group(r.index) :
                          flow[i].kind = "approval" /\ r.step[i] = "failed")
    BY Zenon
  <2>4. SentBack(r) = [b EXCEPT !.owed = v]
    BY <1>2, <2>3 DEF SentBack, b
  <2>. QED
    BY <2>2, <2>4
<1>. QED
  BY <1>1, <1>2

LEMMA SettledType ==
  ASSUME flow \in Flows, NEW r \in Row, NEW c
  PROVE  Settled(r, c) \in Row
<1>. DEFINE g == Group(r.index)
            t == [r EXCEPT !.step = [i \in Steps |-> IF i \in g
                                       THEN Verdict(i, r.step[i], c) ELSE r.step[i]]]
<1>1. t \in Row
  BY VerdictType DEF Row
<1>2. ASSUME r.index <= Last PROVE flow[r.index].next \in 1..(Last + 1)
  <2>1. r.index \in Steps
    BY <1>2, FlowFacts, RowFacts
  <2>. QED
    BY <2>1, FlowFacts
<1>. HIDE DEF t
<1>3. r.index <= Last =>
        [t EXCEPT !.index = flow[r.index].next, !.status = "running"] \in Row
  BY <1>1, <1>2 DEF Row, Active
<1>4. [t EXCEPT !.status = "running"] \in Row
  BY <1>1 DEF Row, Active
<1>5. SentBack(t) \in Row
  BY <1>1, SentBackType
<1>6. r.index \in Nat /\ Last \in Nat
  BY FlowFacts, RowFacts
<1>7. Settled(r, c) =
        IF r.index > Last THEN r
        ELSE IF \E i \in g : t.step[i] = "failed" /\ r.step[i] # "failed" THEN SentBack(t)
        ELSE IF \A i \in g : t.step[i] \in Terminal
             THEN [t EXCEPT !.index = flow[r.index].next, !.status = "running"]
        ELSE IF \E i \in g : t.step[i] \in Open THEN [t EXCEPT !.status = "running"]
        ELSE t
  BY DEF Settled, t
<1>. HIDE DEF g
<1>8. CASE r.index > Last
  BY <1>7, <1>8
<1>9. CASE r.index <= Last
  BY <1>1, <1>3, <1>4, <1>5, <1>6, <1>7, <1>9
<1>. QED
  BY <1>6, <1>8, <1>9

LEMMA SaveType ==
  ASSUME flow \in Flows, run \in Row, NEW base \in Row, NEW r \in Row, Save(base, r)
  PROVE  run' \in Row
BY DEF Save, Row

LEMMA SubmittedType ==
  ASSUME NEW c \in ContractRow
  PROVE  Submitted(c) \subseteq ContractRow
BY DEF Submitted, ContractRow

LEMMA OpenedType ==
  ASSUME NEW c \in ContractRow
  PROVE  OpenedForSigning(c) \in ContractRow
BY DEF OpenedForSigning, ContractRow

LEMMA AfterEnteringType ==
  ASSUME NEW c \in ContractRow, NEW E
  PROVE  AfterEntering(c, E) \subseteq ContractRow
BY SubmittedType, OpenedType DEF AfterEntering

\* What advance_run does, it does to rows.
LEMMA AdvanceType ==
  ASSUME TypeOK, NEW s \in Sessions, NEW base \in Row, NEW r \in Row,
         NEW c \in ContractRow, NEW again, Advance(s, base, r, c, again)
  PROVE  /\ run' \in Row
         /\ contract' \in ContractRow
         /\ request' \in RequestRow
         /\ work' \in [Sessions -> Working]
<1>. USE DEF TypeOK
<1>1. Idle \in Working
  BY DEF Working
<1>2. ASSUME NEW w \in Working, Now(s, w) PROVE work' \in [Sessions -> Working]
  BY <1>2 DEF Now
<1>3. CASE r.status # "running"
  BY <1>1, <1>2, <1>3, SaveType DEF Advance
<1>4. ASSUME r.status = "running",
             NEW pass, NEW w \in {Walked(r, pass, StopsAt(r, pass))},
             \/ w.index > Last /\ Finish(s, base, w, c)
             \/ w.index <= Last /\ (BeginWork(s, base, w, c) \/ Park(s, base, w, c))
      PROVE  /\ run' \in Row
             /\ contract' \in ContractRow
             /\ request' \in RequestRow
             /\ work' \in [Sessions -> Working]
  <2>1. StopsAt(r, pass) \in 1..(Last + 1)
    <3>1. StopsAt(r, pass) \in r.index..(Last + 1)
      BY StopFacts
    <3>. QED
      BY <3>1, RowFacts, FlowFacts
  <2>2. w \in Row
    BY <2>1, WalkedType
  <2>3. CASE Finish(s, base, w, c)
    <3>1. /\ [w EXCEPT !.status = "complete"] \in Row
          /\ [w EXCEPT !.status = "cancelled"] \in Row
      BY <2>2 DEF Row
    <3>2. run' \in Row
      BY <2>3, <3>1, SaveType DEF Finish
    <3>3. contract' \in ContractRow
      BY <2>3 DEF Finish, ContractRow
    <3>4. request' \in RequestRow
      BY <2>3 DEF Finish, RequestRow
    <3>. QED
      BY <1>1, <1>2, <2>3, <3>2, <3>3, <3>4 DEF Finish
  <2>4. CASE w.index <= Last /\ BeginWork(s, base, w, c)
    <3>1. w.index \in Steps
      BY <2>2, <2>4, RowFacts, FlowFacts
    <3>2. \A p \in {"agent", "linked", "drafting"} :
            [phase |-> p, at |-> w.index, saw |-> w] \in Working
      BY <2>2, <3>1 DEF Working
    <3>3. work' \in [Sessions -> Working]
      BY <1>2, <2>4, <3>2 DEF BeginWork
    <3>. QED
      BY <2>2, <2>4, <3>3, SaveType DEF BeginWork
  <2>5. CASE Park(s, base, w, c)
    <3>1. Parked(w) \in Row
      BY <2>2, ParkedType
    <3>2. contract' \in ContractRow
      BY <2>5, AfterEnteringType DEF Park
    <3>. QED
      BY <1>1, <1>2, <2>5, <3>1, <3>2, SaveType DEF Park
  <2>. QED
    BY <1>4, <2>3, <2>4, <2>5
<1>. QED
  BY <1>3, <1>4 DEF Advance

-----------------------------------------------------------------------------
(***************************************************************************)
(* Types.                                                                  *)
(***************************************************************************)
LEMMA BelievedType ==
  ASSUME TypeOK, NEW s \in Sessions, ~ Free(s)
  PROVE  /\ work[s] \in Working /\ work[s] # Idle
         /\ work[s].at \in Steps /\ work[s].saw \in Row
         /\ Believed(s) \in Row
<1>1. work[s] \in [phase : {"agent", "drafting", "drafted", "linked"},
                   at : Steps, saw : Row]
  BY DEF TypeOK, Free, Working
<1>2. work[s].at \in Steps /\ work[s].saw \in Row
  BY <1>1
<1>3. Believed(s) \in Row
  BY <1>2 DEF Believed, TypeOK, Row
<1>. QED
  BY <1>1, <1>2, <1>3 DEF Free, Working

LEMMA OverType ==
  ASSUME flow \in Flows, NEW r \in Row, NEW i \in Steps
  PROVE  Over(r, i) \in Row /\ LeftToAPerson(r, i) \in Row
<1>1. flow[i].next \in 1..(Last + 1)
  BY FlowFacts
<1>. QED
  BY <1>1 DEF Over, LeftToAPerson, Row, Waiting, Terminal, Active

LEMMA CompletedType ==
  ASSUME flow \in Flows, run \in Row, NEW i \in Steps
  PROVE  Completed(i) \in Row
<1>. DEFINE r == [run EXCEPT !.step = [run.step EXCEPT ![i] = "done"], !.owed = FALSE]
<1>1. r \in Row
  BY DEF Row, Terminal
<1>. HIDE DEF r
<1>2. ASSUME run.index <= Last PROVE flow[run.index].next \in 1..(Last + 1)
  <2>1. run.index \in Steps
    BY <1>2, FlowFacts, RowFacts
  <2>. QED
    BY <2>1, FlowFacts
<1>3. run.index <= Last =>
        [r EXCEPT !.index = flow[run.index].next, !.status = "running"] \in Row
  BY <1>1, <1>2 DEF Row, Active
<1>. QED
  BY <1>1, <1>3 DEF Completed, r

LEMMA RewoundType ==
  ASSUME NEW c \in ContractRow, NEW to
  PROVE  Rewound(c, to) \in ContractRow
BY DEF Rewound, ContractRow

LEMMA CancelledType ==
  ASSUME flow \in Flows, NEW r \in Row
  PROVE  Cancelled(r) \in Row
BY DEF Cancelled, Row, Terminal

\* The set of rows is the same as long as the run keeps its workflow.
LEMMA SameFlow ==
  ASSUME flow' = flow
  PROVE  Row' = Row /\ Working' = Working /\ Steps' = Steps /\ Last' = Last
<1>1. Steps' = Steps /\ Last' = Last
  BY DEF Steps, Last
<1>2. Row' = Row
  BY <1>1 DEF Row
<1>. QED
  BY <1>1, <1>2 DEF Working, Idle

LEMMA TypeInit == Init => TypeOK
<1>. SUFFICES ASSUME Init PROVE TypeOK
  OBVIOUS
<1>1. flow \in Flows
  BY DEF Init
<1>2. 1 \in 1..(Last + 1)
  BY <1>1, FlowFacts
<1>3. run \in Row
  BY <1>2 DEF Init, Row, Open
<1>4. contract \in ContractRow
  BY DEF Init, ContractRow
<1>5. request \in RequestRow
  BY DEF Init, RequestRow
<1>. QED
  BY <1>1, <1>3, <1>4, <1>5 DEF Init, TypeOK, Working

LEMMA TypeStep == TypeOK /\ [Next]_vars => TypeOK'
<1>. SUFFICES ASSUME TypeOK, [Next]_vars PROVE TypeOK'
  OBVIOUS
<1>. DEFINE Kept == /\ flow' = flow
                    /\ run' \in Row /\ contract' \in ContractRow
                    /\ request' \in RequestRow
                    /\ drafts' \in Nat /\ work' \in [Sessions -> Working]
<1>1. Kept => TypeOK'
  <2>. SUFFICES ASSUME Kept PROVE TypeOK'
    OBVIOUS
  <2>1. Row' = Row /\ Working' = Working
    BY SameFlow
  <2>2. ContractRow' = ContractRow /\ RequestRow' = RequestRow
    BY DEF ContractRow, RequestRow
  <2>. QED
    BY <2>1, <2>2 DEF TypeOK
<1>2. flow \in Flows /\ run \in Row /\ contract \in ContractRow
      /\ request \in RequestRow /\ drafts \in Nat /\ work \in [Sessions -> Working]
  BY DEF TypeOK
<1>3. ASSUME NEW s \in Sessions, NEW base \in Row, NEW r \in Row, NEW c \in ContractRow,
             NEW again, Advance(s, base, r, c, again), UNCHANGED <<flow, drafts>>
      PROVE  Kept
  BY <1>2, <1>3, AdvanceType
<1>. HIDE DEF Kept
<1>4. ASSUME NEW s \in Sessions, Calls(s) PROVE Kept
  <2>1. CASE Start(s)
    <3>. DEFINE r == [run EXCEPT !.status = "running", !.linked = request.linked]
    <3>1. r \in Row
      BY <1>2 DEF Row, RequestRow, Active
    <3>. HIDE DEF r
    <3>2. Advance(s, run, r, contract, 0) /\ UNCHANGED <<flow, drafts>>
      BY <2>1 DEF Start, r
    <3>. QED
      BY <1>2, <1>3, <3>1, <3>2
  <2>2. CASE Refresh(s)
    <3>1. PICK r \in {IF run.status = "waiting" THEN Settled(run, contract) ELSE run} :
            Advance(s, run, r, contract, 0)
      BY <2>2 DEF Refresh
    <3>2. r \in Row
      BY <1>2, <3>1, SettledType
    <3>. QED
      BY <1>2, <1>3, <2>2, <3>1, <3>2 DEF Refresh
  <2>3. CASE RetryReview(s)
    <3>. DEFINE r == [run EXCEPT !.step[run.index] = "pending", !.status = "running"]
    <3>1. r \in Row
      BY <1>2 DEF Row, Active, Open
    <3>. HIDE DEF r
    <3>2. Advance(s, run, r, contract, 0) /\ UNCHANGED <<flow, drafts>>
      BY <2>3 DEF RetryReview, r
    <3>. QED
      BY <1>2, <1>3, <3>1, <3>2
  <2>4. CASE Close(s)
    <3>1. run' \in Row
      BY <1>2, <2>4, CancelledType DEF Close
    <3>2. contract' \in ContractRow
      BY <1>2, <2>4 DEF Close, ContractRow
    <3>3. request' \in RequestRow
      BY <1>2, <2>4 DEF Close, RequestRow
    <3>. QED
      BY <1>2, <2>4, <3>1, <3>2, <3>3 DEF Close, Kept
  <2>5. ASSUME NEW i \in Steps, Complete(s, i) PROVE Kept
    <3>1. Completed(i) \in Row
      BY <1>2, CompletedType
    <3>. QED
      BY <1>2, <1>3, <2>5, <3>1 DEF Complete
  <2>6. ASSUME NEW to \in Steps, Return(s, to) PROVE Kept
    <3>1. Reopened(run, to) \in Row
      BY <1>2, ReopenedType
    <3>2. Rewound(contract, to) \in ContractRow
      BY <1>2, RewoundType
    <3>3. PICK again : Advance(s, run, Reopened(run, to), Rewound(contract, to), again)
      BY <2>6 DEF Return
    <3>. QED
      BY <1>2, <1>3, <2>6, <3>1, <3>2, <3>3 DEF Return
  <2>. QED
    BY <1>4, <2>1, <2>2, <2>3, <2>4, <2>5, <2>6 DEF Calls
<1>5. ASSUME NEW s \in Sessions, Works(s) PROVE Kept
  <2>0. ~ Free(s) /\ work[s].phase \in {"agent", "drafting", "drafted", "linked"}
    BY <1>5 DEF Works, AgentDone, DraftMade, DraftLinked, DraftDone, Free, Idle
  <2>. DEFINE b == Believed(s)
              i == work[s].at
  <2>1. b \in Row /\ i \in Steps
    BY <2>0, BelievedType
  <2>2. Over(b, i) \in Row /\ LeftToAPerson(b, i) \in Row
    BY <1>2, <2>1, OverType
  <2>3. CASE AgentDone(s)
    <3>1. PICK r \in {Over(b, i), LeftToAPerson(b, i)} : Advance(s, b, r, contract, 0)
      BY <2>3 DEF AgentDone
    <3>. QED
      BY <1>2, <1>3, <2>1, <2>2, <2>3, <3>1 DEF AgentDone
  <2>4. CASE DraftDone(s)
    <3>1. PICK r \in {Over(b, i), LeftToAPerson(b, i)} :
            Advance(s, b, [r EXCEPT !.linked = TRUE], contract, 0)
      BY <2>4 DEF DraftDone
    <3>2. [r EXCEPT !.linked = TRUE] \in Row
      BY <2>2 DEF Row
    <3>. QED
      BY <1>2, <1>3, <2>1, <2>4, <3>1, <3>2 DEF DraftDone
  <2>5. \A p \in {"drafted", "linked"} : [work[s] EXCEPT !.phase = p] \in Working
    BY <2>0, BelievedType DEF Working
  <2>6. CASE DraftMade(s)
    BY <1>2, <2>5, <2>6 DEF DraftMade, Now, Kept
  <2>7. CASE DraftLinked(s)
    BY <1>2, <2>5, <2>7 DEF DraftLinked, Now, Kept, RequestRow
  <2>. QED
    BY <1>5, <2>3, <2>4, <2>6, <2>7 DEF Works
<1>6. ASSUME NEW s \in Sessions, DraftFails(s) PROVE Kept
  <2>1. ~ Free(s)
    BY <1>6 DEF DraftFails, Free, Idle
  <2>2. Believed(s) \in Row /\ work[s].at \in Steps
    BY <2>1, BelievedType
  <2>3. [Believed(s) EXCEPT !.step[work[s].at] = "failed", !.status = "failed"] \in Row
    BY <2>2 DEF Row, Terminal
  <2>4. run' \in Row
    BY <1>2, <1>6, <2>2, <2>3, SaveType DEF DraftFails
  <2>. QED
    BY <1>2, <1>6, <2>4 DEF DraftFails, Now, Kept, Working
<1>7. ASSUME NEW s \in Sessions, Abandon(s) PROVE Kept
  BY <1>2, <1>7 DEF Abandon, Now, Kept, Working
<1>8. ASSUME NEW c \in ContractRow, Moves(c) PROVE Kept
  <2>1. run' \in Row
    BY <1>2, <1>8, SettledType DEF Moves
  <2>. QED
    BY <1>2, <1>8, <2>1 DEF Moves, Kept
<1>9. ASSUME Approve PROVE Kept
  <2>1. /\ [stage |-> "approval", pending |-> FALSE, last |-> "approved"] \in ContractRow
        /\ [stage |-> "signature", pending |-> FALSE, last |-> "approved"] \in ContractRow
    BY DEF ContractRow
  <2>. QED
    BY <1>8, <1>9, <2>1 DEF Approve
<1>10. ASSUME Reject PROVE Kept
  <2>1. [stage |-> "review", pending |-> FALSE, last |-> "rejected"] \in ContractRow
    BY DEF ContractRow
  <2>. QED
    BY <1>8, <1>10, <2>1 DEF Reject
<1>11. ASSUME Submit PROVE Kept
  <2>1. PICK c \in Submitted(contract) : Moves(c)
    BY <1>11 DEF Submit
  <2>. QED
    BY <1>2, <1>8, <2>1, SubmittedType
<1>12. ASSUME NewVersion PROVE Kept
  BY <1>2, <1>12 DEF NewVersion, Kept, ContractRow
<1>13. ASSUME NEW to \in {"approval", "signature", "active", "review"}, MoveStage(to)
       PROVE  Kept
  <2>1. [contract EXCEPT !.stage = to] \in ContractRow
    BY <1>2 DEF ContractRow
  <2>. QED
    BY <1>8, <1>13, <2>1 DEF MoveStage
<1>14. ASSUME UNCHANGED vars PROVE Kept
  BY <1>2, <1>14 DEF vars, Kept
<1>. QED
  BY <1>1, <1>4, <1>5, <1>6, <1>7, <1>9, <1>10, <1>11, <1>12, <1>13, <1>14 DEF Next

\* Whatever order calls, agents and drafts end in, and however many sessions
\* there are, each row stays one the engine knows: a pointer inside the
\* workflow or just past it, and a known status for every step.
THEOREM TypeCorrect == Spec => []TypeOK
BY TypeInit, TypeStep, PTL DEF Spec

-----------------------------------------------------------------------------
(***************************************************************************)
(* Order, where nothing comes between while an agent or a draft works.     *)
(***************************************************************************)
\* One session at a time: a call waits for the slow work of the one before.
Alone == \A s, t \in Sessions : s = t

Before(r) == \A i \in Steps : i < r.index => r.step[i] \in Terminal
AllOver(r) == \A i \in Steps : r.step[i] \in Terminal
Untouched(r) ==
  \A i \in Steps : r.index <= Last /\ i >= flow[r.index].next => r.step[i] = "pending"
Held(r) ==
  /\ r.index <= Last
  /\ \E i \in Group(r.index) : r.step[i] \in Waiting
  /\ \A i \in Group(r.index) : r.step[i] \notin Open

\* The row, whatever its status.  A person's answer must not be able to revive
\* a run that was cancelled or to leave a waiting one with nothing to wait for.
OrderOK(r) ==
  /\ Before(r)
  /\ r.status \in {"complete", "cancelled"} => AllOver(r)
  /\ r.status \notin {"complete", "cancelled"} => Untouched(r)
  /\ r.status = "waiting" => Held(r)

\* Slow work is on the current step of a running row, which is still as the
\* session saw it.
WorkOK(r, wk) ==
  \A s \in Sessions : wk[s] # Idle =>
    /\ r.status = "running" /\ r.index <= Last
    /\ wk[s].saw = r /\ wk[s].at = r.index
    /\ flow[r.index].kind \in {"ai", "draft"}

OInv == TypeOK /\ OrderOK(run) /\ WorkOK(run, work)

\* Groups follow one another.
LEMMA GroupFacts ==
  ASSUME flow \in Flows, NEW i \in Steps, NEW j \in Steps, i <= j
  PROVE  flow[i].next <= flow[j].next
<1>1. CASE j < flow[i].next
  BY <1>1, FlowFacts
<1>2. CASE j >= flow[i].next
  BY <1>2, FlowFacts
<1>. QED
  BY <1>1, <1>2, FlowFacts

\* The current group of a row, step by step.
LEMMA CurrentFacts ==
  ASSUME flow \in Flows, NEW r \in Row
  PROVE  /\ r.index <= Last => r.index \in Steps
         /\ r.index > Last => r.index = Last + 1 /\ Group(r.index) = {}
         /\ \A i \in Steps : r.index <= Last =>
              (i \in Group(r.index) <=> r.index <= i /\ i < flow[r.index].next)
<1>1. Last \in Nat /\ Steps = 1..Last /\ r.index \in 1..(Last + 1)
  BY FlowFacts, RowFacts
<1>. QED
  BY <1>1 DEF Group

\* Where the walk passes, everything passes.
LEMMA PassedOver ==
  ASSUME flow \in Flows, NEW r \in Row, NEW pass,
         NEW i \in Steps, r.index <= i, i < StopsAt(r, pass)
  PROVE  i \in pass
<1>. DEFINE S == {j \in 1..i : r.index <= j /\ (j = r.index \/ flow[j - 1].next = j)}
            m == Max(S)
<1>1. Last \in Nat /\ Steps = 1..Last /\ r.index \in 1..(Last + 1)
  BY FlowFacts, RowFacts
<1>2. i \in Nat /\ S \in SUBSET (1..i) /\ r.index \in S
  BY <1>1
<1>3. m \in S /\ \A y \in S : y <= m
  BY <1>2, GreatestIn
<1>. HIDE DEF m
<1>4. m \in Steps /\ m \in r.index..Last /\ m <= i
  BY <1>1, <1>3
<1>5. m < StopsAt(r, pass)
  <2>1. StopsAt(r, pass) \in r.index..(Last + 1)
    BY StopFacts
  <2>. QED
    BY <1>1, <1>4, <2>1
<1>6. Group(m) \subseteq pass
  BY <1>3, <1>4, <1>5, StopFacts
<1>7. i < flow[m].next
  <2>. SUFFICES ASSUME i >= flow[m].next PROVE FALSE
    BY <1>1, <1>4, FlowFacts
  <2>. DEFINE n == flow[m].next
  <2>1. n \in Nat /\ m < n /\ n <= i /\ n - 1 \in Steps
    BY <1>1, <1>4, FlowFacts
  <2>2. flow[n - 1].next = n
    <3>1. CASE m = n - 1
      BY <3>1, <1>4
    <3>2. CASE m < n - 1
      BY <2>1, <3>2, <1>4, FlowFacts
    <3>. QED
      BY <1>1, <1>4, <2>1, <3>1, <3>2
  <2>3. n \in S
    BY <1>1, <1>4, <2>1, <2>2
  <2>. QED
    BY <1>1, <1>3, <1>4, <2>1, <2>3
<1>. QED
  BY <1>4, <1>6, <1>7 DEF Group

LEMMA WalkedOrder ==
  ASSUME flow \in Flows, NEW r \in Row, r.status = "running", OrderOK(r),
         NEW K, NEW again, NEW pass, pass = Passing(r, K, again)
  PROVE  LET w == Walked(r, pass, StopsAt(r, pass)) IN
           /\ w.status = "running" /\ w.linked = r.linked
           /\ Before(w) /\ Untouched(w)
           /\ w.index > Last => AllOver(w)
<1>. DEFINE stop == StopsAt(r, pass)
            w == Walked(r, pass, stop)
<1>1. Last \in Nat /\ Steps = 1..Last /\ r.index \in 1..(Last + 1)
      /\ stop \in r.index..(Last + 1)
  BY FlowFacts, RowFacts, StopFacts
<1>2. \A i \in Steps : i \in pass => r.step[i] \in Terminal \cup Open
  BY DEF Passing
<1>3. \A i \in Steps : r.index <= i /\ i < stop => i \in pass
  BY PassedOver
<1>. HIDE DEF stop
<1>4. /\ w.index = stop /\ w.status = "running" /\ w.linked = r.linked
      /\ \A i \in Steps : w.step[i] =
           IF /\ i \in pass /\ r.step[i] \in Open
              /\ r.index <= i /\ (i < stop \/ i \in Group(stop))
           THEN "skipped" ELSE r.step[i]
  BY DEF Walked, Row
<1>. HIDE DEF w
<1>5. Before(r) /\ Untouched(r)
  BY DEF OrderOK
<1>6. ASSUME NEW i \in Steps, i < stop PROVE w.step[i] \in Terminal
  <2>1. CASE i < r.index
    BY <1>1, <1>4, <1>5, <2>1 DEF Before, Terminal
  <2>2. CASE r.index <= i
    BY <1>2, <1>3, <1>4, <1>6, <2>2 DEF Terminal
  <2>. QED
    BY <1>1, <2>1, <2>2
<1>7. ASSUME NEW i \in Steps, stop <= Last, i >= flow[stop].next
      PROVE  w.step[i] = "pending"
  <2>1. stop \in Steps /\ r.index \in Steps /\ r.index <= stop
    BY <1>1, <1>7
  <2>2. flow[r.index].next <= flow[stop].next /\ stop < flow[stop].next
        /\ flow[stop].next \in Nat /\ flow[r.index].next \in Nat
    BY <2>1, FlowFacts, GroupFacts
  <2>3. r.step[i] = "pending"
    BY <1>1, <1>5, <1>7, <2>1, <2>2 DEF Untouched
  <2>4. ~ (i < stop) /\ i \notin Group(stop)
    BY <1>1, <1>7, <2>1, <2>2 DEF Group
  <2>. QED
    BY <1>4, <2>3, <2>4
<1>8. Before(w)
  BY <1>4, <1>6 DEF Before
<1>9. Untouched(w)
  BY <1>4, <1>7 DEF Untouched
<1>10. stop > Last => AllOver(w)
  BY <1>1, <1>6 DEF AllOver
<1>. QED
  BY <1>4, <1>8, <1>9, <1>10 DEF w, stop

\* A row with nothing changed but statuses inside the current group, and
\* nothing there begun over again.
LEMMA InsideGroup ==
  ASSUME flow \in Flows, NEW r \in Row, NEW q \in Row, q.index = r.index,
         \A i \in Steps : i \notin Group(r.index) => q.step[i] = r.step[i]
  PROVE  /\ Before(r) => Before(q)
         /\ Untouched(r) => Untouched(q)
<1>1. ASSUME NEW i \in Steps, i < r.index PROVE i \notin Group(r.index)
  BY <1>1, FlowFacts, RowFacts DEF Group
<1>2. ASSUME NEW i \in Steps, r.index <= Last, i >= flow[r.index].next
      PROVE  i \notin Group(r.index)
  <2>1. r.index \in Steps
    BY <1>2, CurrentFacts
  <2>. QED
    BY <1>2, <2>1, FlowFacts DEF Group
<1>. QED
  BY <1>1, <1>2 DEF Before, Untouched

LEMMA AiAlone ==
  ASSUME flow \in Flows, NEW r \in Row, NEW i \in Group(r.index),
         flow[i].kind \in {"ai", "draft"}
  PROVE  i = r.index /\ Group(r.index) = {i} /\ flow[r.index].next = i + 1
<1>1. Last \in Nat /\ Steps = 1..Last /\ r.index \in 1..(Last + 1)
  BY FlowFacts, RowFacts
<1>2. i \in Steps /\ r.index \in Steps /\ r.index <= i /\ i < flow[r.index].next
  BY DEF Group
<1>3. i = r.index
  BY <1>1, <1>2, SlowFacts, FlowFacts
<1>4. flow[i].next = i + 1
  BY <1>2, SlowFacts
<1>5. \A j \in Group(r.index) : j = i
  BY <1>1, <1>2, <1>3, <1>4 DEF Group
<1>. QED
  BY <1>3, <1>4, <1>5

LEMMA ParkedOrder ==
  ASSUME flow \in Flows, NEW w \in Row, w.status = "running", w.index <= Last,
         Before(w), Untouched(w)
  PROVE  OrderOK(Parked(w)) /\ Parked(w).status \in Active
<1>. DEFINE p == Parked(w)
            g == Group(w.index)
<1>1. /\ p \in Row /\ p.index = w.index
      /\ \A i \in Steps : p.step[i] = IF i \in ToEnter(w) THEN Entered(i) ELSE w.step[i]
      /\ p.status = IF \E i \in g : p.step[i] \in Waiting THEN "waiting" ELSE w.status
  <2>1. g \subseteq Steps
    BY DEF Group
  <2>. QED
    BY <2>1, ParkedType DEF Parked, Row
<1>. HIDE DEF p
<1>2. Before(p) /\ Untouched(p)
  BY <1>1, InsideGroup DEF ToEnter
<1>3. ASSUME p.status = "waiting" PROVE Held(p)
  <2>1. \E i \in g : p.step[i] \in Waiting
    BY <1>1, <1>3
  <2>2. ASSUME NEW i \in g, p.step[i] \in Open PROVE FALSE
    <3>1. i \in ToEnter(w) /\ i \in Steps
      BY <1>1, <2>2 DEF ToEnter, Group
    <3>2. Entered(i) = "running"
      BY <1>1, <2>2, <3>1, EnteredType DEF Open
    <3>3. flow[i].kind \in {"ai", "draft"}
      <4>1. flow[i].kind \in Kinds
        BY <3>1, FlowFacts DEF Step
      <4>. QED
        BY <3>2, <4>1 DEF Entered, Kinds, Gates
    <3>4. g = {i}
      BY <3>3, AiAlone
    <3>. QED
      BY <2>1, <2>2, <3>4 DEF Open, Waiting
  <2>. QED
    BY <1>1, <2>1, <2>2 DEF Held
<1>. QED
  BY <1>1, <1>2, <1>3 DEF OrderOK, Active, p

\* On to the next group, once everything in this one is over.
LEMMA OnwardOrder ==
  ASSUME flow \in Flows, NEW r \in Row, NEW q \in Row, r.index <= Last,
         q.index = flow[r.index].next, q.step = r.step,
         Before(r), Untouched(r), \A i \in Group(r.index) : r.step[i] \in Terminal
  PROVE  Before(q) /\ Untouched(q)
<1>1. Last \in Nat /\ Steps = 1..Last /\ r.index \in Steps
  BY FlowFacts, CurrentFacts
<1>2. \A i \in Steps : i < q.index => i < r.index \/ i \in Group(r.index)
  BY <1>1 DEF Group
<1>3. Before(q)
  BY <1>2 DEF Before
<1>4. ASSUME NEW i \in Steps, q.index <= Last, i >= flow[q.index].next
      PROVE  i >= flow[r.index].next
  <2>1. q.index \in Steps
    BY <1>4, CurrentFacts
  <2>. QED
    BY <1>1, <1>4, <2>1, FlowFacts
<1>5. Untouched(q)
  BY <1>1, <1>4 DEF Untouched
<1>. QED
  BY <1>3, <1>5

LEMMA ReopenedOrder ==
  ASSUME flow \in Flows, NEW r \in Row, Before(r), NEW to \in Steps, to < r.index
  PROVE  OrderOK(Reopened(r, to))
<1>. DEFINE q == Reopened(r, to)
<1>1. Last \in Nat /\ Steps = 1..Last /\ r.index \in 1..(Last + 1)
  BY FlowFacts, RowFacts
<1>2. /\ q.index = to /\ q.status = "running"
      /\ \A i \in Steps : q.step[i] = IF i >= to THEN "pending" ELSE r.step[i]
  BY DEF Reopened, Row
<1>. HIDE DEF q
<1>3. Before(q)
  BY <1>1, <1>2 DEF Before
<1>4. Untouched(q)
  BY <1>1, <1>2, FlowFacts DEF Untouched
<1>. QED
  BY <1>2, <1>3, <1>4 DEF OrderOK, q

LEMMA SentBackOrder ==
  ASSUME flow \in Flows, NEW r \in Row, Before(r), Untouched(r)
  PROVE  OrderOK(SentBack(r))
<1>1. CASE ReworkTargets(r) = {}
  <2>1. /\ SentBack(r).status = "failed" /\ SentBack(r).index = r.index
        /\ SentBack(r).step = r.step
    BY <1>1 DEF SentBack, Row
  <2>. QED
    BY <2>1 DEF OrderOK, Before, Untouched
<1>2. CASE ReworkTargets(r) # {}
  <2>. DEFINE b == Reopened(r, Max(ReworkTargets(r)))
  <2>1. b \in Row /\ OrderOK(b) /\ b.status = "running"
    <3>1. b.status = "running"
      BY DEF Reopened, Row
    <3>. QED
      BY <1>2, <3>1, TargetFacts, ReopenedType, ReopenedOrder
  <2>. HIDE DEF b
  <2>2. /\ SentBack(r).status = b.status /\ SentBack(r).index = b.index
        /\ SentBack(r).step = b.step
    BY <1>2, <2>1 DEF SentBack, b, Row
  <2>. QED
    BY <2>1, <2>2 DEF OrderOK, Before, Untouched
<1>. QED
  BY <1>1, <1>2

LEMMA SettledOrder ==
  ASSUME flow \in Flows, NEW r \in Row, NEW c, r.status = "waiting", OrderOK(r)
  PROVE  OrderOK(Settled(r, c))
<1>. DEFINE g == Group(r.index)
            t == [r EXCEPT !.step = [i \in Steps |-> IF i \in g
                                       THEN Verdict(i, r.step[i], c) ELSE r.step[i]]]
<1>1. Held(r) /\ Before(r) /\ Untouched(r)
  BY DEF OrderOK
<1>2. t \in Row
  BY VerdictType DEF Row
<1>3. /\ t.index = r.index /\ t.status = "waiting"
      /\ \A i \in Steps : i \notin g => t.step[i] = r.step[i]
  BY DEF Row
<1>4. Settled(r, c) =
        IF r.index > Last THEN r
        ELSE IF \E i \in g : t.step[i] = "failed" /\ r.step[i] # "failed" THEN SentBack(t)
        ELSE IF \A i \in g : t.step[i] \in Terminal
             THEN [t EXCEPT !.index = flow[r.index].next, !.status = "running"]
        ELSE IF \E i \in g : t.step[i] \in Open THEN [t EXCEPT !.status = "running"]
        ELSE t
  BY DEF Settled, t
<1>. HIDE DEF t
<1>5. Before(t) /\ Untouched(t)
  BY <1>1, <1>2, <1>3, InsideGroup
<1>6. r.index <= Last /\ ~ (r.index > Last) /\ r.index \in Steps /\ g \subseteq Steps
  BY <1>1, FlowFacts, RowFacts, CurrentFacts DEF Held, Group
<1>7. OrderOK(SentBack(t))
  BY <1>2, <1>5, SentBackOrder
<1>8. ASSUME \A i \in g : t.step[i] \in Terminal
      PROVE  OrderOK([t EXCEPT !.index = flow[r.index].next, !.status = "running"])
  <2>. DEFINE q == [t EXCEPT !.index = flow[r.index].next, !.status = "running"]
  <2>1. q.index = flow[r.index].next /\ q.status = "running" /\ q.step = t.step
    BY <1>2 DEF Row
  <2>2. q \in Row
    <3>1. flow[r.index].next \in 1..(Last + 1)
      BY <1>6, FlowFacts
    <3>. QED
      BY <1>2, <3>1 DEF Row, Active
  <2>. HIDE DEF q
  <2>3. Before(q) /\ Untouched(q)
    BY <1>2, <1>3, <1>5, <1>6, <1>8, <2>1, <2>2, OnwardOrder
  <2>4. OrderOK(q)
    BY <2>1, <2>3 DEF OrderOK
  <2>. QED
    BY <2>4 DEF q
<1>9. OrderOK([t EXCEPT !.status = "running"])
  <2>. DEFINE q == [t EXCEPT !.status = "running"]
  <2>1. q.index = t.index /\ q.status = "running" /\ q.step = t.step
    BY <1>2 DEF Row
  <2>2. OrderOK(q)
    BY <1>5, <2>1 DEF OrderOK, Before, Untouched
  <2>. QED
    BY <2>2
<1>10. ASSUME ~ \A i \in g : t.step[i] \in Terminal, ~ \E i \in g : t.step[i] \in Open
       PROVE  OrderOK(t)
  <2>1. \A i \in g : t.step[i] \in Open \cup Waiting \cup Terminal
    BY <1>2, <1>6, RowFacts
  <2>2. Held(t)
    BY <1>3, <1>6, <1>10, <2>1 DEF Held
  <2>. QED
    BY <1>3, <1>5, <2>2 DEF OrderOK
<1>. QED
  BY <1>4, <1>6, <1>7, <1>8, <1>9, <1>10

LEMMA SameOrder ==
  ASSUME NEW r, NEW q, q.index = r.index, q.step = r.step, q.status = r.status, OrderOK(r)
  PROVE  OrderOK(q)
BY DEF OrderOK, Before, AllOver, Untouched, Held

\* The agent's and the draft's step, done or left to a person.
LEMMA SlowOrder ==
  ASSUME flow \in Flows, NEW r \in Row, r.status = "running", OrderOK(r),
         r.index <= Last, flow[r.index].kind \in {"ai", "draft"}
  PROVE  OrderOK(Over(r, r.index)) /\ OrderOK(LeftToAPerson(r, r.index))
<1>. DEFINE i == r.index
            d == [r EXCEPT !.step[i] = "done"]
            o == Over(r, i)
            l == LeftToAPerson(r, i)
<1>1. i \in Steps /\ Group(i) = {i} /\ flow[i].next \in 1..(Last + 1)
  <2>1. i \in Steps
    BY CurrentFacts
  <2>2. i \in Group(i) /\ flow[i].next \in 1..(Last + 1)
    BY <2>1, FlowFacts DEF Group
  <2>. QED
    BY <2>1, <2>2, AiAlone
<1>2. Before(r) /\ Untouched(r)
  BY DEF OrderOK
<1>3. /\ d \in Row /\ d.index = i /\ d.step[i] = "done"
      /\ \A j \in Steps : j # i => d.step[j] = r.step[j]
  BY <1>1 DEF Row, Terminal
<1>4. o \in Row /\ o.index = flow[i].next /\ o.step = d.step /\ o.status = "running"
  BY <1>1 DEF Row, Over, Terminal
<1>5. /\ l \in Row /\ l.index = i /\ l.step[i] = "waiting_human" /\ l.status = "waiting"
      /\ \A j \in Steps : j # i => l.step[j] = r.step[j]
  BY <1>1 DEF Row, LeftToAPerson, Waiting, Active
<1>. HIDE DEF d, o, l
<1>6. Before(d) /\ Untouched(d)
  BY <1>1, <1>2, <1>3, InsideGroup
<1>7. Before(o) /\ Untouched(o)
  BY <1>1, <1>3, <1>4, <1>6, OnwardOrder DEF Terminal
<1>8. Before(l) /\ Untouched(l)
  BY <1>1, <1>2, <1>5, InsideGroup
<1>9. Held(l)
  BY <1>1, <1>5 DEF Held, Open, Waiting
<1>. QED
  BY <1>4, <1>5, <1>7, <1>8, <1>9 DEF OrderOK, o, l

LEMMA CompletedOrder ==
  ASSUME flow \in Flows, run \in Row, OrderOK(run),
         NEW i \in Steps, run.step[i] = "waiting_human"
  PROVE  OrderOK(Completed(i))
<1>. DEFINE g == Group(run.index)
            step == [run.step EXCEPT ![i] = "done"]
            r == [run EXCEPT !.step = step, !.owed = FALSE]
<1>1. Last \in Nat /\ Steps = 1..Last /\ run.index \in 1..(Last + 1)
  BY FlowFacts, RowFacts
<1>2. Before(run) /\ run.status \notin {"complete", "cancelled"} /\ Untouched(run)
  BY DEF OrderOK, AllOver, Terminal
<1>3. run.index <= Last /\ run.index \in Steps /\ i \in g
  <2>1. run.index <= i
    BY <1>1, <1>2 DEF Before, Terminal
  <2>2. run.index <= Last /\ run.index \in Steps
    BY <1>1, <2>1
  <2>3. i < flow[run.index].next
    BY <1>1, <1>2, <2>2, FlowFacts DEF Untouched
  <2>. QED
    BY <2>1, <2>2, <2>3 DEF Group
<1>4. /\ r \in Row /\ r.index = run.index /\ r.status = run.status /\ r.step = step
      /\ step[i] = "done" /\ \A j \in Steps : j # i => step[j] = run.step[j]
  BY DEF Row, Terminal
<1>5. Completed(i) = IF run.index <= Last /\ \A j \in g : step[j] \in Terminal
                     THEN [r EXCEPT !.index = flow[run.index].next, !.status = "running"]
                     ELSE r
  BY DEF Completed
<1>. HIDE DEF r, step
<1>6. Before(r) /\ Untouched(r)
  BY <1>2, <1>3, <1>4, InsideGroup
<1>7. CASE \A j \in g : step[j] \in Terminal
  <2>. DEFINE q == [r EXCEPT !.index = flow[run.index].next, !.status = "running"]
  <2>1. q \in Row /\ q.index = flow[run.index].next /\ q.status = "running" /\ q.step = r.step
    <3>1. flow[run.index].next \in 1..(Last + 1)
      BY <1>3, FlowFacts
    <3>. QED
      BY <1>4, <3>1 DEF Row, Active
  <2>. HIDE DEF q
  <2>2. Before(q) /\ Untouched(q)
    BY <1>3, <1>4, <1>6, <1>7, <2>1, OnwardOrder
  <2>3. OrderOK(q)
    BY <2>1, <2>2 DEF OrderOK
  <2>. QED
    BY <1>3, <1>5, <1>7, <2>3 DEF q
<1>8. CASE ~ \A j \in g : step[j] \in Terminal
  <2>1. ASSUME run.status = "waiting" PROVE Held(r)
    <3>1. \A j \in g : run.step[j] \notin Open
      BY <2>1 DEF OrderOK, Held
    <3>2. \A j \in g : j \in Steps /\ step[j] \in Open \cup Waiting \cup Terminal
      BY <1>4, RowFacts DEF Group
    <3>3. \A j \in g : step[j] \notin Open
      BY <1>4, <3>1, <3>2 DEF Open
    <3>. QED
      BY <1>3, <1>4, <1>8, <3>2, <3>3 DEF Held
  <2>2. OrderOK(r)
    BY <1>2, <1>4, <1>6, <2>1 DEF OrderOK
  <2>. QED
    BY <1>5, <1>8, <2>2
<1>. QED
  BY <1>7, <1>8

LEMMA RetryOrder ==
  ASSUME flow \in Flows, NEW r \in Row, OrderOK(r), r.status = "waiting", r.index <= Last
  PROVE  OrderOK([r EXCEPT !.step[r.index] = "pending", !.status = "running"])
<1>. DEFINE q == [r EXCEPT !.step[r.index] = "pending", !.status = "running"]
<1>1. r.index \in Group(r.index)
  BY CurrentFacts, FlowFacts DEF Group
<1>2. /\ q \in Row /\ q.index = r.index /\ q.status = "running"
      /\ \A j \in Steps : j # r.index => q.step[j] = r.step[j]
  BY DEF Row, Active, Open
<1>. HIDE DEF q
<1>3. Before(q) /\ Untouched(q)
  BY <1>1, <1>2, InsideGroup DEF OrderOK
<1>4. OrderOK(q)
  BY <1>2, <1>3 DEF OrderOK
<1>. QED
  BY <1>4 DEF q

LEMMA CancelledOrder ==
  ASSUME flow \in Flows, NEW r \in Row
  PROVE  OrderOK(Cancelled(r))
<1>. DEFINE q == Cancelled(r)
<1>1. q.status = "cancelled" /\ \A i \in Steps : q.step[i] \in Terminal
  BY DEF Cancelled, Row, Terminal
<1>. QED
  BY <1>1 DEF OrderOK, Before, AllOver

\* A session alone writes the row it has, whole.
LEMMA SaveAlone ==
  ASSUME flow \in Flows, run \in Row, NEW r \in Row, Save(run, r)
  PROVE  run' = r
BY DEF Save, Row

LEMMA AloneBelieves ==
  ASSUME OInv, NEW s \in Sessions, ~ Free(s)
  PROVE  /\ Believed(s) = run
         /\ work[s].at = run.index /\ work[s].saw = run
         /\ run.status = "running" /\ run.index <= Last
         /\ flow[run.index].kind \in {"ai", "draft"}
<1>1. /\ work[s].at = run.index /\ work[s].saw = run
      /\ run.status = "running" /\ run.index <= Last
      /\ flow[run.index].kind \in {"ai", "draft"}
  BY DEF OInv, WorkOK, Free
<1>2. run \in Row
  BY DEF OInv, TypeOK
<1>3. Believed(s) = run
  BY <1>1, <1>2 DEF Believed, Row
<1>. QED
  BY <1>1, <1>3

LEMMA AdvanceOrder ==
  ASSUME Alone, OInv, NEW s \in Sessions, NEW r \in Row, OrderOK(r),
         NEW c \in ContractRow, NEW again, Advance(s, run, r, c, again)
  PROVE  OrderOK(run') /\ WorkOK(run', work')
<1>1. flow \in Flows /\ run \in Row /\ work \in [Sessions -> Working]
  BY DEF OInv, TypeOK
<1>2. ASSUME Now(s, Idle) PROVE WorkOK(run', work')
  <2>1. \A t \in Sessions : t = s
    BY DEF Alone
  <2>2. work'[s] = Idle
    BY <1>1, <1>2 DEF Now
  <2>. QED
    BY <2>1, <2>2 DEF WorkOK
<1>3. CASE r.status # "running"
  BY <1>1, <1>2, <1>3, SaveAlone DEF Advance
<1>4. ASSUME r.status = "running", NEW K, NEW pass, pass = Passing(r, K, again),
             NEW w, w = Walked(r, pass, StopsAt(r, pass)),
             \/ w.index > Last /\ Finish(s, run, w, c)
             \/ w.index <= Last /\ (BeginWork(s, run, w, c) \/ Park(s, run, w, c))
      PROVE  OrderOK(run') /\ WorkOK(run', work')
  <2>1. w \in Row
    <3>1. StopsAt(r, pass) \in 1..(Last + 1)
      BY <1>1, StopFacts, RowFacts, FlowFacts
    <3>. QED
      BY <1>1, <1>4, <3>1, WalkedType
  <2>2. /\ w.status = "running" /\ Before(w) /\ Untouched(w)
        /\ w.index > Last => AllOver(w)
    BY <1>1, <1>4, WalkedOrder
  <2>3. CASE w.index > Last /\ Finish(s, run, w, c)
    <3>1. ASSUME NEW v \in {"complete", "cancelled"}, Save(run, [w EXCEPT !.status = v])
          PROVE  OrderOK(run')
      <4>. DEFINE q == [w EXCEPT !.status = v]
      <4>1. q \in Row /\ q.status = v /\ q.index = w.index /\ q.step = w.step
        BY <2>1 DEF Row
      <4>. HIDE DEF q
      <4>2. OrderOK(q)
        BY <2>2, <2>3, <4>1 DEF OrderOK, Before, AllOver
      <4>3. run' = q
        BY <1>1, <3>1, <4>1, SaveAlone DEF q
      <4>. QED
        BY <4>2, <4>3
    <3>. QED
      BY <1>2, <2>3, <3>1 DEF Finish
  <2>4. CASE w.index <= Last /\ BeginWork(s, run, w, c)
    <3>1. run' = w
      BY <1>1, <2>1, <2>4, SaveAlone DEF BeginWork
    <3>2. OrderOK(w)
      BY <2>2 DEF OrderOK
    <3>3. /\ work'[s].at = w.index /\ work'[s].saw = w
          /\ flow[w.index].kind \in {"ai", "draft"}
      BY <1>1, <2>4 DEF BeginWork, Now, Slow
    <3>4. \A t \in Sessions : t = s
      BY DEF Alone
    <3>. QED
      BY <2>2, <2>4, <3>1, <3>2, <3>3, <3>4 DEF WorkOK
  <2>5. CASE w.index <= Last /\ Park(s, run, w, c)
    <3>1. run' = Parked(w)
      BY <1>1, <2>1, <2>5, SaveAlone, ParkedType DEF Park
    <3>2. OrderOK(Parked(w))
      BY <1>1, <2>1, <2>2, <2>5, ParkedOrder
    <3>. QED
      BY <1>2, <2>5, <3>1, <3>2 DEF Park
  <2>. QED
    BY <1>4, <2>3, <2>4, <2>5
<1>. QED
  BY <1>3, <1>4 DEF Advance

LEMMA OrderInit == Init => OInv
<1>. SUFFICES ASSUME Init PROVE OInv
  OBVIOUS
<1>1. TypeOK
  BY TypeInit
<1>2. OrderOK(run)
  <2>1. run.status = "none" /\ run.index = 1 /\ \A i \in Steps : run.step[i] = "pending"
    BY DEF Init
  <2>2. Steps = 1..Last /\ Last \in Nat
    BY <1>1, FlowFacts DEF TypeOK
  <2>. QED
    BY <2>1, <2>2 DEF OrderOK, Before, Untouched
<1>3. WorkOK(run, work)
  BY DEF Init, WorkOK
<1>. QED
  BY <1>1, <1>2, <1>3 DEF OInv

LEMMA OrderStep == Alone /\ OInv /\ [Next]_vars => OInv'
<1>. SUFFICES ASSUME Alone, OInv, [Next]_vars PROVE OInv'
  OBVIOUS
<1>0. /\ TypeOK /\ flow \in Flows /\ run \in Row /\ contract \in ContractRow
      /\ request \in RequestRow /\ work \in [Sessions -> Working]
      /\ OrderOK(run) /\ WorkOK(run, work)
  BY DEF OInv, TypeOK
<1>. DEFINE Kept == flow' = flow /\ OrderOK(run') /\ WorkOK(run', work')
<1>1. Kept => OInv'
  <2>. SUFFICES ASSUME Kept PROVE OInv'
    OBVIOUS
  <2>1. TypeOK'
    BY <1>0, TypeStep
  <2>2. Steps' = Steps /\ Last' = Last
    BY SameFlow
  <2>3. OrderOK(run)'
    BY <2>2 DEF OrderOK, Before, AllOver, Untouched, Held, Group
  <2>4. WorkOK(run, work)'
    BY <2>2 DEF WorkOK, Idle
  <2>. QED
    BY <2>1, <2>3, <2>4 DEF OInv
<1>2. ASSUME NEW s \in Sessions, NEW r \in Row, OrderOK(r), NEW c \in ContractRow,
             NEW again, Advance(s, run, r, c, again), UNCHANGED <<flow, drafts>>
      PROVE  Kept
  BY <1>2, AdvanceOrder
<1>3. ASSUME NEW s \in Sessions, Free(s) PROVE work[s] = Idle /\ \A t \in Sessions : t = s
  BY <1>3 DEF Free, Alone
<1>. HIDE DEF Kept
<1>4. ASSUME NEW s \in Sessions, Calls(s) PROVE Kept
  <2>1. CASE Start(s)
    <3>. DEFINE r == [run EXCEPT !.status = "running", !.linked = request.linked]
    <3>1. /\ r \in Row /\ r.index = run.index /\ r.step = run.step
          /\ r.status = "running" /\ run.status = "none"
      BY <1>0, <2>1 DEF Row, RequestRow, Active, Start
    <3>. HIDE DEF r
    <3>2. OrderOK(r)
      BY <1>0, <3>1 DEF OrderOK, Before, Untouched
    <3>3. Advance(s, run, r, contract, 0) /\ UNCHANGED <<flow, drafts>>
      BY <2>1 DEF Start, r
    <3>. QED
      BY <1>0, <1>2, <3>1, <3>2, <3>3
  <2>2. CASE Refresh(s)
    <3>1. PICK r \in {IF run.status = "waiting" THEN Settled(run, contract) ELSE run} :
            Advance(s, run, r, contract, 0)
      BY <2>2 DEF Refresh
    <3>2. r \in Row /\ OrderOK(r)
      BY <1>0, <3>1, SettledType, SettledOrder
    <3>. QED
      BY <1>0, <1>2, <2>2, <3>1, <3>2 DEF Refresh
  <2>3. CASE RetryReview(s)
    <3>. DEFINE r == [run EXCEPT !.step[run.index] = "pending", !.status = "running"]
    <3>1. r \in Row
      BY <1>0 DEF Row, Active, Open
    <3>2. OrderOK(r)
      BY <1>0, <2>3, RetryOrder DEF RetryReview
    <3>. HIDE DEF r
    <3>3. Advance(s, run, r, contract, 0) /\ UNCHANGED <<flow, drafts>>
      BY <2>3 DEF RetryReview, r
    <3>. QED
      BY <1>0, <1>2, <3>1, <3>2, <3>3
  <2>4. CASE Close(s)
    <3>1. OrderOK(run')
      BY <1>0, <2>4, CancelledOrder DEF Close
    <3>2. WorkOK(run', work')
      BY <1>3, <2>4 DEF Close, WorkOK, Free
    <3>. QED
      BY <2>4, <3>1, <3>2 DEF Close, Kept
  <2>5. ASSUME NEW i \in Steps, Complete(s, i) PROVE Kept
    <3>1. Completed(i) \in Row
      BY <1>0, CompletedType
    <3>2. OrderOK(Completed(i))
      BY <1>0, <2>5, CompletedOrder DEF Complete
    <3>. QED
      BY <1>0, <1>2, <2>5, <3>1, <3>2 DEF Complete
  <2>6. ASSUME NEW to \in Steps, Return(s, to) PROVE Kept
    <3>1. Reopened(run, to) \in Row
      BY <1>0, ReopenedType
    <3>2. OrderOK(Reopened(run, to))
      BY <1>0, <2>6, ReopenedOrder DEF Return, OrderOK
    <3>3. Rewound(contract, to) \in ContractRow
      BY <1>0, RewoundType
    <3>4. PICK again : Advance(s, run, Reopened(run, to), Rewound(contract, to), again)
      BY <2>6 DEF Return
    <3>. QED
      BY <1>0, <1>2, <2>6, <3>1, <3>2, <3>3, <3>4 DEF Return
  <2>. QED
    BY <1>4, <2>1, <2>2, <2>3, <2>4, <2>5, <2>6 DEF Calls
<1>5. ASSUME NEW s \in Sessions, Works(s) PROVE Kept
  <2>1. ~ Free(s)
    BY <1>5 DEF Works, AgentDone, DraftMade, DraftLinked, DraftDone, Free, Idle
  <2>2. /\ Believed(s) = run /\ work[s].at = run.index /\ work[s].saw = run
        /\ run.status = "running" /\ run.index <= Last
        /\ flow[run.index].kind \in {"ai", "draft"} /\ run.index \in Steps
    BY <2>1, AloneBelieves, BelievedType, <1>0
  <2>3. ASSUME NEW r \in {Over(run, run.index), LeftToAPerson(run, run.index)}
        PROVE  r \in Row /\ OrderOK(r)
    BY <1>0, <2>2, OverType, SlowOrder
  <2>4. CASE AgentDone(s)
    <3>1. PICK r \in {Over(run, run.index), LeftToAPerson(run, run.index)} :
            Advance(s, run, r, contract, 0)
      BY <2>2, <2>4 DEF AgentDone
    <3>. QED
      BY <1>0, <1>2, <2>3, <2>4, <3>1 DEF AgentDone
  <2>5. CASE DraftDone(s)
    <3>1. PICK r \in {Over(run, run.index), LeftToAPerson(run, run.index)} :
            Advance(s, run, [r EXCEPT !.linked = TRUE], contract, 0)
      BY <2>2, <2>5 DEF DraftDone
    <3>. DEFINE q == [r EXCEPT !.linked = TRUE]
    <3>2. q \in Row /\ q.index = r.index /\ q.step = r.step /\ q.status = r.status
      BY <2>3 DEF Row
    <3>. HIDE DEF q
    <3>3. OrderOK(q)
      BY <2>3, <3>2, SameOrder
    <3>4. Advance(s, run, q, contract, 0)
      BY <3>1 DEF q
    <3>. QED
      BY <1>0, <1>2, <2>5, <3>2, <3>3, <3>4 DEF DraftDone
  <2>6. ASSUME NEW p \in {"drafted", "linked"}, Now(s, [work[s] EXCEPT !.phase = p]),
               UNCHANGED <<flow, run>>
        PROVE  Kept
    <3>1. work'[s].at = work[s].at /\ work'[s].saw = work[s].saw
      BY <1>0, <2>1, <2>6, BelievedType DEF Now, Working
    <3>2. \A t \in Sessions : t = s
      BY DEF Alone
    <3>3. WorkOK(run', work')
      BY <2>2, <2>6, <3>1, <3>2 DEF WorkOK
    <3>. QED
      BY <1>0, <2>6, <3>3 DEF Kept
  <2>. QED
    BY <1>5, <2>4, <2>5, <2>6 DEF Works, DraftMade, DraftLinked
<1>6. ASSUME NEW s \in Sessions, Now(s, Idle), flow' = flow, OrderOK(run') PROVE Kept
  <2>1. work'[s] = Idle /\ \A t \in Sessions : t = s
    BY <1>0, <1>6 DEF Now, Alone
  <2>. QED
    BY <1>6, <2>1 DEF WorkOK, Kept
<1>7. ASSUME NEW s \in Sessions, DraftFails(s) PROVE Kept
  <2>1. ~ Free(s)
    BY <1>7 DEF DraftFails, Free, Idle
  <2>2. Believed(s) = run /\ work[s].at = run.index /\ run.index \in Steps
        /\ run.status = "running" /\ run.index <= Last
    BY <2>1, AloneBelieves, BelievedType, <1>0
  <2>. DEFINE q == [run EXCEPT !.step[run.index] = "failed", !.status = "failed"]
  <2>3. /\ q \in Row /\ q.index = run.index /\ q.status = "failed"
        /\ \A j \in Steps : j # run.index => q.step[j] = run.step[j]
    BY <1>0 DEF Row, Terminal
  <2>. HIDE DEF q
  <2>4. run.index \in Group(run.index)
    BY <1>0, <2>2, FlowFacts DEF Group
  <2>5. OrderOK(q)
    BY <1>0, <2>2, <2>3, <2>4, InsideGroup DEF OrderOK
  <2>6. run' = q
    BY <1>0, <1>7, <2>2, <2>3, SaveAlone DEF DraftFails, q
  <2>. QED
    BY <1>6, <1>7, <2>5, <2>6 DEF DraftFails
<1>8. ASSUME NEW s \in Sessions, Abandon(s) PROVE Kept
  BY <1>0, <1>6, <1>8 DEF Abandon
<1>9. ASSUME NEW c, Moves(c) PROVE Kept
  <2>1. OrderOK(run')
    BY <1>0, <1>9, SettledOrder DEF Moves
  <2>2. run.status = "waiting" => \A s \in Sessions : work[s] = Idle
    BY <1>0 DEF WorkOK
  <2>3. WorkOK(run', work')
    BY <1>0, <1>9, <2>2 DEF Moves, WorkOK
  <2>. QED
    BY <1>9, <2>1, <2>3 DEF Moves, Kept
<1>10. ASSUME Approve PROVE Kept
  BY <1>9, <1>10 DEF Approve
<1>11. ASSUME Reject PROVE Kept
  BY <1>9, <1>11 DEF Reject
<1>12. ASSUME Submit PROVE Kept
  BY <1>9, <1>12 DEF Submit
<1>13. ASSUME NEW to, MoveStage(to) PROVE Kept
  BY <1>9, <1>13 DEF MoveStage
<1>14. ASSUME UNCHANGED <<flow, run, work>> PROVE Kept
  BY <1>0, <1>14 DEF Kept
<1>15. ASSUME NewVersion PROVE Kept
  BY <1>14, <1>15 DEF NewVersion
<1>16. ASSUME UNCHANGED vars PROVE Kept
  BY <1>14, <1>16 DEF vars
<1>. QED
  BY <1>1, <1>4, <1>5, <1>7, <1>8, <1>10, <1>11, <1>12, <1>13, <1>15, <1>16 DEF Next

-----------------------------------------------------------------------------
\* With one session the run keeps its order for ever: nothing before the
\* current step is left undone and nothing after its group is begun, whatever
\* the workflow and however often the run is sent back.
THEOREM RunInOrder == ASSUME Alone PROVE Spec => []InOrder
<1>1. OInv => InOrder
  BY DEF OInv, OrderOK, Before, Untouched, InOrder, Active
<1>. QED
  BY <1>1, OrderInit, OrderStep, PTL DEF Spec

\* With one session a waiting run always has a step that waits.
THEOREM RunHeldUp == ASSUME Alone PROVE Spec => []HeldUp
<1>1. OInv => HeldUp
  BY DEF OInv, OrderOK, Held, HeldUp
<1>. QED
  BY <1>1, OrderInit, OrderStep, PTL DEF Spec

\* With one session no call, agent, draft or contract move touches a cancelled
\* run: no step of it is left for a person to complete.
THEOREM CancelledForGood == ASSUME Alone PROVE Spec => CancelledStays
<1>1. ASSUME OInv, [Next]_vars, run.status = "cancelled" PROVE run' = run
  <2>1. AllOver(run) /\ \A s \in Sessions : work[s] = Idle
    BY <1>1 DEF OInv, OrderOK, WorkOK
  <2>2. ASSUME NEW s \in Sessions, Works(s) \/ DraftFails(s) PROVE FALSE
    <3>1. work[s].phase = "idle"
      BY <2>1 DEF Idle
    <3>2. work[s].phase \in {"agent", "drafting", "drafted", "linked"}
      BY <2>2 DEF Works, AgentDone, DraftMade, DraftLinked, DraftDone, DraftFails
    <3>. QED
      BY <3>1, <3>2
  <2>3. ~ \E s \in Sessions, i \in Steps : Complete(s, i)
    BY <2>1 DEF AllOver, Complete, Terminal
  <2>4. ASSUME NEW s \in Sessions, Calls(s) PROVE run' = run
    BY <1>1, <2>3, <2>4 DEF Calls, Start, Refresh, RetryReview, Close, Return, Active
  <2>5. ASSUME NEW c, Moves(c) PROVE run' = run
    BY <1>1, <2>5 DEF Moves
  <2>. QED
    BY <1>1, <2>2, <2>4, <2>5
       DEF Next, vars, Abandon, Approve, Reject, Submit, NewVersion, MoveStage
<1>2. OInv /\ [Next]_vars => [run.status = "cancelled" => run' = run]_vars
  BY <1>1
<1>. QED
  BY <1>2, OrderInit, OrderStep, PTL DEF Spec, CancelledStays
-----------------------------------------------------------------------------
(***************************************************************************)
(* What the gates say, where nothing comes between.  A row's gates, its    *)
(* draft and its link to the contract agree with one another, with the     *)
(* contract and with the request (GateInv).                                *)
(***************************************************************************)
\* Every gate begins its group.
Leads(f) ==
  \A i \in DOMAIN f : f[i].kind \in Gates =>
    \A j \in DOMAIN f : j < i => f[j].next <= i

\* Every gate has its group to itself, or a Drafting or Review step before it
\* to which the run can be sent back.
Retreats(f) ==
  \A i \in DOMAIN f : f[i].kind \in Gates =>
    \/ f[i].next = i + 1 /\ \A j \in DOMAIN f : j < i => f[j].next <= i
    \/ \E j \in DOMAIN f : f[j].stage \in {"drafting", "review"} /\ f[j].next <= i

\* A step whose failure has stopped the run.
Failing(r, i) ==
  /\ r.step[i] = "failed"
  /\ (i \in Gated /\ Retreats(flow)) \/ flow[i].kind = "draft"

\* Nobody completes a gate by hand, a gate is skipped only where a condition
\* may skip it, and no row passes its draft without a contract.
RowOK(r) ==
  /\ r.status = "none" => \A i \in Steps : r.step[i] = "pending"
  /\ r.status # "none" /\ (\A i \in Steps : flow[i].kind # "draft") => r.linked
  /\ \A i \in Steps :
       /\ Failing(r, i) => r.status = "failed" /\ r.index = i /\ Group(i) = {i}
       /\ i \in Gated => r.step[i] \notin {"running", "waiting_human"}
       /\ r.status # "cancelled" =>
            /\ i \in Gated /\ r.step[i] = "skipped" => flow[i].optional
            /\ flow[i].kind = "draft" /\ r.step[i] \in {"done", "skipped", "waiting_human"}
                 => r.linked

SignedOK(r, c) ==
  \A i \in Steps : flow[i].kind = "signature" /\ r.step[i] = "done" => c.stage = "active"

Given(r) ==
  \A i \in Gated : r.step[i] = "done" \/ (r.step[i] = "skipped" /\ flow[i].optional)

FinishedOK(r, q) ==
  q.status = "completed" =>
    /\ r.status \in {"complete", "cancelled"}
    /\ Retreats(flow) => Given(r)

RequestOK(q) == (\A i \in Steps : flow[i].kind # "draft") => q.linked

\* An agent works on an AI step, and who drafts works on a draft.
PhaseOK(wk) ==
  \A s \in Sessions :
    wk[s] # Idle => (wk[s].phase = "agent" <=> flow[wk[s].at].kind = "ai")

GateInv ==
  /\ OInv
  /\ RowOK(run) /\ SignedOK(run, contract) /\ FinishedOK(run, request)
  /\ RequestOK(request) /\ PhaseOK(work)

\* What a step may be changed to.
Fresh(q, i) ==
  /\ i \in Gated => \/ q.step[i] \in {"pending", "waiting_job", "done"}
                    \/ q.step[i] = "skipped" /\ flow[i].optional
  /\ flow[i].kind = "draft" =>
       \/ q.step[i] = "pending"
       \/ q.step[i] \in {"done", "skipped", "waiting_human"} /\ q.linked

\* A row whose steps are those of a sound row, or changed to what they may be
\* changed to, is sound.
LEMMA RowKept ==
  ASSUME NEW r, NEW q, RowOK(r), r.status \notin {"none", "cancelled"},
         q.status # "none", r.linked => q.linked,
         \A i \in Steps : (q.step[i] = r.step[i] /\ ~ Failing(r, i)) \/ Fresh(q, i)
  PROVE  RowOK(q)
<1>1. ASSUME NEW i \in Steps, q.step[i] = r.step[i], ~ Failing(r, i)
      PROVE  /\ ~ Failing(q, i)
             /\ i \in Gated => q.step[i] \notin {"running", "waiting_human"}
             /\ i \in Gated /\ q.step[i] = "skipped" => flow[i].optional
             /\ flow[i].kind = "draft" /\ q.step[i] \in {"done", "skipped", "waiting_human"}
                  => q.linked
  BY <1>1 DEF RowOK, Failing
<1>2. ASSUME NEW i \in Steps, Fresh(q, i)
      PROVE  /\ ~ Failing(q, i)
             /\ i \in Gated => q.step[i] \notin {"running", "waiting_human"}
             /\ i \in Gated /\ q.step[i] = "skipped" => flow[i].optional
             /\ flow[i].kind = "draft" /\ q.step[i] \in {"done", "skipped", "waiting_human"}
                  => q.linked
  BY <1>2 DEF Fresh, Failing
<1>3. (\A i \in Steps : flow[i].kind # "draft") => q.linked
  BY DEF RowOK
<1>. QED
  BY <1>1, <1>2, <1>3 DEF RowOK

\* A step cannot have stopped a run that has not failed.
LEMMA NoneFailing ==
  ASSUME NEW r, RowOK(r), r.status # "failed"
  PROVE  \A i \in Steps : ~ Failing(r, i)
BY DEF RowOK

\* Drafts come before the gates, and no condition skips them.
LEMMA KindFacts ==
  ASSUME flow \in Flows, NEW i \in Steps
  PROVE  /\ flow[i].kind \in Kinds
         /\ flow[i].kind = "draft" => ~ flow[i].optional /\ flow[i].stage = "drafting"
         /\ flow[i].kind \in Gates => flow[i].stage = flow[i].kind
         /\ \A j \in Steps : i < j => Rank[flow[i].stage] <= Rank[flow[j].stage]
<1>1. flow[i] \in Step
  BY FlowFacts
<1>. QED
  BY <1>1, WorkflowAssumption DEF WorkflowAssumption, Steps, Step

\* Walking skips only what a condition may skip and drafts that exist.
LEMMA WalkedRow ==
  ASSUME flow \in Flows, NEW r \in Row, r.status = "running", RowOK(r),
         NEW K \in SUBSET Optional, NEW again, NEW pass, pass = Passing(r, K, again),
         NEW stop \in 1..(Last + 1)
  PROVE  /\ RowOK(Walked(r, pass, stop))
         /\ Walked(r, pass, stop).status = "running"
         /\ Walked(r, pass, stop).linked = r.linked
         /\ Walked(r, pass, stop).owed = r.owed
         /\ Walked(r, pass, stop).index = stop
         /\ \A i \in Steps :
              \/ Walked(r, pass, stop).step[i] = r.step[i]
              \/ /\ r.step[i] \in Open /\ i \in pass
                 /\ Walked(r, pass, stop).step[i] = "skipped"
<1>. DEFINE w == Walked(r, pass, stop)
<1>1. /\ w.status = "running" /\ w.linked = r.linked /\ w.owed = r.owed /\ w.index = stop
      /\ \A i \in Steps : w.step[i] =
           IF /\ i \in pass /\ r.step[i] \in Open
              /\ r.index <= i /\ (i < stop \/ i \in Group(stop))
           THEN "skipped" ELSE r.step[i]
  BY DEF Walked, Row
<1>. HIDE DEF w
<1>2. ASSUME NEW i \in Steps, w.step[i] # r.step[i] PROVE Fresh(w, i)
  <2>1. i \in pass /\ r.step[i] \in Open /\ w.step[i] = "skipped"
    BY <1>1, <1>2
  <2>2. i \in Optional \/ (flow[i].kind = "draft" /\ r.linked)
    BY <2>1 DEF Passing, Open, Terminal
  <2>3. i \in Optional => flow[i].kind # "draft"
    BY KindFacts DEF Optional
  <2>. QED
    BY <1>1, <2>1, <2>2, <2>3 DEF Fresh, Gated, Gates, Optional
<1>3. \A i \in Steps : ~ Failing(r, i)
  BY NoneFailing
<1>4. RowOK(w)
  BY <1>1, <1>2, <1>3, RowKept
<1>. QED
  BY <1>1, <1>4 DEF w

\* Entering the steps of a group leaves each as its kind allows.
LEMMA ParkedRow ==
  ASSUME flow \in Flows, NEW w \in Row, w.status = "running", RowOK(w),
         w.index <= Last, ~ Slow(w)
  PROVE  /\ RowOK(Parked(w))
         /\ Parked(w).linked = w.linked /\ Parked(w).owed = w.owed
         /\ Parked(w).index = w.index
         /\ \A i \in Steps :
              Parked(w).step[i] = IF i \in ToEnter(w) THEN Entered(i) ELSE w.step[i]
<1>. DEFINE p == Parked(w)
<1>1. /\ p.linked = w.linked /\ p.owed = w.owed /\ p.index = w.index
      /\ p.status \in {"waiting", "running"}
      /\ \A i \in Steps : p.step[i] = IF i \in ToEnter(w) THEN Entered(i) ELSE w.step[i]
  BY DEF Parked, Row
<1>. HIDE DEF p
<1>2. ASSUME NEW i \in Steps, i \in ToEnter(w) PROVE Fresh(p, i)
  <2>1. p.step[i] = Entered(i) /\ i \in Group(w.index)
    BY <1>1, <1>2 DEF ToEnter
  <2>2. CASE flow[i].kind \in Gates
    BY <2>1, <2>2 DEF Fresh, Entered, Gates
  <2>3. CASE flow[i].kind = "draft"
    <3>1. i = w.index
      BY <2>1, <2>3, AiAlone
    <3>2. w.linked
      BY <2>3, <3>1 DEF Slow
    <3>3. p.step[i] = "waiting_human"
      BY <2>1, <2>3 DEF Entered, Gates
    <3>. QED
      BY <1>1, <2>3, <3>2, <3>3 DEF Fresh, Gated, Gates
  <2>. QED
    BY <2>2, <2>3 DEF Fresh, Gated
<1>3. \A i \in Steps : ~ Failing(w, i)
  BY NoneFailing
<1>4. RowOK(p)
  BY <1>1, <1>2, <1>3, RowKept
<1>. QED
  BY <1>1, <1>4 DEF p

\* Taking a row back to a step leaves it sound.
LEMMA ReopenedRow ==
  ASSUME flow \in Flows, NEW r \in Row, RowOK(r), r.status \notin {"none", "cancelled"},
         NEW to \in Steps, to < r.index
  PROVE  /\ RowOK(Reopened(r, to))
         /\ Reopened(r, to).index = to /\ Reopened(r, to).status = "running"
         /\ Reopened(r, to).linked = r.linked /\ Reopened(r, to).owed = r.owed
         /\ \A i \in Steps :
              Reopened(r, to).step[i] = IF i >= to THEN "pending" ELSE r.step[i]
<1>. DEFINE q == Reopened(r, to)
<1>1. /\ q.index = to /\ q.status = "running" /\ q.linked = r.linked /\ q.owed = r.owed
      /\ \A i \in Steps : q.step[i] = IF i >= to THEN "pending" ELSE r.step[i]
  BY DEF Reopened, Row
<1>. HIDE DEF q
<1>2. \A i \in Steps : i >= to => Fresh(q, i)
  BY <1>1 DEF Fresh
<1>3. Last \in Nat /\ Steps = 1..Last /\ r.index \in 1..(Last + 1)
  BY FlowFacts, RowFacts
<1>4. \A i \in Steps : ~ (i >= to) => ~ Failing(r, i)
  BY <1>3 DEF RowOK
<1>5. RowOK(q)
  BY <1>1, <1>2, <1>4, RowKept
<1>. QED
  BY <1>1, <1>5 DEF q

\* What a contract says of a step: only of gates, a failure only when it is
\* back in Review, and of a signature that it is done only once it is active.
LEMMA VerdictFacts ==
  ASSUME flow \in Flows, NEW i \in Steps, NEW now, NEW c
  PROVE  LET v == Verdict(i, now, c) IN
           /\ now \in Terminal => v = now
           /\ v # now => i \in Gated /\ v \in {"done", "failed", "pending"}
           /\ v # now /\ v = "failed" => c.stage = "review"
           /\ v # now /\ v = "done" /\ flow[i].kind = "signature" => c.stage = "active"
BY DEF Verdict, Gated, Gates, Terminal

\* Where a rejected run is sent back to.
LEMMA SentBackFacts ==
  ASSUME flow \in Flows, NEW t \in Row
  PROVE  \/ /\ ReworkTargets(t) = {}
            /\ SentBack(t).index = t.index /\ SentBack(t).status = "failed"
            /\ SentBack(t).step = t.step
            /\ SentBack(t).linked = t.linked /\ SentBack(t).owed = t.owed
         \/ \E to \in ReworkTargets(t) :
              /\ to \in Steps /\ to < t.index
              /\ SentBack(t).index = to /\ SentBack(t).status = "running"
              /\ SentBack(t).step = Reopened(t, to).step
              /\ SentBack(t).linked = t.linked
<1>1. CASE ReworkTargets(t) = {}
  BY <1>1 DEF SentBack, Row
<1>2. CASE ReworkTargets(t) # {}
  <2>. DEFINE to == Max(ReworkTargets(t))
              b == Reopened(t, to)
  <2>1. to \in ReworkTargets(t) /\ to \in Steps /\ to < t.index
    <3>1. ReworkTargets(t) \subseteq 1..Last /\ Last \in Nat
      BY FlowFacts DEF ReworkTargets
    <3>2. to \in ReworkTargets(t)
      BY <1>2, <3>1, GreatestIn
    <3>. QED
      BY <1>2, <3>2, TargetFacts
  <2>. HIDE DEF to
  <2>2. b \in Row /\ b.index = to /\ b.status = "running" /\ b.linked = t.linked
    <3>1. b \in Row
      BY <2>1, ReopenedType
    <3>2. b.index = to /\ b.status = "running" /\ b.linked = t.linked
      BY DEF Reopened, Row
    <3>. QED
      BY <3>1, <3>2
  <2>3. SentBack(t) = [b EXCEPT !.owed = @ \/ \E i \in Group(t.index) :
                          flow[i].kind = "approval" /\ t.step[i] = "failed"]
    BY <1>2 DEF SentBack, to
  <2>. HIDE DEF b
  <2>4. /\ SentBack(t).index = to /\ SentBack(t).status = "running"
        /\ SentBack(t).step = b.step /\ SentBack(t).linked = t.linked
    BY <2>2, <2>3 DEF Row
  <2>. QED
    BY <2>1, <2>4 DEF b
<1>. QED
  BY <1>1, <1>2

\* The ways in which a waiting group settles.
LEMMA SettledFacts ==
  ASSUME flow \in Flows, NEW r \in Row, NEW c, r.index <= Last
  PROVE  \E t \in Row :
           /\ t.index = r.index /\ t.status = r.status
           /\ t.linked = r.linked /\ t.owed = r.owed
           /\ \A i \in Steps : t.step[i] = IF i \in Group(r.index)
                                 THEN Verdict(i, r.step[i], c) ELSE r.step[i]
           /\ \/ /\ Settled(r, c) = SentBack(t)
                 /\ \E i \in Group(r.index) : t.step[i] = "failed" /\ r.step[i] # "failed"
              \/ /\ ~ \E i \in Group(r.index) : t.step[i] = "failed" /\ r.step[i] # "failed"
                 /\ Settled(r, c).step = t.step
                 /\ Settled(r, c).linked = t.linked /\ Settled(r, c).owed = t.owed
                 /\ \/ /\ \A i \in Group(r.index) : t.step[i] \in Terminal
                       /\ Settled(r, c).index = flow[r.index].next
                       /\ Settled(r, c).status = "running"
                    \/ /\ Settled(r, c).index = r.index
                       /\ Settled(r, c).status \in {r.status, "running"}
<1>. DEFINE g == Group(r.index)
            t == [r EXCEPT !.step = [i \in Steps |-> IF i \in g
                                       THEN Verdict(i, r.step[i], c) ELSE r.step[i]]]
<1>1. t \in Row
  BY VerdictType DEF Row
<1>2. /\ t.index = r.index /\ t.status = r.status
      /\ t.linked = r.linked /\ t.owed = r.owed
      /\ \A i \in Steps : t.step[i] = IF i \in g THEN Verdict(i, r.step[i], c) ELSE r.step[i]
  BY DEF Row
<1>3. ~ (r.index > Last)
  BY FlowFacts, RowFacts
<1>4. Settled(r, c) =
        IF \E i \in g : t.step[i] = "failed" /\ r.step[i] # "failed" THEN SentBack(t)
        ELSE IF \A i \in g : t.step[i] \in Terminal
             THEN [t EXCEPT !.index = flow[r.index].next, !.status = "running"]
        ELSE IF \E i \in g : t.step[i] \in Open THEN [t EXCEPT !.status = "running"]
        ELSE t
  BY <1>3 DEF Settled, t
<1>. HIDE DEF t, g
<1>5. CASE \E i \in g : t.step[i] = "failed" /\ r.step[i] # "failed"
  BY <1>1, <1>2, <1>4, <1>5 DEF g
<1>6. CASE /\ ~ \E i \in g : t.step[i] = "failed" /\ r.step[i] # "failed"
           /\ \A i \in g : t.step[i] \in Terminal
  <2>. DEFINE q == [t EXCEPT !.index = flow[r.index].next, !.status = "running"]
  <2>1. q.index = flow[r.index].next /\ q.status = "running"
        /\ q.step = t.step /\ q.linked = t.linked /\ q.owed = t.owed
    BY <1>1 DEF Row
  <2>2. Settled(r, c) = q
    BY <1>4, <1>6
  <2>. QED
    BY <1>1, <1>2, <1>6, <2>1, <2>2 DEF g
<1>7. CASE /\ ~ \E i \in g : t.step[i] = "failed" /\ r.step[i] # "failed"
           /\ ~ \A i \in g : t.step[i] \in Terminal
  <2>. DEFINE q == [t EXCEPT !.status = "running"]
  <2>1. q.index = t.index /\ q.status = "running"
        /\ q.step = t.step /\ q.linked = t.linked /\ q.owed = t.owed
    BY <1>1 DEF Row
  <2>2. Settled(r, c) \in {q, t}
    BY <1>4, <1>7
  <2>. QED
    BY <1>1, <1>2, <1>7, <2>1, <2>2 DEF g
<1>. QED
  BY <1>5, <1>6, <1>7

\* A failed gate that is sent nowhere back has its group to itself.
LEMMA StoppedAlone ==
  ASSUME flow \in Flows, NEW t \in Row, t.index <= Last, ReworkTargets(t) = {},
         Retreats(flow), NEW i \in Group(t.index), i \in Gated
  PROVE  i = t.index /\ Group(i) = {i}
<1>1. Last \in Nat /\ Steps = 1..Last /\ t.index \in Steps
  BY FlowFacts, CurrentFacts
<1>2. i \in Steps /\ t.index <= i /\ i < flow[t.index].next
  BY DEF Group
<1>3. ASSUME NEW j \in Steps, flow[j].stage \in {"drafting", "review"}, flow[j].next <= i
      PROVE  FALSE
  <2>1. j < t.index
    <3>. SUFFICES ASSUME t.index <= j PROVE FALSE
      BY <1>1
    <3>1. j < flow[t.index].next
      BY <1>1, <1>2, <1>3, FlowFacts
    <3>2. flow[j].next = flow[t.index].next
      BY <1>1, <3>1, FlowFacts
    <3>. QED
      BY <1>1, <1>2, <1>3, <3>2, FlowFacts
  <2>2. CASE flow[j].stage = "review"
    BY <1>3, <2>1, <2>2 DEF ReworkTargets
  <2>3. CASE flow[j].stage = "drafting"
    BY <1>3, <2>1, <2>3 DEF ReworkTargets
  <2>. QED
    BY <1>3, <2>2, <2>3
<1>4. flow[i].next = i + 1 /\ \A j \in Steps : j < i => flow[j].next <= i
  BY <1>2, <1>3 DEF Retreats, Gated, Steps
<1>5. i = t.index
  BY <1>1, <1>2, <1>4, FlowFacts
<1>6. \A j \in Group(i) : j = i
  BY <1>1, <1>4, <1>5 DEF Group
<1>7. i \in Group(i)
  BY <1>1, <1>4, <1>5 DEF Group
<1>. QED
  BY <1>5, <1>6, <1>7

\* So does settling it from the state of the contract.
LEMMA SettledRow ==
  ASSUME flow \in Flows, NEW r \in Row, NEW c, r.status = "waiting", OrderOK(r), RowOK(r)
  PROVE  RowOK(Settled(r, c)) /\ Settled(r, c).status \notin {"none", "cancelled", "complete"}
<1>0. r.index <= Last /\ r.index \in Steps
  BY CurrentFacts DEF OrderOK, Held
<1>. DEFINE g == Group(r.index)
            q == Settled(r, c)
<1>1. PICK t \in Row :
        /\ t.index = r.index /\ t.status = r.status
        /\ t.linked = r.linked /\ t.owed = r.owed
        /\ \A i \in Steps : t.step[i] = IF i \in g
                              THEN Verdict(i, r.step[i], c) ELSE r.step[i]
        /\ \/ /\ Settled(r, c) = SentBack(t)
              /\ \E i \in g : t.step[i] = "failed" /\ r.step[i] # "failed"
           \/ /\ ~ \E i \in g : t.step[i] = "failed" /\ r.step[i] # "failed"
              /\ Settled(r, c).step = t.step
              /\ Settled(r, c).linked = t.linked /\ Settled(r, c).owed = t.owed
              /\ \/ /\ \A i \in g : t.step[i] \in Terminal
                    /\ Settled(r, c).index = flow[r.index].next
                    /\ Settled(r, c).status = "running"
                 \/ /\ Settled(r, c).index = r.index
                    /\ Settled(r, c).status \in {r.status, "running"}
  BY <1>0, SettledFacts
<1>2. \A i \in Steps : ~ Failing(r, i)
  BY NoneFailing
<1>3. ASSUME NEW i \in Steps, t.step[i] # r.step[i]
      PROVE  i \in g /\ i \in Gated /\ t.step[i] \in {"done", "failed", "pending"}
  BY <1>1, <1>3, VerdictFacts
<1>4. ASSUME NEW i \in Steps, i \in Gated PROVE flow[i].kind # "draft"
  BY <1>4 DEF Gated, Gates
<1>5. CASE ~ \E i \in g : t.step[i] = "failed" /\ r.step[i] # "failed"
  <2>1. q.step = t.step /\ q.linked = r.linked /\ q.status \in {"waiting", "running"}
    <3>1. ~ \/ /\ Settled(r, c) = SentBack(t)
               /\ \E i \in g : t.step[i] = "failed" /\ r.step[i] # "failed"
      BY <1>5
    <3>. QED
      BY <1>1, <3>1
  <2>. HIDE DEF q, g
  <2>2. ASSUME NEW i \in Steps, t.step[i] # r.step[i] PROVE Fresh(q, i)
    BY <1>3, <1>4, <1>5, <2>1, <2>2 DEF Fresh
  <2>3. RowOK(q)
    BY <1>2, <2>1, <2>2, RowKept
  <2>. QED
    BY <2>1, <2>3 DEF q
<1>6. CASE \E i \in g : t.step[i] = "failed" /\ r.step[i] # "failed"
  <2>1. q = SentBack(t)
    BY <1>1, <1>6
  <2>2. CASE /\ ReworkTargets(t) = {}
             /\ q.index = t.index /\ q.status = "failed"
             /\ q.step = t.step /\ q.linked = t.linked
    <3>1. ASSUME NEW i \in Steps, Failing(q, i) PROVE q.index = i /\ Group(i) = {i}
      <4>1. Failing(t, i) /\ t.step[i] # r.step[i]
        BY <1>2, <2>2, <3>1 DEF Failing
      <4>2. i \in g /\ i \in Gated /\ flow[i].kind # "draft"
        BY <1>3, <1>4, <4>1
      <4>3. Retreats(flow)
        BY <4>1, <4>2 DEF Failing
      <4>. QED
        BY <1>0, <1>1, <2>2, <4>2, <4>3, StoppedAlone
    <3>2. ASSUME NEW i \in Steps
          PROVE  /\ i \in Gated => q.step[i] \notin {"running", "waiting_human"}
                 /\ i \in Gated /\ q.step[i] = "skipped" => flow[i].optional
                 /\ flow[i].kind = "draft" /\ q.step[i] \in {"done", "skipped", "waiting_human"}
                      => q.linked
      <4>1. CASE t.step[i] = r.step[i]
        BY <1>1, <2>2, <4>1 DEF RowOK
      <4>2. CASE t.step[i] # r.step[i]
        BY <1>3, <1>4, <2>2, <4>2
      <4>. QED
        BY <4>1, <4>2
    <3>3. (\A i \in Steps : flow[i].kind # "draft") => q.linked
      BY <1>1, <2>2 DEF RowOK
    <3>. QED
      BY <2>2, <3>1, <3>2, <3>3 DEF RowOK
  <2>3. ASSUME NEW to \in Steps, to < t.index,
               q.index = to, q.status = "running",
               q.step = Reopened(t, to).step, q.linked = t.linked
        PROVE  RowOK(q)
    <3>1. \A i \in Steps : q.step[i] = IF i >= to THEN "pending" ELSE t.step[i]
      BY <2>3 DEF Reopened, Row
    <3>2. Last \in Nat /\ Steps = 1..Last
      BY FlowFacts
    <3>3. \A i \in Steps : i < to => t.step[i] = r.step[i]
      BY <1>0, <1>1, <2>3, <3>2 DEF Group
    <3>4. \A i \in Steps : i >= to => Fresh(q, i)
      BY <3>1 DEF Fresh
    <3>. HIDE DEF q
    <3>5. \A i \in Steps : q.step[i] = r.step[i] \/ Fresh(q, i)
      BY <3>1, <3>2, <3>3, <3>4
    <3>. QED
      BY <1>1, <1>2, <2>3, <3>5, RowKept
  <2>. QED
    BY <1>1, <2>1, <2>2, <2>3, SentBackFacts
<1>. QED
  BY <1>5, <1>6

\* A person's answer ends its step and no gate, and pays what is owed.
LEMMA CompletedRow ==
  ASSUME flow \in Flows, run \in Row, RowOK(run), OrderOK(run),
         NEW i \in Steps, run.step[i] = "waiting_human"
  PROVE  /\ RowOK(Completed(i)) /\ Completed(i).status \notin {"none", "cancelled", "complete"}
         /\ Completed(i).owed = FALSE
         /\ Completed(i).index >= run.index
         /\ \A j \in Steps : Completed(i).step[j] = IF j = i THEN "done" ELSE run.step[j]
<1>. DEFINE q == Completed(i)
            r == [run EXCEPT !.step = [run.step EXCEPT ![i] = "done"], !.owed = FALSE]
            over == run.index <= Last
                    /\ \A j \in Group(run.index) : r.step[j] \in Terminal
<1>1. /\ r.status = run.status /\ r.index = run.index /\ r.linked = run.linked
      /\ r.owed = FALSE /\ r \in Row
      /\ \A j \in Steps : r.step[j] = IF j = i THEN "done" ELSE run.step[j]
  BY DEF Row, Terminal
<1>2. q = IF over THEN [r EXCEPT !.index = flow[run.index].next, !.status = "running"] ELSE r
  BY DEF Completed, Row
<1>. HIDE DEF r
<1>3. Last \in Nat /\ Steps = 1..Last /\ run.index \in 1..(Last + 1)
  BY FlowFacts, RowFacts
<1>4. run.status \notin {"none", "cancelled", "complete"}
  BY DEF OrderOK, AllOver, Terminal, RowOK
<1>5. /\ q.linked = run.linked /\ q.owed = FALSE /\ q.step = r.step
      /\ q.status \in {run.status, "running"}
      /\ q.index >= run.index
  <2>1. CASE over
    <3>1. flow[run.index].next \in Nat /\ run.index < flow[run.index].next
      BY <1>3, <2>1, FlowFacts
    <3>. QED
      BY <1>1, <1>2, <1>3, <2>1, <3>1 DEF Row
  <2>2. CASE ~ over
    BY <1>1, <1>2, <1>3, <2>2
  <2>. QED
    BY <2>1, <2>2
<1>. HIDE DEF q, over
<1>6. i \in Group(run.index)
  <2>1. run.index <= i
    BY <1>3 DEF OrderOK, Before, Terminal
  <2>2. run.index \in Steps
    BY <1>3, <2>1
  <2>3. i < flow[run.index].next
    BY <1>3, <1>4, <2>1, <2>2, FlowFacts DEF OrderOK, Untouched
  <2>. QED
    BY <2>1, <2>2, <2>3 DEF Group
<1>7. \A j \in Steps : ~ Failing(run, j)
  <2>. SUFFICES ASSUME NEW j \in Steps, Failing(run, j) PROVE FALSE
    OBVIOUS
  <2>1. run.index = j /\ Group(j) = {j}
    BY DEF RowOK
  <2>2. i = j
    BY <1>6, <2>1
  <2>. QED
    BY <2>2 DEF Failing
<1>8. Fresh(q, i)
  BY <1>1, <1>4, <1>5 DEF Fresh, RowOK
<1>9. \A j \in Steps : (q.step[j] = run.step[j] /\ ~ Failing(run, j)) \/ Fresh(q, j)
  BY <1>1, <1>5, <1>7, <1>8
<1>10. RowOK(q)
  BY <1>4, <1>5, <1>9, RowKept
<1>. QED
  BY <1>1, <1>4, <1>5, <1>10 DEF q

\* Asking for the AI review again touches that step only.
LEMMA RetryRow ==
  ASSUME flow \in Flows, NEW r \in Row, r.status = "waiting", RowOK(r), r.index <= Last,
         flow[r.index].kind = "ai"
  PROVE  LET q == [r EXCEPT !.step[r.index] = "pending", !.status = "running"] IN
           /\ q \in Row /\ RowOK(q) /\ q.status = "running" /\ q.index = r.index
           /\ q.linked = r.linked /\ q.owed = r.owed
           /\ \A i \in Steps : q.step[i] = IF i = r.index THEN "pending" ELSE r.step[i]
<1>. DEFINE q == [r EXCEPT !.step[r.index] = "pending", !.status = "running"]
<1>1. /\ q \in Row /\ q.status = "running" /\ q.index = r.index
      /\ q.linked = r.linked /\ q.owed = r.owed
      /\ \A i \in Steps : q.step[i] = IF i = r.index THEN "pending" ELSE r.step[i]
  BY DEF Row, Active, Open
<1>. HIDE DEF q
<1>2. \A i \in Steps : ~ Failing(r, i)
  BY NoneFailing
<1>3. \A i \in Steps : i = r.index => Fresh(q, i)
  BY <1>1 DEF Fresh
<1>4. RowOK(q)
  BY <1>1, <1>2, <1>3, RowKept
<1>. QED
  BY <1>1, <1>4 DEF q

\* The agent's or the draft's step is over or a person's, with the contract
\* linked after a draft.
LEMMA SlowRow ==
  ASSUME flow \in Flows, NEW r \in Row, r.status = "running", RowOK(r), r.index <= Last,
         flow[r.index].kind \in {"ai", "draft"},
         NEW o \in {Over(r, r.index), LeftToAPerson(r, r.index)}, NEW q,
         \/ q = o /\ flow[r.index].kind = "ai"
         \/ q = [o EXCEPT !.linked = TRUE]
  PROVE  /\ RowOK(q) /\ q.status \in {"running", "waiting"} /\ q.owed = r.owed
         /\ q.index >= r.index
         /\ \A i \in Steps : i # r.index => q.step[i] = r.step[i]
<1>1. r.index \in Steps /\ Last \in Nat /\ Steps = 1..Last
  BY CurrentFacts, FlowFacts
<1>2. /\ o.status \in {"running", "waiting"} /\ o.linked = r.linked /\ o.owed = r.owed
      /\ o.index \in {r.index, flow[r.index].next} /\ o \in Row
      /\ o.step[r.index] \in {"done", "waiting_human"}
      /\ \A i \in Steps : i # r.index => o.step[i] = r.step[i]
  <2>1. CASE o = Over(r, r.index)
    <3>1. o \in Row
      BY <1>1, <2>1, OverType
    <3>2. /\ o.status = "running" /\ o.linked = r.linked /\ o.owed = r.owed
          /\ o.index = flow[r.index].next /\ o.step[r.index] = "done"
          /\ \A i \in Steps : i # r.index => o.step[i] = r.step[i]
      BY <1>1, <2>1 DEF Over, Row
    <3>. QED
      BY <3>1, <3>2
  <2>2. CASE o = LeftToAPerson(r, r.index)
    <3>1. o \in Row
      BY <1>1, <2>2, OverType
    <3>2. /\ o.status = "waiting" /\ o.linked = r.linked /\ o.owed = r.owed
          /\ o.index = r.index /\ o.step[r.index] = "waiting_human"
          /\ \A i \in Steps : i # r.index => o.step[i] = r.step[i]
      BY <1>1, <2>2 DEF LeftToAPerson, Row
    <3>. QED
      BY <3>1, <3>2
  <2>. QED
    BY <2>1, <2>2
<1>3. r.index < flow[r.index].next /\ flow[r.index].next \in Nat
  BY <1>1, FlowFacts
<1>4. /\ q.status = o.status /\ q.owed = r.owed /\ q.index = o.index /\ q.step = o.step
      /\ r.linked => q.linked
      /\ flow[r.index].kind = "draft" => q.linked
  BY <1>2 DEF Row
<1>5. \A i \in Steps : ~ Failing(r, i)
  BY NoneFailing
<1>6. Fresh(q, r.index)
  BY <1>2, <1>4 DEF Fresh, Gated, Gates
<1>7. \A i \in Steps : (q.step[i] = r.step[i] /\ ~ Failing(r, i)) \/ Fresh(q, i)
  BY <1>2, <1>4, <1>5, <1>6
<1>8. RowOK(q)
  BY <1>2, <1>4, <1>7, RowKept
<1>. QED
  BY <1>1, <1>2, <1>3, <1>4, <1>8

\* Cancelling ends what is open and finishes nothing.
LEMMA CancelledRow ==
  ASSUME flow \in Flows, NEW r \in Row, RowOK(r), r.status \in Active
  PROVE  /\ RowOK(Cancelled(r)) /\ Cancelled(r).index = r.index
         /\ \A i \in Steps : r.step[i] = "done" <=> Cancelled(r).step[i] = "done"
<1>. DEFINE q == Cancelled(r)
<1>1. /\ q.status = "cancelled" /\ q.linked = r.linked /\ q.index = r.index
      /\ \A i \in Steps : q.step[i] = IF r.step[i] \in Open \cup Waiting
                                      THEN "skipped" ELSE r.step[i]
  BY DEF Cancelled, Row
<1>. HIDE DEF q
<1>2. \A i \in Steps : ~ Failing(r, i)
  BY NoneFailing DEF Active
<1>3. \A i \in Steps : ~ Failing(q, i)
  BY <1>1, <1>2 DEF Failing
<1>4. \A i \in Steps : q.step[i] \notin {"running", "waiting_human"}
  BY <1>1 DEF Open, Waiting
<1>5. (\A i \in Steps : flow[i].kind # "draft") => q.linked
  BY <1>1 DEF RowOK, Active
<1>6. RowOK(q)
  BY <1>1, <1>3, <1>4, <1>5 DEF RowOK
<1>7. \A i \in Steps : r.step[i] = "done" <=> q.step[i] = "done"
  BY <1>1 DEF Open, Waiting
<1>. QED
  BY <1>1, <1>6, <1>7 DEF q

\* A contract that is active stays so whatever is entered.
LEMMA ActiveStays ==
  ASSUME NEW c, c.stage = "active", NEW E, NEW d \in AfterEntering(c, E)
  PROVE  d.stage = "active"
BY DEF AfterEntering, Submitted, OpenedForSigning

\* advance_run keeps a row's gates, its contract and its request in agreement,
\* never goes back, and moves the contract only by opening a gate.
LEMMA AdvanceGates ==
  ASSUME Alone, GateInv, NEW s \in Sessions, NEW r \in Row, OrderOK(r), RowOK(r),
         NEW c \in ContractRow, SignedOK(r, c), NEW again,
         request.status # "completed", Advance(s, run, r, c, again)
  PROVE  /\ RowOK(run') /\ SignedOK(run', contract')
         /\ FinishedOK(run', request') /\ RequestOK(request') /\ PhaseOK(work')
         /\ run'.index >= r.index
         /\ \A i \in Steps : r.step[i] \in Terminal => run'.step[i] = r.step[i]
         /\ (\A i \in Gated : run'.step[i] = "pending") => contract'.stage = c.stage
<1>1. /\ flow \in Flows /\ run \in Row /\ work \in [Sessions -> Working]
      /\ request \in RequestRow /\ RequestOK(request)
      /\ OrderOK(run) /\ RowOK(run)
      /\ Last \in Nat /\ r.index \in 1..(Last + 1) /\ Steps = 1..Last
  BY FlowFacts, RowFacts DEF GateInv, OInv, TypeOK
<1>2. ASSUME Now(s, Idle) PROVE PhaseOK(work')
  <2>1. work'[s] = Idle /\ \A t \in Sessions : t = s
    BY <1>1, <1>2 DEF Now, Alone
  <2>. QED
    BY <2>1 DEF PhaseOK
<1>3. CASE r.status # "running"
  <2>1. run' = r /\ contract' = c /\ request' = request /\ Now(s, Idle)
    BY <1>1, <1>3, SaveAlone DEF Advance
  <2>. QED
    BY <1>1, <1>2, <2>1 DEF FinishedOK
<1>4. ASSUME r.status = "running", NEW K \in SUBSET Optional,
             NEW pass, pass = Passing(r, K, again),
             NEW w, w = Walked(r, pass, StopsAt(r, pass)),
             \/ w.index > Last /\ Finish(s, run, w, c)
             \/ w.index <= Last /\ (BeginWork(s, run, w, c) \/ Park(s, run, w, c))
      PROVE  /\ RowOK(run') /\ SignedOK(run', contract')
             /\ FinishedOK(run', request') /\ RequestOK(request') /\ PhaseOK(work')
             /\ run'.index >= r.index
             /\ \A i \in Steps : r.step[i] \in Terminal => run'.step[i] = r.step[i]
             /\ (\A i \in Gated : run'.step[i] = "pending") => contract'.stage = c.stage
  <2>1. StopsAt(r, pass) \in 1..(Last + 1) /\ StopsAt(r, pass) >= r.index
    BY <1>1, StopFacts
  <2>2. w \in Row
    BY <1>1, <1>4, <2>1, WalkedType
  <2>3. /\ w.status = "running" /\ RowOK(w) /\ w.index >= r.index /\ w.linked = r.linked
        /\ \A i \in Steps : w.step[i] = r.step[i]
                            \/ (r.step[i] \in Open /\ w.step[i] = "skipped")
    BY <1>1, <1>4, <2>1, WalkedRow
  <2>4. w.index > Last => AllOver(w)
    BY <1>1, <1>4, WalkedOrder
  <2>5. \A i \in Steps : r.step[i] \in Terminal => w.step[i] = r.step[i]
    BY <2>3 DEF Open, Terminal
  <2>6. \A i \in Steps : w.step[i] = "done" => r.step[i] = "done"
    BY <2>3
  <2>7. CASE w.index > Last /\ Finish(s, run, w, c)
    <3>1. ASSUME NEW v \in {"complete", "cancelled"}, Save(run, [w EXCEPT !.status = v])
          PROVE  /\ run'.status \in {"complete", "cancelled"}
                 /\ run'.index = w.index /\ run'.step = w.step /\ run'.linked = w.linked
      <4>. DEFINE q == [w EXCEPT !.status = v]
      <4>1. /\ q \in Row /\ q.status = v /\ q.index = w.index /\ q.step = w.step
            /\ q.linked = w.linked
        BY <2>2 DEF Row
      <4>. HIDE DEF q
      <4>2. run' = q
        BY <1>1, <3>1, <4>1, SaveAlone DEF q
      <4>. QED
        BY <4>1, <4>2
    <3>2. /\ run'.status \in {"complete", "cancelled"}
          /\ run'.index = w.index /\ run'.step = w.step /\ run'.linked = w.linked
      BY <2>7, <3>1 DEF Finish
    <3>3. contract'.stage = c.stage /\ request' \in {request, [request EXCEPT !.status = "completed"]}
          /\ Now(s, Idle)
      BY <2>7 DEF Finish, ContractRow
    <3>4. \A i \in Steps : ~ Failing(w, i)
      BY <2>3, NoneFailing
    <3>5. RowOK(run')
      BY <2>3, <3>2, <3>4, RowKept
    <3>6. SignedOK(run', contract')
      BY <2>6, <3>2, <3>3 DEF SignedOK
    <3>7. ASSUME Retreats(flow), NEW i \in Gated
          PROVE  w.step[i] = "done" \/ (w.step[i] = "skipped" /\ flow[i].optional)
      <4>1. i \in Steps /\ w.step[i] \in Terminal
        BY <2>4, <2>7, <3>7 DEF AllOver, Gated
      <4>2. w.step[i] # "failed"
        BY <3>4, <3>7, <4>1 DEF Failing
      <4>. QED
        BY <2>3, <3>7, <4>1, <4>2 DEF RowOK, Terminal
    <3>8. FinishedOK(run', request')
      BY <3>2, <3>7 DEF FinishedOK, Given
    <3>9. RequestOK(request')
      <4>1. request'.linked = request.linked
        BY <1>1, <3>3 DEF RequestRow
      <4>. QED
        BY <1>1, <4>1 DEF RequestOK
    <3>. QED
      BY <1>2, <2>3, <2>5, <3>2, <3>3, <3>5, <3>6, <3>8, <3>9
  <2>8. CASE w.index <= Last /\ BeginWork(s, run, w, c)
    <3>1. run' = w /\ contract' = c /\ request' = request
      BY <1>1, <2>2, <2>8, SaveAlone DEF BeginWork
    <3>2. /\ work'[s].at = w.index
          /\ work'[s].phase = "agent" <=> flow[w.index].kind = "ai"
      BY <1>1, <2>8 DEF BeginWork, Now
    <3>3. PhaseOK(work')
      BY <3>2 DEF Alone, PhaseOK
    <3>. QED
      BY <1>1, <2>3, <2>5, <2>6, <3>1, <3>3 DEF SignedOK, FinishedOK
  <2>9. CASE w.index <= Last /\ Park(s, run, w, c)
    <3>1. run' = Parked(w) /\ contract' \in AfterEntering(c, ToEnter(w))
          /\ request' = request /\ Now(s, Idle) /\ ~ Slow(w)
      BY <1>1, <2>2, <2>9, SaveAlone, ParkedType DEF Park
    <3>2. /\ RowOK(run') /\ run'.index = w.index
          /\ \A i \in Steps : run'.step[i] = IF i \in ToEnter(w) THEN Entered(i) ELSE w.step[i]
      BY <1>1, <2>2, <2>3, <2>9, <3>1, ParkedRow
    <3>3. \A i \in ToEnter(w) : i \in Steps /\ w.step[i] \in Open
          /\ Entered(i) \in {"waiting_human", "running", "waiting_job"}
      BY <1>1, EnteredType DEF ToEnter, Group
    <3>4. \A i \in Steps : w.step[i] \in Terminal => run'.step[i] = w.step[i]
      BY <3>2, <3>3 DEF Open, Terminal
    <3>5. \A i \in Steps : run'.step[i] = "done" => w.step[i] = "done"
      BY <3>2, <3>3
    <3>6. SignedOK(run', contract')
      BY <2>6, <3>1, <3>5, ActiveStays DEF SignedOK
    <3>7. ASSUME \A i \in Gated : run'.step[i] = "pending" PROVE contract' = c
      <4>1. ASSUME NEW i \in ToEnter(w), flow[i].kind \in Gates PROVE FALSE
        BY <3>2, <3>3, <3>7, <4>1 DEF Gated
      <4>. QED
        BY <3>1, <4>1 DEF AfterEntering, Gates
    <3>8. FinishedOK(run', request')
      BY <3>1 DEF FinishedOK
    <3>. QED
      BY <1>1, <1>2, <2>3, <2>5, <3>1, <3>2, <3>4, <3>6, <3>7, <3>8
  <2>. QED
    BY <1>4, <2>7, <2>8, <2>9
<1>5. CASE r.status = "running"
  <2>1. PICK K \in SUBSET Optional :
          \E w \in {Walked(r, Passing(r, K, again), StopsAt(r, Passing(r, K, again)))} :
            \/ w.index > Last /\ Finish(s, run, w, c)
            \/ w.index <= Last /\ (BeginWork(s, run, w, c) \/ Park(s, run, w, c))
    BY <1>5 DEF Advance
  <2>. QED
    BY <1>4, <1>5, <2>1
<1>. QED
  BY <1>3, <1>5

\* The rows and contracts that calls and the end of slow work hand to
\* advance_run, where nothing comes between.
Returned(r, c) ==
  \E to \in Steps :
    /\ to < run.index /\ run.status \in {"running", "waiting", "failed"}
    /\ ~ (ReopensGate(to) /\ contract.stage = "active")
    /\ r = Reopened(run, to) /\ c = Rewound(contract, to)

Retried(r) ==
  /\ run.status = "waiting" /\ run.index <= Last /\ flow[run.index].kind = "ai"
  /\ r = [run EXCEPT !.step[run.index] = "pending", !.status = "running"]

Worked(r) ==
  /\ run.status = "running" /\ run.index <= Last /\ flow[run.index].kind \in {"ai", "draft"}
  /\ \E o \in {Over(run, run.index), LeftToAPerson(run, run.index)} :
       (r = o /\ flow[run.index].kind = "ai") \/ r = [o EXCEPT !.linked = TRUE]

Driven(r) ==
  \/ /\ run.status = "none"
     /\ r = [run EXCEPT !.status = "running", !.linked = request.linked]
  \/ run.status = "running" /\ r = run
  \/ run.status = "waiting" /\ r = Settled(run, contract)
  \/ \E i \in Steps : run.step[i] = "waiting_human" /\ r = Completed(i)
  \/ Retried(r)
  \/ Worked(r)

Taken(r, c) == Returned(r, c) \/ (Driven(r) /\ c = contract)

\* Signing a contract is for good.
LEMMA SignedMoves ==
  ASSUME flow \in Flows, NEW r \in Row, NEW c, NEW d, r.status = "waiting", OrderOK(r),
         SignedOK(r, c), c.stage = "active" => d.stage = "active"
  PROVE  SignedOK(Settled(r, d), d)
<1>0. r.index <= Last /\ r.index \in Steps
  BY CurrentFacts DEF OrderOK, Held
<1>. DEFINE g == Group(r.index)
            q == Settled(r, d)
<1>1. PICK t \in Row :
        /\ t.index = r.index
        /\ \A i \in Steps : t.step[i] = IF i \in g
                              THEN Verdict(i, r.step[i], d) ELSE r.step[i]
        /\ Settled(r, d) = SentBack(t) \/ Settled(r, d).step = t.step
  BY <1>0, SettledFacts
<1>2. ASSUME NEW i \in Steps, flow[i].kind = "signature", t.step[i] = "done"
      PROVE  d.stage = "active"
  <2>1. t.step[i] = r.step[i] \/ t.step[i] = Verdict(i, r.step[i], d)
    BY <1>1
  <2>. QED
    BY <1>2, <2>1, VerdictFacts DEF SignedOK
<1>3. CASE q.step = t.step
  BY <1>2, <1>3 DEF SignedOK
<1>4. CASE q = SentBack(t)
  <2>1. ASSUME NEW i \in Steps, q.step[i] = "done" PROVE t.step[i] = "done"
    <3>1. CASE q.step = t.step
      BY <2>1, <3>1
    <3>2. ASSUME NEW to \in Steps, q.step = Reopened(t, to).step PROVE t.step[i] = "done"
      <4>1. q.step[i] = IF i >= to THEN "pending" ELSE t.step[i]
        BY <3>2 DEF Reopened, Row
      <4>. QED
        BY <2>1, <4>1
    <3>. QED
      BY <1>4, <3>1, <3>2, SentBackFacts
  <2>. QED
    BY <1>2, <2>1 DEF SignedOK
<1>. QED
  BY <1>1, <1>3, <1>4

\* What is handed to advance_run is sound, and its request is not finished.
LEMMA TakenRow ==
  ASSUME GateInv, NEW r, NEW c, Taken(r, c)
  PROVE  /\ r \in Row /\ OrderOK(r) /\ RowOK(r)
         /\ c \in ContractRow /\ SignedOK(r, c)
         /\ request.status # "completed"
<1>0. /\ flow \in Flows /\ run \in Row /\ contract \in ContractRow /\ request \in RequestRow
      /\ OrderOK(run) /\ RowOK(run) /\ SignedOK(run, contract) /\ RequestOK(request)
      /\ FinishedOK(run, request)
  BY DEF GateInv, OInv, TypeOK
<1>1. ASSUME run.status \notin {"complete", "cancelled"} PROVE request.status # "completed"
  BY <1>0, <1>1 DEF FinishedOK
<1>. DEFINE Fine == /\ r \in Row /\ OrderOK(r) /\ RowOK(r)
                    /\ c \in ContractRow /\ SignedOK(r, c)
                    /\ request.status # "completed"
<1>2. ASSUME NEW to \in Steps, to < run.index, run.status \in {"running", "waiting", "failed"},
             r = Reopened(run, to), c = Rewound(contract, to)
      PROVE  Fine
  <2>1. r \in Row /\ c \in ContractRow
    BY <1>0, <1>2, ReopenedType, RewoundType
  <2>2. OrderOK(r)
    BY <1>0, <1>2, ReopenedOrder DEF OrderOK
  <2>3. RowOK(r) /\ \A i \in Steps : r.step[i] = IF i >= to THEN "pending" ELSE run.step[i]
    BY <1>0, <1>2, ReopenedRow
  <2>4. contract.stage = "active" => c.stage = "active"
    BY <1>2 DEF Rewound
  <2>5. SignedOK(r, c)
    BY <1>0, <2>3, <2>4 DEF SignedOK
  <2>. QED
    BY <1>1, <1>2, <2>1, <2>2, <2>3, <2>5
<1>3. CASE /\ run.status = "none" /\ c = contract
           /\ r = [run EXCEPT !.status = "running", !.linked = request.linked]
  <2>1. /\ r \in Row /\ r.index = run.index /\ r.step = run.step
        /\ r.status = "running" /\ r.linked = request.linked
    BY <1>0, <1>3 DEF Row, RequestRow, Active
  <2>2. OrderOK(r)
    BY <1>0, <1>3, <2>1 DEF OrderOK, Before, Untouched
  <2>3. \A i \in Steps : r.step[i] = "pending"
    BY <1>0, <1>3, <2>1 DEF RowOK
  <2>4. RowOK(r)
    BY <1>0, <2>1, <2>3 DEF RowOK, RequestOK, Failing
  <2>. QED
    BY <1>0, <1>1, <1>3, <2>1, <2>2, <2>3, <2>4 DEF SignedOK
<1>4. CASE run.status = "running" /\ r = run /\ c = contract
  BY <1>0, <1>1, <1>4
<1>5. CASE run.status = "waiting" /\ r = Settled(run, contract) /\ c = contract
  BY <1>0, <1>1, <1>5, SettledType, SettledOrder, SettledRow, SignedMoves
<1>6. ASSUME NEW i \in Steps, run.step[i] = "waiting_human", r = Completed(i), c = contract
      PROVE  Fine
  <2>1. r \in Row /\ OrderOK(r) /\ RowOK(r)
        /\ \A j \in Steps : r.step[j] = IF j = i THEN "done" ELSE run.step[j]
    BY <1>0, <1>6, CompletedType, CompletedOrder, CompletedRow
  <2>2. flow[i].kind # "signature"
    BY <1>0, <1>6 DEF RowOK, Gated, Gates
  <2>3. SignedOK(r, c)
    BY <1>0, <1>6, <2>1, <2>2 DEF SignedOK
  <2>4. run.status \notin {"complete", "cancelled"}
    BY <1>0, <1>6 DEF OrderOK, AllOver, Terminal
  <2>. QED
    BY <1>0, <1>1, <1>6, <2>1, <2>3, <2>4
<1>7. CASE Retried(r) /\ c = contract
  <2>1. /\ r \in Row /\ RowOK(r)
        /\ \A i \in Steps : r.step[i] = IF i = run.index THEN "pending" ELSE run.step[i]
    BY <1>0, <1>7, RetryRow DEF Retried
  <2>2. OrderOK(r)
    BY <1>0, <1>7, RetryOrder DEF Retried
  <2>3. SignedOK(r, c)
    BY <1>0, <1>7, <2>1 DEF SignedOK
  <2>. QED
    BY <1>0, <1>1, <1>7, <2>1, <2>2, <2>3 DEF Retried
<1>8. CASE Worked(r) /\ c = contract
  <2>1. PICK o \in {Over(run, run.index), LeftToAPerson(run, run.index)} :
          (r = o /\ flow[run.index].kind = "ai") \/ r = [o EXCEPT !.linked = TRUE]
    BY <1>8 DEF Worked
  <2>2. run.status = "running" /\ run.index <= Last /\ flow[run.index].kind \in {"ai", "draft"}
        /\ run.index \in Steps
    BY <1>0, <1>8, CurrentFacts DEF Worked
  <2>3. o \in Row /\ OrderOK(o)
    BY <1>0, <2>2, OverType, SlowOrder
  <2>4. r \in Row /\ r.index = o.index /\ r.step = o.step /\ r.status = o.status
    BY <2>1, <2>3 DEF Row
  <2>5. OrderOK(r)
    BY <2>3, <2>4, SameOrder
  <2>6. RowOK(r) /\ \A i \in Steps : i # run.index => r.step[i] = run.step[i]
    BY <1>0, <2>1, <2>2, SlowRow
  <2>7. SignedOK(r, c)
    BY <1>0, <1>8, <2>2, <2>6 DEF SignedOK
  <2>. QED
    BY <1>0, <1>1, <1>8, <2>2, <2>4, <2>5, <2>6, <2>7
<1>. QED
  BY <1>2, <1>3, <1>4, <1>5, <1>6, <1>7, <1>8 DEF Taken, Returned, Driven

\* What a step of the whole system may be, where nothing comes between.
Driving ==
  \E s \in Sessions, r \in Row, c \in ContractRow, again \in {0} \cup Steps :
    Taken(r, c) /\ Advance(s, run, r, c, again)
DraftLost ==
  /\ run.status = "running" /\ run.index \in Steps /\ flow[run.index].kind = "draft"
  /\ run' = [run EXCEPT !.step[run.index] = "failed", !.status = "failed"]
  /\ UNCHANGED <<contract, request>>
  /\ PhaseOK(work')
Closing ==
  /\ request.status = "open" /\ request' = [request EXCEPT !.status = "closed"]
  /\ \/ run.status \in Active /\ run' = Cancelled(run)
     \/ run' = run
  /\ contract'.stage = contract.stage
  /\ work' = work
Moving ==
  /\ contract.stage # "active"
  /\ run' = run \/ (run.status = "waiting" /\ run' = Settled(run, contract'))
  /\ UNCHANGED <<request, work>>
Aside ==
  /\ run' = run /\ contract'.stage = contract.stage
  /\ request'.status = request.status /\ (request.linked => request'.linked)
  /\ PhaseOK(work')

\* With one session every step is one of these five.
LEMMA NextCases ==
  ASSUME Alone, GateInv, [Next]_vars
  PROVE  flow' = flow /\ (Driving \/ DraftLost \/ Closing \/ Moving \/ Aside)
<1>0. /\ OInv /\ TypeOK /\ flow \in Flows /\ run \in Row /\ contract \in ContractRow
      /\ request \in RequestRow /\ work \in [Sessions -> Working] /\ PhaseOK(work)
  BY DEF GateInv, OInv, TypeOK
<1>. DEFINE Case == flow' = flow /\ (Driving \/ DraftLost \/ Closing \/ Moving \/ Aside)
<1>1. ASSUME NEW s \in Sessions, NEW r, NEW c, Taken(r, c), NEW again \in {0} \cup Steps,
             Advance(s, run, r, c, again), UNCHANGED <<flow, drafts>>
      PROVE  Case
  <2>1. r \in Row /\ c \in ContractRow
    BY <1>1, TakenRow
  <2>. QED
    BY <1>1, <2>1 DEF Driving
<1>2. ASSUME NEW s \in Sessions, NEW w, Now(s, w),
             w = Idle \/ (w.phase = "agent" <=> flow[w.at].kind = "ai")
      PROVE  PhaseOK(work')
  <2>1. work'[s] = w /\ \A t \in Sessions : t = s
    BY <1>0, <1>2 DEF Now, Alone
  <2>. QED
    BY <1>2, <2>1 DEF PhaseOK
<1>3. CASE \E s \in Sessions : Start(s)
  BY <1>1, <1>3 DEF Start, Taken, Driven
<1>4. CASE \E s \in Sessions : Refresh(s)
  BY <1>1, <1>4 DEF Refresh, Taken, Driven, Active
<1>5. CASE \E s \in Sessions : RetryReview(s)
  BY <1>1, <1>5 DEF RetryReview, Taken, Driven, Retried
<1>6. CASE \E s \in Sessions : Close(s)
  <2>1. contract'.stage = contract.stage
    BY <1>0, <1>6 DEF Close, ContractRow
  <2>. QED
    BY <1>6, <2>1 DEF Close, Closing
<1>7. CASE \E s \in Sessions, i \in Steps : Complete(s, i)
  BY <1>1, <1>7 DEF Complete, Taken, Driven
<1>8. ASSUME NEW s \in Sessions, NEW to \in Steps, Return(s, to) PROVE Case
  <2>1. PICK again \in {0} \cup Steps :
          Advance(s, run, Reopened(run, to), Rewound(contract, to), again)
    BY <1>8 DEF Return
  <2>2. Taken(Reopened(run, to), Rewound(contract, to))
    BY <1>8 DEF Return, Taken, Returned
  <2>. QED
    BY <1>1, <1>8, <2>1, <2>2 DEF Return
<1>9. ASSUME NEW s \in Sessions, ~ Free(s)
      PROVE  /\ Believed(s) = run /\ work[s].at = run.index /\ run.index \in Steps
             /\ run.status = "running" /\ run.index <= Last
             /\ flow[run.index].kind \in {"ai", "draft"}
             /\ work[s].phase = "agent" <=> flow[run.index].kind = "ai"
  <2>1. /\ Believed(s) = run /\ work[s].at = run.index
        /\ run.status = "running" /\ run.index <= Last
        /\ flow[run.index].kind \in {"ai", "draft"}
    BY <1>0, <1>9, AloneBelieves
  <2>2. run.index \in Steps
    BY <1>0, <2>1, CurrentFacts
  <2>. QED
    BY <1>0, <1>9, <2>1, <2>2 DEF PhaseOK, Free
<1>10. ASSUME NEW s \in Sessions, AgentDone(s) PROVE Case
  <2>1. work[s].phase = "agent" /\ ~ Free(s)
    BY <1>10 DEF AgentDone, Free, Idle
  <2>2. PICK r \in {Over(run, run.index), LeftToAPerson(run, run.index)} :
          Advance(s, run, r, contract, 0)
    BY <1>9, <1>10, <2>1 DEF AgentDone
  <2>3. Taken(r, contract)
    BY <1>9, <2>1, <2>2 DEF Taken, Driven, Worked
  <2>. QED
    BY <1>1, <1>10, <2>2, <2>3 DEF AgentDone
<1>11. ASSUME NEW s \in Sessions, DraftDone(s) PROVE Case
  <2>1. ~ Free(s)
    BY <1>11 DEF DraftDone, Free, Idle
  <2>2. PICK r \in {Over(run, run.index), LeftToAPerson(run, run.index)} :
          Advance(s, run, [r EXCEPT !.linked = TRUE], contract, 0)
    BY <1>9, <1>11, <2>1 DEF DraftDone
  <2>3. Taken([r EXCEPT !.linked = TRUE], contract)
    BY <1>9, <2>1, <2>2 DEF Taken, Driven, Worked
  <2>. QED
    BY <1>1, <1>11, <2>2, <2>3 DEF DraftDone
<1>12. ASSUME NEW s \in Sessions, NEW p \in {"drafted", "linked"}, ~ Free(s),
              work[s].phase \in {"drafting", "drafted"}, Now(s, [work[s] EXCEPT !.phase = p])
       PROVE  PhaseOK(work')
  <2>. DEFINE w == [work[s] EXCEPT !.phase = p]
  <2>1. w.phase = p /\ w.at = work[s].at
    BY <1>0, <1>12, BelievedType DEF Working, Free
  <2>2. flow[work[s].at].kind # "ai"
    BY <1>9, <1>12
  <2>. HIDE DEF w
  <2>3. ~ (w.phase = "agent") /\ ~ (flow[w.at].kind = "ai")
    BY <1>12, <2>1, <2>2
  <2>. QED
    BY <1>2, <1>12, <2>3 DEF w
<1>13. ASSUME NEW s \in Sessions, DraftMade(s) PROVE Case
  <2>1. ~ Free(s)
    BY <1>13 DEF DraftMade, Free, Idle
  <2>. QED
    BY <1>12, <1>13, <2>1 DEF DraftMade, Aside
<1>14. ASSUME NEW s \in Sessions, DraftLinked(s) PROVE Case
  <2>1. ~ Free(s)
    BY <1>14 DEF DraftLinked, Free, Idle
  <2>2. request'.status = request.status /\ request'.linked
    BY <1>0, <1>14 DEF DraftLinked, RequestRow
  <2>. QED
    BY <1>12, <1>14, <2>1, <2>2 DEF DraftLinked, Aside
<1>15. ASSUME NEW s \in Sessions, DraftFails(s) PROVE Case
  <2>1. ~ Free(s) /\ work[s].phase = "drafting"
    BY <1>15 DEF DraftFails, Free, Idle
  <2>. DEFINE q == [run EXCEPT !.step[run.index] = "failed", !.status = "failed"]
  <2>2. q \in Row
    BY <1>0 DEF Row, Terminal
  <2>3. Save(run, q)
    BY <1>9, <1>15, <2>1 DEF DraftFails
  <2>. HIDE DEF q
  <2>4. run' = q
    BY <1>0, <2>2, <2>3, SaveAlone
  <2>5. PhaseOK(work')
    BY <1>2, <1>15 DEF DraftFails
  <2>6. flow[run.index].kind = "draft"
    BY <1>9, <2>1
  <2>. QED
    BY <1>9, <1>15, <2>1, <2>4, <2>5, <2>6 DEF DraftFails, DraftLost, q
<1>16. ASSUME NEW s \in Sessions, Abandon(s) PROVE Case
  BY <1>2, <1>16 DEF Abandon, Aside
<1>17. ASSUME NEW c, Moves(c), contract.stage # "active" PROVE Case
  BY <1>17 DEF Moves, Moving
<1>18. CASE Approve \/ Reject
  BY <1>17, <1>18 DEF Approve, Reject
<1>19. CASE Submit
  BY <1>17, <1>19 DEF Submit, Submitted
<1>20. CASE NewVersion
  <2>1. contract'.stage = contract.stage
    BY <1>0, <1>20 DEF NewVersion, ContractRow
  <2>. QED
    BY <1>0, <1>20, <2>1 DEF NewVersion, Aside
<1>21. CASE \E to \in {"approval", "signature", "active", "review"} : MoveStage(to)
  <2>1. contract.stage # "active"
    BY <1>0, <1>21 DEF MoveStage, ContractRow
  <2>. QED
    BY <1>17, <1>21, <2>1 DEF MoveStage
<1>22. CASE UNCHANGED vars
  BY <1>0, <1>22 DEF vars, Aside
<1>23. ASSUME NEW s \in Sessions, Calls(s) PROVE Case
  BY <1>3, <1>4, <1>5, <1>6, <1>7, <1>8, <1>23 DEF Calls
<1>24. ASSUME NEW s \in Sessions, Works(s) PROVE Case
  BY <1>10, <1>11, <1>13, <1>14, <1>24 DEF Works
<1>. QED
  BY <1>15, <1>16, <1>18, <1>19, <1>20, <1>21, <1>22, <1>23, <1>24 DEF Next

\* The agreement holds at first ...
LEMMA GateInit == Init => GateInv
<1>. SUFFICES ASSUME Init PROVE GateInv
  OBVIOUS
<1>1. OInv
  BY OrderInit
<1>2. run.status = "none" /\ \A i \in Steps : run.step[i] = "pending"
  BY DEF Init
<1>3. RowOK(run)
  BY <1>2 DEF RowOK, Failing
<1>4. SignedOK(run, contract)
  BY <1>2 DEF SignedOK
<1>5. FinishedOK(run, request) /\ RequestOK(request)
  BY DEF Init, FinishedOK, RequestOK
<1>6. PhaseOK(work)
  BY DEF Init, PhaseOK
<1>. QED
  BY <1>1, <1>3, <1>4, <1>5, <1>6 DEF GateInv

\* ... and every step keeps it.
LEMMA GateStep == Alone /\ GateInv /\ [Next]_vars => GateInv'
<1>. SUFFICES ASSUME Alone, GateInv, [Next]_vars PROVE GateInv'
  OBVIOUS
<1>0. /\ flow \in Flows /\ run \in Row /\ request \in RequestRow
      /\ OrderOK(run) /\ RowOK(run) /\ SignedOK(run, contract)
      /\ FinishedOK(run, request) /\ RequestOK(request) /\ PhaseOK(work)
  BY DEF GateInv, OInv, TypeOK
<1>1. flow' = flow /\ (Driving \/ DraftLost \/ Closing \/ Moving \/ Aside)
  BY NextCases
<1>. DEFINE Kept == /\ RowOK(run') /\ SignedOK(run', contract')
                    /\ FinishedOK(run', request') /\ RequestOK(request') /\ PhaseOK(work')
<1>2. ASSUME Driving PROVE Kept
  <2>1. PICK s \in Sessions, r \in Row, c \in ContractRow, again \in {0} \cup Steps :
          Taken(r, c) /\ Advance(s, run, r, c, again)
    BY <1>2 DEF Driving
  <2>2. OrderOK(r) /\ RowOK(r) /\ SignedOK(r, c) /\ request.status # "completed"
    BY <2>1, TakenRow
  <2>. QED
    BY <2>1, <2>2, AdvanceGates
<1>3. ASSUME DraftLost PROVE Kept
  <2>1. /\ run'.status = "failed" /\ run'.index = run.index /\ run'.linked = run.linked
        /\ run'.step[run.index] = "failed"
        /\ \A i \in Steps : i # run.index => run'.step[i] = run.step[i]
    BY <1>0, <1>3 DEF DraftLost, Row
  <2>2. run.index \in Steps /\ flow[run.index].kind = "draft" /\ run.status = "running"
    BY <1>3 DEF DraftLost
  <2>3. Group(run.index) = {run.index}
    <3>1. run.index \in Group(run.index)
      BY <2>2, <1>0, FlowFacts DEF Group
    <3>. QED
      BY <1>0, <2>2, <3>1, AiAlone
  <2>4. \A i \in Steps : ~ Failing(run, i)
    BY <1>0, <2>2, NoneFailing
  <2>5. \A i \in Steps : Failing(run', i) => i = run.index
    BY <2>1, <2>4 DEF Failing
  <2>6. run.index \notin Gated
    BY <2>2 DEF Gated, Gates
  <2>7. RowOK(run')
    BY <1>0, <2>1, <2>2, <2>3, <2>5, <2>6 DEF RowOK
  <2>8. SignedOK(run', contract')
    BY <1>0, <1>3, <2>1 DEF SignedOK, DraftLost
  <2>9. FinishedOK(run', request')
    BY <1>0, <1>3, <2>2 DEF FinishedOK, DraftLost
  <2>. QED
    BY <1>0, <1>3, <2>7, <2>8, <2>9 DEF DraftLost
<1>4. ASSUME Closing PROVE Kept
  <2>1. RowOK(run') /\ \A i \in Steps : run'.step[i] = "done" => run.step[i] = "done"
    BY <1>0, <1>4, CancelledRow DEF Closing
  <2>2. SignedOK(run', contract')
    BY <1>0, <1>4, <2>1 DEF SignedOK, Closing
  <2>3. request'.status = "closed" /\ request'.linked = request.linked
    BY <1>0, <1>4 DEF Closing, RequestRow
  <2>. QED
    BY <1>0, <1>4, <2>1, <2>2, <2>3 DEF FinishedOK, RequestOK, Closing
<1>5. ASSUME Moving PROVE Kept
  <2>1. CASE run' = run
    BY <1>0, <1>5, <2>1 DEF Moving, SignedOK
  <2>2. CASE run.status = "waiting" /\ run' = Settled(run, contract')
    <3>1. RowOK(run')
      BY <1>0, <2>2, SettledRow
    <3>2. SignedOK(run', contract')
      BY <1>0, <1>5, <2>2, SignedMoves DEF Moving
    <3>3. request' = request /\ request.status # "completed"
      BY <1>0, <1>5, <2>2 DEF Moving, FinishedOK
    <3>. QED
      BY <1>0, <1>5, <3>1, <3>2, <3>3 DEF Moving, FinishedOK
  <2>. QED
    BY <1>5, <2>1, <2>2 DEF Moving
<1>6. ASSUME Aside PROVE Kept
  BY <1>0, <1>6 DEF Aside, SignedOK, FinishedOK, RequestOK
<1>7. Kept
  BY <1>1, <1>2, <1>3, <1>4, <1>5, <1>6
<1>. HIDE DEF Kept
<1>8. OInv'
  BY OrderStep DEF GateInv
<1>9. Steps' = Steps
  BY <1>1, SameFlow
<1>10. Gated' = Gated
  BY <1>1, <1>9 DEF Gated
<1>11. RowOK(run)'
  BY <1>1, <1>7, <1>9, <1>10 DEF Kept, RowOK, Failing, Group
<1>12. SignedOK(run, contract)'
  BY <1>1, <1>7, <1>9 DEF Kept, SignedOK
<1>13. FinishedOK(run, request)'
  BY <1>1, <1>7, <1>10 DEF Kept, FinishedOK, Given
<1>14. RequestOK(request)' /\ PhaseOK(work)'
  BY <1>1, <1>7, <1>9 DEF Kept, RequestOK, PhaseOK, Idle
<1>. QED
  BY <1>8, <1>11, <1>12, <1>13, <1>14 DEF GateInv

\* With one session, and workflows in which every gate has its group to itself
\* or something to be sent back to, a request is closed as finished only with
\* every gate given, or skipped where a condition may skip it, and its contract
\* active where a signature was: close_request_when_contract_flow_done closes
\* nothing that the engine has walked past.
THEOREM FinishedIsSigned ==
  ASSUME Alone, \A f \in Flows : Retreats(f)
  PROVE  Spec => []FinishedMeansSigned
<1>1. GateInv => FinishedMeansSigned
  <2>. SUFFICES ASSUME GateInv, request.status = "completed", NEW i \in Gated
                PROVE  /\ run.step[i] = "done" \/ (run.step[i] = "skipped" /\ flow[i].optional)
                       /\ flow[i].kind = "signature" /\ run.step[i] = "done"
                            => contract.stage = "active"
    BY DEF FinishedMeansSigned
  <2>1. Retreats(flow)
    BY DEF GateInv, OInv, TypeOK
  <2>. QED
    BY <2>1 DEF GateInv, FinishedOK, Given, SignedOK, Gated
<1>. QED
  BY <1>1, GateInit, GateStep, PTL DEF Spec

-----------------------------------------------------------------------------
(***************************************************************************)
(* What taking a run back does to its gates and to the contract.           *)
(***************************************************************************)
\* A gate that has been opened is not behind the row's index, where gates begin
\* their groups, and its run has its contract.
LEMMA OpenedGate ==
  ASSUME flow \in Flows, run \in Row, OrderOK(run), RowOK(run), Leads(flow),
         run.status \notin {"complete", "cancelled"},
         NEW i \in Gated, run.step[i] # "pending"
  PROVE  i \in Steps /\ i <= run.index /\ run.linked
<1>1. Last \in Nat /\ Steps = 1..Last /\ run.index \in 1..(Last + 1) /\ i \in Steps
  BY FlowFacts, RowFacts DEF Gated
<1>2. run.status # "none"
  BY <1>1 DEF RowOK
<1>3. i <= run.index
  <2>. SUFFICES ASSUME run.index < i PROVE FALSE
    BY <1>1
  <2>1. run.index \in Steps
    BY <1>1
  <2>2. flow[run.index].next <= i
    BY <1>1, <2>1 DEF Leads, Gated, Steps
  <2>. QED
    BY <1>1, <2>1, <2>2 DEF OrderOK, Untouched
<1>4. ASSUME \A d \in Steps : flow[d].kind # "draft" PROVE run.linked
  BY <1>2, <1>4 DEF RowOK
<1>5. ASSUME NEW d \in Steps, flow[d].kind = "draft" PROVE run.linked
  <2>1. d < i
    <3>. SUFFICES ASSUME i <= d PROVE FALSE
      BY <1>1
    <3>1. flow[d].stage = "drafting" /\ flow[i].stage \in Gates
      BY <1>1, <1>5, KindFacts DEF Gated
    <3>2. i # d /\ i < d
      BY <1>1, <1>5 DEF Gated, Gates
    <3>3. Rank[flow[i].stage] <= Rank[flow[d].stage]
      BY <1>1, <1>5, <3>2, KindFacts
    <3>. QED
      BY <3>1, <3>3 DEF Rank, Gates
  <2>2. d < run.index \/ d = run.index
    <3>1. CASE i < run.index
      BY <1>1, <2>1, <3>1
    <3>2. CASE i = run.index
      BY <1>1, <2>1, <3>2
    <3>. QED
      BY <1>1, <1>3, <3>1, <3>2
  <2>3. d < run.index
    <3>. SUFFICES ASSUME d = run.index PROVE FALSE
      BY <2>2
    <3>. QED
      BY <1>1, <1>3, <2>1
  <2>4. run.step[d] \in Terminal
    BY <1>5, <2>3 DEF OrderOK, Before
  <2>5. run.step[d] # "failed"
    BY <1>1, <1>5, <2>3 DEF RowOK, Failing
  <2>. QED
    BY <1>5, <2>4, <2>5 DEF RowOK, Terminal
<1>. QED
  BY <1>1, <1>3, <1>4, <1>5

\* Settling undoes nothing that is done unless the contract is in Review, and
\* takes the row back only then.
LEMMA SettledBack ==
  ASSUME flow \in Flows, NEW r \in Row, NEW c, r.index <= Last, c.stage # "review"
  PROVE  /\ Settled(r, c).index >= r.index
         /\ \A i \in Steps : r.step[i] = "done" => Settled(r, c).step[i] = "done"
<1>. DEFINE g == Group(r.index)
<1>1. PICK t \in Row :
        /\ \A i \in Steps : t.step[i] = IF i \in g
                              THEN Verdict(i, r.step[i], c) ELSE r.step[i]
        /\ \/ /\ Settled(r, c) = SentBack(t)
              /\ \E i \in g : t.step[i] = "failed" /\ r.step[i] # "failed"
           \/ /\ Settled(r, c).step = t.step
              /\ \/ Settled(r, c).index = flow[r.index].next
                 \/ Settled(r, c).index = r.index
  BY SettledFacts
<1>2. ~ \E i \in g : t.step[i] = "failed" /\ r.step[i] # "failed"
  BY <1>1, VerdictFacts DEF Group
<1>3. \A i \in Steps : r.step[i] = "done" => t.step[i] = "done"
  BY <1>1, VerdictFacts DEF Terminal
<1>4. r.index \in Steps /\ r.index < flow[r.index].next /\ flow[r.index].next \in Nat
      /\ r.index \in Nat
  BY CurrentFacts, FlowFacts
<1>. QED
  BY <1>1, <1>2, <1>3, <1>4

\* Of what is handed to advance_run, only a row that was returned has lost a
\* gate that was done, and a row that goes back behind its gates comes with its
\* contract in Review.
LEMMA TakenBack ==
  ASSUME GateInv, Leads(flow), NEW r, NEW c, Taken(r, c)
  PROVE  /\ contract.stage = "active" =>
              \A i \in Gated : run.step[i] = "done" => r.step[i] = "done"
         /\ /\ r.index < run.index
            /\ \E i \in Gated : run.step[i] \in {"waiting_job", "done"}
            /\ \A i \in Gated : r.step[i] # "done"
            => c.stage = "review"
<1>0. /\ flow \in Flows /\ run \in Row /\ contract \in ContractRow
      /\ OrderOK(run) /\ RowOK(run)
      /\ Last \in Nat /\ Steps = 1..Last /\ run.index \in 1..(Last + 1)
  BY FlowFacts, RowFacts DEF GateInv, OInv, TypeOK
<1>1. ASSUME NEW i \in Steps, i \in Gated PROVE flow[i].kind \notin {"ai", "draft"}
  BY <1>1 DEF Gated, Gates
<1>2. ASSUME NEW to \in Steps, to < run.index,
             run.status \in {"running", "waiting", "failed"},
             ~ (ReopensGate(to) /\ contract.stage = "active"),
             r = Reopened(run, to), c = Rewound(contract, to),
             NEW i \in Gated, run.step[i] \in {"waiting_job", "done"}
      PROVE  /\ contract.stage = "active" /\ run.step[i] = "done" => r.step[i] = "done"
             /\ r.step[i] = "done" \/ c.stage = "review"
  <2>1. i \in Steps /\ i <= run.index /\ run.linked
    BY <1>0, <1>2, OpenedGate
  <2>2. \A j \in Steps : r.step[j] = IF j >= to THEN "pending" ELSE run.step[j]
    BY <1>0, <1>2, ReopenedRow
  <2>3. CASE i >= to
    <3>1. i \in to..run.index /\ i <= Last /\ flow[i].kind \in Gates
      BY <1>0, <1>2, <2>1, <2>3 DEF Gated
    <3>2. ReopensGate(to)
      BY <2>1, <3>1 DEF ReopensGate
    <3>3. contract.stage \in {"review", "approval", "signature"}
      BY <1>0, <1>2, <3>2 DEF ContractRow
    <3>4. c.stage = "review"
      BY <1>0, <1>2, <3>2, <3>3 DEF Rewound, ContractRow
    <3>. QED
      BY <3>3, <3>4
  <2>4. CASE ~ (i >= to)
    <3>1. r.step[i] = run.step[i]
      BY <2>1, <2>2, <2>4
    <3>2. i < run.index
      BY <1>0, <1>2, <2>1, <2>4
    <3>3. run.step[i] = "done"
      BY <1>0, <1>2, <2>1, <3>2 DEF OrderOK, Before, Terminal
    <3>. QED
      BY <3>1, <3>3
  <2>. QED
    BY <2>3, <2>4
<1>3. CASE Returned(r, c)
  BY <1>2, <1>3 DEF Returned
<1>4. CASE /\ run.status = "none" /\ c = contract
           /\ r = [run EXCEPT !.status = "running", !.linked = request.linked]
  <2>1. r.index = run.index /\ r.step = run.step
    BY <1>0, <1>4 DEF Row
  <2>. QED
    BY <1>0, <2>1
<1>5. CASE r = run /\ c = contract
  BY <1>0, <1>5
<1>6. CASE run.status = "waiting" /\ r = Settled(run, contract) /\ c = contract
  <2>1. run.index <= Last
    BY <1>0, <1>6 DEF OrderOK, Held
  <2>2. contract.stage # "review" =>
          /\ r.index >= run.index
          /\ \A i \in Steps : run.step[i] = "done" => r.step[i] = "done"
    BY <1>0, <1>6, <2>1, SettledBack
  <2>3. r.index \in Nat
    <3>1. r \in Row
      BY <1>0, <1>6, SettledType
    <3>. QED
      BY <1>0, <3>1, RowFacts
  <2>4. r.index >= run.index => ~ (r.index < run.index)
    BY <1>0, <2>3
  <2>. QED
    BY <1>6, <2>2, <2>4 DEF Gated
<1>7. ASSUME NEW i \in Steps, run.step[i] = "waiting_human", r = Completed(i), c = contract
      PROVE  ~ (r.index < run.index)
             /\ \A j \in Steps : run.step[j] = "done" => r.step[j] = "done"
  <2>1. /\ r.index >= run.index
        /\ \A j \in Steps : r.step[j] = IF j = i THEN "done" ELSE run.step[j]
    BY <1>0, <1>7, CompletedRow
  <2>2. r.index \in Nat
    <3>1. r \in Row
      BY <1>0, <1>7, CompletedType
    <3>. QED
      BY <1>0, <3>1, RowFacts
  <2>. QED
    BY <1>0, <2>1, <2>2
<1>8. CASE Retried(r) /\ c = contract
  <2>1. /\ r.index = run.index /\ flow[run.index].kind = "ai"
        /\ \A i \in Steps : r.step[i] = IF i = run.index THEN "pending" ELSE run.step[i]
    BY <1>0, <1>8, RetryRow DEF Retried
  <2>2. \A i \in Gated : i \in Steps /\ i # run.index
    BY <1>1, <2>1 DEF Gated
  <2>. QED
    BY <1>0, <2>1, <2>2
<1>9. CASE Worked(r) /\ c = contract
  <2>1. PICK o \in {Over(run, run.index), LeftToAPerson(run, run.index)} :
          (r = o /\ flow[run.index].kind = "ai") \/ r = [o EXCEPT !.linked = TRUE]
    BY <1>9 DEF Worked
  <2>2. run.status = "running" /\ run.index <= Last /\ flow[run.index].kind \in {"ai", "draft"}
    BY <1>9 DEF Worked
  <2>3. r.index >= run.index /\ \A i \in Steps : i # run.index => r.step[i] = run.step[i]
    BY <1>0, <2>1, <2>2, SlowRow
  <2>4. \A i \in Gated : i \in Steps /\ i # run.index
    BY <1>1, <2>2 DEF Gated
  <2>5. r.index \in Nat
    <3>1. r \in Row
      BY <1>9, TakenRow DEF Taken, Driven
    <3>. QED
      BY <1>0, <3>1, RowFacts
  <2>. QED
    BY <1>0, <2>3, <2>4, <2>5
<1>10. CASE Driven(r) /\ c = contract
  BY <1>4, <1>5, <1>6, <1>7, <1>8, <1>9, <1>10 DEF Driven, Gated
<1>. QED
  BY <1>3, <1>10 DEF Taken

\* With one session, where gates begin their groups, a gate that is done stays
\* done once the contract is active: return_run refuses to reopen it, and
\* nothing else does.
THEOREM SignedStaysSigned ==
  ASSUME Alone, \A f \in Flows : Leads(f)
  PROVE  Spec => SignedForGood
<1>1. ASSUME GateInv, [Next]_vars, contract.stage = "active",
             NEW i \in Gated, run.step[i] = "done"
      PROVE  run'.step[i] = "done"
  <2>0. /\ flow \in Flows /\ run \in Row /\ OrderOK(run) /\ RowOK(run) /\ i \in Steps
        /\ flow[i].kind # "draft"
    BY <1>1 DEF GateInv, OInv, TypeOK, Gated, Gates
  <2>1. CASE Driving
    <3>1. PICK s \in Sessions, r \in Row, c \in ContractRow, again \in {0} \cup Steps :
            Taken(r, c) /\ Advance(s, run, r, c, again)
      BY <2>1 DEF Driving
    <3>2. r.step[i] = "done"
      BY <1>1, <2>0, <3>1, TakenBack
    <3>. QED
      BY <1>1, <2>0, <3>1, <3>2, TakenRow, AdvanceGates DEF Terminal
  <2>2. CASE DraftLost
    BY <1>1, <2>0, <2>2 DEF DraftLost, Row
  <2>3. CASE Closing
    BY <1>1, <2>0, <2>3, CancelledRow DEF Closing
  <2>4. CASE Moving \/ Aside
    BY <1>1, <2>4 DEF Moving, Aside
  <2>. QED
    BY <1>1, <2>1, <2>2, <2>3, <2>4, NextCases
<1>2. GateInv /\ [Next]_vars =>
        [contract.stage = "active" =>
           \A i \in Gated : run.step[i] = "done" => run'.step[i] = "done"]_vars
  BY <1>1
<1>. QED
  BY <1>2, GateInit, GateStep, PTL DEF Spec, SignedForGood

\* With one session, where gates begin their groups, a run that is taken back
\* before its gates takes its contract back to Review, whether an approver
\* rejected it, somebody pulled it back, or a person returned the run.
THEOREM ReworkTakesBack ==
  ASSUME Alone, \A f \in Flows : Leads(f)
  PROVE  Spec => ReworkTakesContractBack
<1>1. ASSUME GateInv, [Next]_vars, run'.index < run.index,
             \E i \in Gated : run.step[i] \in {"waiting_job", "done"},
             \A i \in Gated : run'.step[i] = "pending"
      PROVE  contract'.stage = "review"
  <2>0. /\ flow \in Flows /\ run \in Row /\ OrderOK(run) /\ RowOK(run)
        /\ Last \in Nat /\ run.index \in 1..(Last + 1)
    BY <1>1, FlowFacts, RowFacts DEF GateInv, OInv, TypeOK
  <2>1. CASE Driving
    <3>1. PICK s \in Sessions, r \in Row, c \in ContractRow, again \in {0} \cup Steps :
            Taken(r, c) /\ Advance(s, run, r, c, again)
      BY <2>1 DEF Driving
    <3>2. OrderOK(r) /\ RowOK(r) /\ SignedOK(r, c) /\ request.status # "completed"
      BY <1>1, <3>1, TakenRow
    <3>3. /\ run'.index >= r.index
          /\ \A i \in Steps : r.step[i] \in Terminal => run'.step[i] = r.step[i]
          /\ contract'.stage = c.stage
      BY <1>1, <3>1, <3>2, AdvanceGates
    <3>4. r.index < run.index
      <4>1. r.index \in Nat
        BY <2>0, RowFacts
      <4>2. run'.index \in Nat
        <5>1. TypeOK
          BY <1>1 DEF GateInv, OInv
        <5>2. r \in Row
          BY <1>1, <3>1, TakenRow
        <5>3. run' \in Row
          BY <2>0, <3>1, <5>1, <5>2, AdvanceType
        <5>. QED
          BY <2>0, <5>3, RowFacts
      <4>. QED
        BY <1>1, <2>0, <3>3, <4>1, <4>2
    <3>5. \A i \in Gated : r.step[i] # "done"
      BY <1>1, <3>3 DEF Gated, Terminal
    <3>. QED
      BY <1>1, <2>0, <3>1, <3>3, <3>4, <3>5, TakenBack
  <2>2. CASE DraftLost
    BY <1>1, <2>0, <2>2 DEF DraftLost, Row
  <2>3. CASE Closing
    BY <1>1, <2>0, <2>3, CancelledRow DEF Closing
  <2>4. CASE Moving
    <3>1. run.status = "waiting" /\ run' = Settled(run, contract')
      BY <1>1, <2>0, <2>4 DEF Moving
    <3>2. run.index <= Last
      BY <2>0, <3>1 DEF OrderOK, Held
    <3>3. contract'.stage # "review" => run'.index >= run.index
      BY <2>0, <3>1, <3>2, SettledBack
    <3>4. run'.index \in Nat
      <4>1. run' \in Row
        BY <2>0, <3>1, SettledType
      <4>. QED
        BY <2>0, <4>1, RowFacts
    <3>. QED
      BY <1>1, <2>0, <3>3, <3>4
  <2>5. CASE Aside
    BY <1>1, <2>0, <2>5 DEF Aside
  <2>. QED
    BY <1>1, <2>1, <2>2, <2>3, <2>4, <2>5, NextCases
<1>2. GateInv /\ [Next]_vars =>
        [(/\ run'.index < run.index
          /\ \E i \in Gated : run.step[i] \in {"waiting_job", "done"}
          /\ \A i \in Gated : run'.step[i] = "pending")
         => contract'.stage = "review"]_vars
  BY <1>1
<1>. QED
  BY <1>2, GateInit, GateStep, PTL DEF Spec, ReworkTakesContractBack

-----------------------------------------------------------------------------
(***************************************************************************)
(* What a rejection is owed.  The row of a run that was sent back stays at *)
(* or before the person who reviews before the approvers, who has not been *)
(* heard (OwedOK).                                                         *)
(***************************************************************************)
Barred(r, j) == r.index <= j /\ r.step[j] \notin Terminal
Unasked(r) ==
  \A i, j \in Steps : flow[i].kind = "approval" /\ Reviews(j, i) => Barred(r, j)
OwedOK(r) == r.owed /\ r.status \notin {"complete", "cancelled"} => Unasked(r)

\* A run is sent back no further on than the last review before its approvers.
LEMMA TargetBars ==
  ASSUME flow \in Flows, NEW t \in Row, NEW to \in ReworkTargets(t),
         NEW i \in Steps, flow[i].kind = "approval", NEW j \in Steps, Reviews(j, i)
  PROVE  to <= j
<1>1. to \in Steps /\ flow[to].stage \in {"review", "drafting"}
  BY DEF ReworkTargets
<1>2. Last \in Nat /\ Steps = 1..Last
  BY FlowFacts
<1>. SUFFICES ASSUME j < to PROVE FALSE
  BY <1>1, <1>2
<1>3. flow[j].stage = "review" /\ flow[i].stage = "approval"
  BY KindFacts DEF Reviews, Gates
<1>4. flow[to].stage = "review"
  <2>1. Rank[flow[j].stage] <= Rank[flow[to].stage]
    BY <1>1, KindFacts
  <2>. QED
    BY <1>1, <1>3, <2>1 DEF Rank
<1>5. to < i
  <2>. SUFFICES ASSUME i < to PROVE FALSE
    BY <1>1, <1>2, <1>3, <1>4
  <2>1. Rank[flow[i].stage] <= Rank[flow[to].stage]
    BY <1>1, KindFacts
  <2>. QED
    BY <1>3, <1>4, <2>1 DEF Rank
<1>. QED
  BY <1>1, <1>4, <1>5 DEF Reviews

\* Sending back, and taking back by hand, ask the reviewer again.
LEMMA ReopenedOwed ==
  ASSUME flow \in Flows, NEW r \in Row, NEW to \in Steps,
         \A i, j \in Steps : flow[i].kind = "approval" /\ Reviews(j, i) => to <= j
  PROVE  Unasked(Reopened(r, to))
<1>. DEFINE q == Reopened(r, to)
<1>1. q.index = to /\ \A i \in Steps : q.step[i] = IF i >= to THEN "pending" ELSE r.step[i]
  BY DEF Reopened, Row
<1>. HIDE DEF q
<1>2. ASSUME NEW i \in Steps, NEW j \in Steps, flow[i].kind = "approval", Reviews(j, i)
      PROVE  Barred(q, j)
  <2>1. to <= j /\ to \in Nat /\ j \in Nat
    BY <1>2, FlowFacts
  <2>. QED
    BY <1>1, <2>1 DEF Barred, Terminal
<1>. QED
  BY <1>2 DEF q, Unasked

\* A contract's verdict is not the reviewer's.
LEMMA SettledOwed ==
  ASSUME flow \in Flows, NEW r \in Row, r.status = "waiting", r.index <= Last, OwedOK(r), NEW c
  PROVE  OwedOK(Settled(r, c))
<1>. DEFINE g == Group(r.index)
            q == Settled(r, c)
<1>1. PICK t \in Row :
        /\ t.index = r.index /\ t.status = r.status
        /\ t.linked = r.linked /\ t.owed = r.owed
        /\ \A i \in Steps : t.step[i] = IF i \in g
                              THEN Verdict(i, r.step[i], c) ELSE r.step[i]
        /\ \/ /\ q = SentBack(t)
              /\ \E i \in g : t.step[i] = "failed" /\ r.step[i] # "failed"
           \/ /\ ~ \E i \in g : t.step[i] = "failed" /\ r.step[i] # "failed"
              /\ q.step = t.step
              /\ q.linked = t.linked /\ q.owed = t.owed
              /\ \/ /\ \A i \in g : t.step[i] \in Terminal
                    /\ q.index = flow[r.index].next
                    /\ q.status = "running"
                 \/ /\ q.index = r.index
                    /\ q.status \in {r.status, "running"}
  BY SettledFacts
<1>. HIDE DEF q
<1>2. ASSUME NEW i \in Steps, NEW j \in Steps, Reviews(j, i) PROVE t.step[j] = r.step[j]
  <2>1. j \notin Gated
    BY <1>2 DEF Reviews, Gated, Gates
  <2>. QED
    BY <1>1, <2>1, VerdictFacts
<1>3. t.owed => Unasked(t)
  BY <1>1, <1>2 DEF OwedOK, Unasked, Barred
<1>4. ASSUME q = SentBack(t) PROVE OwedOK(q)
  <2>1. CASE q.index = t.index /\ q.step = t.step /\ q.owed = t.owed
    BY <1>3, <2>1 DEF OwedOK, Unasked, Barred
  <2>2. ASSUME NEW to \in ReworkTargets(t), to \in Steps,
               q.index = to, q.step = Reopened(t, to).step
        PROVE  Unasked(q)
    <3>1. Unasked(Reopened(t, to))
      BY <2>2, TargetBars, ReopenedOwed
    <3>2. Reopened(t, to).index = to
      BY DEF Reopened, Row
    <3>. QED
      BY <2>2, <3>1, <3>2 DEF Unasked, Barred
  <2>. QED
    BY <1>4, <2>1, <2>2, SentBackFacts DEF OwedOK
<1>5. ASSUME q.step = t.step /\ q.owed = t.owed /\ q.index = r.index
      PROVE  OwedOK(q)
  BY <1>1, <1>3, <1>5 DEF OwedOK, Unasked, Barred
<1>6. ASSUME q.step = t.step, q.owed = t.owed, q.index = flow[r.index].next,
             \A i \in g : t.step[i] \in Terminal
      PROVE  OwedOK(q)
  <2>1. r.index \in Steps /\ flow[r.index].next \in Nat /\ r.index \in Nat
    BY CurrentFacts, FlowFacts
  <2>2. ASSUME NEW j \in Steps, Barred(t, j) PROVE Barred(q, j)
    <3>1. r.index <= j /\ j \notin g /\ j \in Nat
      BY <1>1, <1>6, <2>2, FlowFacts DEF Barred
    <3>2. flow[r.index].next <= j
      BY <2>1, <3>1, CurrentFacts
    <3>. QED
      BY <1>6, <2>2, <3>2 DEF Barred
  <2>. QED
    BY <1>3, <1>6, <2>2 DEF OwedOK, Unasked
<1>. QED
  BY <1>1, <1>4, <1>5, <1>6 DEF q

\* No walk goes past the reviewer.
LEMMA AdvanceOwed ==
  ASSUME flow \in Flows, run \in Row, NEW s \in Sessions, NEW r \in Row, OwedOK(r),
         NEW c, NEW again, Advance(s, run, r, c, again)
  PROVE  OwedOK(run')
<1>1. Last \in Nat /\ Steps = 1..Last /\ r.index \in 1..(Last + 1)
  BY FlowFacts, RowFacts
<1>2. CASE r.status # "running"
  BY <1>2, SaveAlone DEF Advance
<1>3. ASSUME r.status = "running", NEW K \in SUBSET Optional,
             NEW pass, pass = Passing(r, K, again),
             NEW w, w = Walked(r, pass, StopsAt(r, pass)),
             \/ w.index > Last /\ Finish(s, run, w, c)
             \/ w.index <= Last /\ (BeginWork(s, run, w, c) \/ Park(s, run, w, c))
      PROVE  OwedOK(run')
  <2>. DEFINE stop == StopsAt(r, pass)
  <2>1. stop \in 1..(Last + 1)
    BY <1>1, StopFacts
  <2>2. w \in Row
    BY <1>3, <2>1, WalkedType
  <2>3. /\ w.owed = r.owed /\ w.index = stop
        /\ \A i \in Steps : i \notin pass => w.step[i] = r.step[i]
    BY <1>3 DEF Walked, Row
  <2>4. ASSUME NEW i \in Steps, NEW j \in Steps, Reviews(j, i), Barred(r, j)
        PROVE  Barred(w, j)
    <3>1. j \notin pass
      BY <1>3, <2>4 DEF Passing, Barred, Reviews, Optional
    <3>2. ~ (j < stop)
      BY <2>4, <3>1, PassedOver DEF Barred
    <3>3. stop <= j
      BY <1>1, <2>1, <3>2
    <3>. QED
      BY <2>3, <2>4, <3>1, <3>3 DEF Barred
  <2>5. r.owed => Unasked(r)
    BY <1>3 DEF OwedOK
  <2>. HIDE DEF stop
  <2>6. w.owed => Unasked(w)
    BY <2>3, <2>4, <2>5 DEF Unasked
  <2>7. CASE Finish(s, run, w, c)
    <3>1. ASSUME NEW v \in {"complete", "cancelled"}, Save(run, [w EXCEPT !.status = v])
          PROVE  run'.status = v
      <4>. DEFINE q == [w EXCEPT !.status = v]
      <4>1. q \in Row /\ q.status = v
        BY <2>2 DEF Row
      <4>. HIDE DEF q
      <4>2. run' = q
        BY <3>1, <4>1, SaveAlone DEF q
      <4>. QED
        BY <4>1, <4>2
    <3>. QED
      BY <2>7, <3>1 DEF Finish, OwedOK
  <2>8. CASE BeginWork(s, run, w, c)
    BY <2>2, <2>6, <2>8, SaveAlone DEF BeginWork, OwedOK
  <2>9. CASE Park(s, run, w, c)
    <3>1. run' = Parked(w)
      BY <2>2, <2>9, SaveAlone, ParkedType DEF Park
    <3>2. /\ run'.owed = w.owed /\ run'.index = w.index
          /\ \A i \in Steps : run'.step[i] = IF i \in ToEnter(w) THEN Entered(i) ELSE w.step[i]
      BY <2>2, <3>1 DEF Parked, Row
    <3>3. \A j \in Steps : Barred(w, j) => Barred(run', j)
      BY <3>2, EnteredType DEF Barred, Terminal
    <3>. QED
      BY <2>6, <3>2, <3>3 DEF OwedOK, Unasked
  <2>. QED
    BY <1>3, <2>7, <2>8, <2>9
<1>4. CASE r.status = "running"
  <2>1. PICK K \in SUBSET Optional :
          \E w \in {Walked(r, Passing(r, K, again), StopsAt(r, Passing(r, K, again)))} :
            \/ w.index > Last /\ Finish(s, run, w, c)
            \/ w.index <= Last /\ (BeginWork(s, run, w, c) \/ Park(s, run, w, c))
    BY <1>4 DEF Advance
  <2>. QED
    BY <1>3, <1>4, <2>1
<1>. QED
  BY <1>2, <1>4

\* Whatever calls and the end of slow work hand on keeps what is owed.
LEMMA TakenOwed ==
  ASSUME GateInv, OwedOK(run), NEW r, NEW c, Taken(r, c)
  PROVE  OwedOK(r)
<1>0. /\ flow \in Flows /\ run \in Row /\ OrderOK(run) /\ RowOK(run)
      /\ Last \in Nat /\ Steps = 1..Last /\ run.index \in 1..(Last + 1)
  BY FlowFacts, RowFacts DEF GateInv, OInv, TypeOK
<1>1. ASSUME NEW to \in Steps, to < run.index, r = Reopened(run, to),
             run.status \in {"running", "waiting", "failed"}
      PROVE  OwedOK(r)
  <2>1. r.owed = run.owed
    BY <1>0, <1>1 DEF Reopened, Row
  <2>2. ASSUME run.owed PROVE Unasked(r)
    <3>1. \A i, j \in Steps : flow[i].kind = "approval" /\ Reviews(j, i) => to <= j
      BY <1>0, <1>1, <2>2 DEF OwedOK, Unasked, Barred
    <3>. QED
      BY <1>0, <1>1, <3>1, ReopenedOwed
  <2>. QED
    BY <2>1, <2>2 DEF OwedOK
<1>2. CASE /\ run.status = "none"
           /\ r = [run EXCEPT !.status = "running", !.linked = request.linked]
  <2>1. r.index = run.index /\ r.step = run.step /\ r.owed = run.owed
    BY <1>0, <1>2 DEF Row
  <2>. QED
    BY <1>2, <2>1 DEF OwedOK, Unasked, Barred
<1>3. CASE run.status = "waiting" /\ r = Settled(run, contract)
  <2>1. run.index <= Last
    BY <1>0, <1>3 DEF OrderOK, Held
  <2>. QED
    BY <1>0, <1>3, <2>1, SettledOwed
<1>4. ASSUME NEW i \in Steps, run.step[i] = "waiting_human", r = Completed(i)
      PROVE  OwedOK(r)
  BY <1>0, <1>4, CompletedRow DEF OwedOK
<1>5. CASE Retried(r)
  <2>1. /\ r.index = run.index /\ r.owed = run.owed /\ run.status = "waiting"
        /\ \A i \in Steps : r.step[i] = IF i = run.index THEN "pending" ELSE run.step[i]
    BY <1>0, <1>5, RetryRow DEF Retried
  <2>. QED
    BY <2>1 DEF OwedOK, Unasked, Barred, Terminal
<1>6. CASE Worked(r)
  <2>1. PICK o \in {Over(run, run.index), LeftToAPerson(run, run.index)} :
          (r = o /\ flow[run.index].kind = "ai") \/ r = [o EXCEPT !.linked = TRUE]
    BY <1>6 DEF Worked
  <2>2. run.status = "running" /\ run.index <= Last /\ flow[run.index].kind \in {"ai", "draft"}
        /\ run.index \in Steps
    BY <1>0, <1>6, CurrentFacts DEF Worked
  <2>3. r.owed = run.owed /\ \A i \in Steps : i # run.index => r.step[i] = run.step[i]
    BY <1>0, <2>1, <2>2, SlowRow
  <2>4. r.index \in {run.index, run.index + 1}
    <3>1. o \in Row
      BY <1>0, <2>2, OverType
    <3>2. r.index = o.index
      BY <2>1, <3>1 DEF Row
    <3>3. o.index \in {run.index, flow[run.index].next}
      BY <1>0, <2>2 DEF Over, LeftToAPerson, Row
    <3>4. flow[run.index].next = run.index + 1
      BY <1>0, <2>2, SlowFacts
    <3>. QED
      BY <3>2, <3>3, <3>4
  <2>5. ASSUME NEW i \in Steps, NEW j \in Steps, Reviews(j, i), Barred(run, j)
        PROVE  Barred(r, j)
    <3>1. j # run.index
      BY <2>2, <2>5 DEF Reviews
    <3>2. run.index + 1 <= j
      BY <1>0, <2>5, <3>1 DEF Barred
    <3>. QED
      BY <1>0, <2>3, <2>4, <2>5, <3>1, <3>2 DEF Barred
  <2>. QED
    BY <2>2, <2>3, <2>5 DEF OwedOK, Unasked
<1>. QED
  BY <1>1, <1>2, <1>3, <1>4, <1>5, <1>6 DEF Taken, Returned, Driven

\* Every step keeps what is owed.
LEMMA OwedStep == Alone /\ GateInv /\ OwedOK(run) /\ [Next]_vars => OwedOK(run)'
<1>. SUFFICES ASSUME Alone, GateInv, OwedOK(run), [Next]_vars PROVE OwedOK(run)'
  OBVIOUS
<1>0. flow \in Flows /\ run \in Row /\ OrderOK(run)
  BY DEF GateInv, OInv, TypeOK
<1>1. flow' = flow /\ (Driving \/ DraftLost \/ Closing \/ Moving \/ Aside)
  BY NextCases
<1>2. OwedOK(run')
  <2>1. CASE Driving
    <3>1. PICK s \in Sessions, r \in Row, c \in ContractRow, again \in {0} \cup Steps :
            Taken(r, c) /\ Advance(s, run, r, c, again)
      BY <2>1 DEF Driving
    <3>. QED
      BY <1>0, <3>1, TakenOwed, AdvanceOwed
  <2>2. CASE DraftLost
    <3>1. /\ run'.owed = run.owed /\ run'.index = run.index
          /\ \A i \in Steps : i # run.index => run'.step[i] = run.step[i]
      BY <1>0, <2>2 DEF DraftLost, Row
    <3>2. \A i, j \in Steps : Reviews(j, i) => j # run.index
      BY <2>2 DEF DraftLost, Reviews
    <3>3. run.status = "running"
      BY <2>2 DEF DraftLost
    <3>. QED
      BY <3>1, <3>2, <3>3 DEF OwedOK, Unasked, Barred
  <2>3. CASE Closing
    <3>1. Cancelled(run).status = "cancelled"
      BY <1>0 DEF Cancelled, Row
    <3>. QED
      BY <2>3, <3>1 DEF Closing, OwedOK
  <2>4. CASE Moving
    <3>1. run.status = "waiting" => run.index <= Last
      BY <1>0 DEF OrderOK, Held
    <3>. QED
      BY <1>0, <2>4, <3>1, SettledOwed DEF Moving
  <2>5. CASE Aside
    BY <2>5 DEF Aside
  <2>. QED
    BY <1>1, <2>1, <2>2, <2>3, <2>4, <2>5
<1>3. Steps' = Steps
  BY <1>1, SameFlow
<1>. QED
  BY <1>1, <1>2, <1>3 DEF OwedOK, Unasked, Barred, Reviews

\* With one session, no approver is asked while a rejection still waits for
\* its reply, where a person reviews before every approval: a run sent back
\* cannot pass that person, who answers the rejection or takes it back.
THEOREM RejectionAnswered == ASSUME Alone PROVE Spec => []AnsweredBeforeAsked
<1>1. Init => OwedOK(run)
  BY DEF Init, OwedOK
<1>2. GateInv /\ OwedOK(run) => AnsweredBeforeAsked
  <2>. SUFFICES ASSUME GateInv, OwedOK(run), run.owed, run.status \in Active,
                       NEW i \in Steps, flow[i].kind = "approval", PersonBefore(i)
                PROVE  run.step[i] # "waiting_job"
    BY DEF AnsweredBeforeAsked
  <2>1. /\ flow \in Flows /\ run \in Row /\ OrderOK(run)
        /\ Last \in Nat /\ Steps = 1..Last /\ run.index \in 1..(Last + 1)
    BY FlowFacts, RowFacts DEF GateInv, OInv, TypeOK
  <2>2. PICK j \in Steps : Reviews(j, i)
    BY DEF PersonBefore
  <2>3. run.index <= j
    BY <2>2 DEF OwedOK, Active, Unasked, Barred
  <2>4. run.index \in Steps /\ run.index <= Last
    BY <2>1, <2>3
  <2>5. flow[run.index].next <= flow[j].next
    BY <2>1, <2>3, <2>4, GroupFacts
  <2>6. i >= flow[run.index].next
    <3>1. flow[run.index].next \in Nat /\ flow[j].next \in Nat
      BY <2>1, <2>4, FlowFacts
    <3>. QED
      BY <2>1, <2>2, <2>5, <3>1 DEF Reviews
  <2>. QED
    BY <2>1, <2>4, <2>6 DEF OrderOK, Untouched, Active
<1>. QED
  BY <1>1, <1>2, GateInit, GateStep, OwedStep, PTL DEF Spec
=============================================================================
