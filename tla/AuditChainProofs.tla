--------------------------- MODULE AuditChainProofs ---------------------------
(***************************************************************************)
(* With clocks that agree, the committed rows of the audit log are an      *)
(* audit trail, for any number of requests, rows and locks.                *)
(***************************************************************************)
EXTENDS AuditChain, TLAPS

USE AuditAssumption DEF AuditAssumption

-----------------------------------------------------------------------------
(***************************************************************************)
(* The lock of the chain belongs to one open transaction, and a row that   *)
(* is not committed to whoever has it; rows are as many as the dates they  *)
(* carry, what is committed is older than what is not, and all of them are *)
(* linked.                                                                 *)
(***************************************************************************)
OneHolder ==
  \A p, q \in Requests : Chain \in holds[p] /\ Chain \in holds[q] => p = q

HeldWhileOpen == \A q \in Requests : Chain \in holds[q] => phase[q] \in Open

Owned ==
  \A row \in table : \/ phase[row.by] = "committed"
                     \/ phase[row.by] \in Open /\ Chain \in holds[row.by]

Dated ==
  /\ \A row \in table : row.entry.at < clock
  /\ \A r, s \in table : r.entry.at = s.entry.at => r = s

CommittedFirst ==
  \A r, s \in table :
    phase[r.by] = "committed" /\ phase[s.by] # "committed" => r.entry.at < s.entry.at

Chained == Trail!Linked(Entries(table))

IInv == TypeOK /\ OneHolder /\ HeldWhileOpen /\ Owned /\ Dated /\ CommittedFirst /\ Chained

-----------------------------------------------------------------------------
\* Every reachable state is well typed.
LEMMA TypeInit == Init => TypeOK
<1> SUFFICES ASSUME Init PROVE TypeOK  OBVIOUS
<1> QED BY DEF Init, TypeOK, Phases, Locks

LEMMA GrantedTyped ==
  ASSUME TypeOK, NEW q \in Requests, wants[q] \in Locks, Granted(q)
  PROVE  /\ phase' \in [Requests -> Phases]
         /\ wants' \in [Requests -> Locks \cup {Nothing}]
         /\ holds' \in [Requests -> SUBSET Locks]
BY DEF TypeOK, Granted, Phases

LEMMA UndoneTyped ==
  ASSUME TypeOK, NEW q \in Requests, Undone(q) PROVE TypeOK'
BY DEF TypeOK, Undone, Phases

LEMMA WriteTyped ==
  ASSUME TypeOK, NEW q \in Requests, WriteAuditLog(q) PROVE TypeOK'
<1>1. wants[q] \in Locks  BY DEF WriteAuditLog, Locks
<1>2. /\ phase' \in [Requests -> Phases]
      /\ wants' \in [Requests -> Locks \cup {Nothing}]
      /\ holds' \in [Requests -> SUBSET Locks]
  BY <1>1, GrantedTyped DEF WriteAuditLog
<1>3. ahead[q] \in Nat /\ clock \in Nat  BY DEF TypeOK
<1>4. table' \subseteq Row
  BY <1>3 DEF WriteAuditLog, TypeOK, Row, Entry
<1>5. clock' \in Nat /\ ahead' = ahead /\ left' = left  BY <1>3 DEF WriteAuditLog
<1> QED BY <1>2, <1>4, <1>5 DEF TypeOK

LEMMA TypeStep == TypeOK /\ [Next]_vars => TypeOK'
<1> SUFFICES ASSUME TypeOK, [Next]_vars PROVE TypeOK'  OBVIOUS
<1>1. CASE UNCHANGED vars  BY <1>1 DEF TypeOK, vars
<1>2. ASSUME NEW q \in Requests, Begin(q) PROVE TypeOK'
  BY <1>2 DEF TypeOK, Begin, Phases
<1>3. ASSUME NEW q \in Requests, NEW lock \in Locks, Ask(q, lock) PROVE TypeOK'
  <2>1. left' \in [Requests -> Nat]  BY <1>3 DEF TypeOK, Ask
  <2> QED BY <1>3, <2>1 DEF TypeOK, Ask, Phases
<1>4. ASSUME NEW q \in Requests, LockRow(q) PROVE TypeOK'
  <2>1. wants[q] \in Locks  BY <1>4 DEF LockRow, Locks
  <2> QED BY <1>4, <2>1, GrantedTyped DEF TypeOK, LockRow
<1>5. ASSUME NEW q \in Requests, WriteAuditLog(q) PROVE TypeOK'
  BY <1>5, WriteTyped
<1>6. ASSUME NEW q \in Requests, Await(q) PROVE TypeOK'
  <2>1. left' \in [Requests -> Nat]  BY <1>6 DEF TypeOK, Await
  <2> QED BY <1>6, <2>1 DEF TypeOK, Await, Phases
<1>7. ASSUME NEW q \in Requests, Resume(q) PROVE TypeOK'
  BY <1>7 DEF TypeOK, Resume, Phases
<1>8. ASSUME NEW q \in Requests, Commit(q) PROVE TypeOK'
  BY <1>8 DEF TypeOK, Commit, Phases
<1>9. ASSUME NEW q \in Requests, Rollback(q) \/ IdleTimeout(q) \/ DeadlockDetected(q)
      PROVE  TypeOK'
  BY <1>9, UndoneTyped DEF Rollback, IdleTimeout, DeadlockDetected
<1> QED
  BY <1>1, <1>2, <1>3, <1>4, <1>5, <1>6, <1>7, <1>8, <1>9 DEF Next, Work

THEOREM TypeCorrect == Spec => []TypeOK
BY TypeInit, TypeStep, PTL DEF Spec

-----------------------------------------------------------------------------
(***************************************************************************)
(* Linked sets of entries.                                                 *)
(***************************************************************************)
\* A set stays linked when an entry younger than all, and after their tail, joins it.
LEMMA LinkedWithTail ==
  ASSUME NEW S \in SUBSET Entry, NEW e \in Entry, Trail!Linked(S),
         \A s \in S : s.at < e.at, Trail!IsTail(e.prev, S)
  PROVE  Trail!Linked(S \cup {e})
<1> SUFFICES ASSUME NEW r \in S \cup {e}
             PROVE  Trail!IsTail(r.prev, {s \in S \cup {e} : Trail!Before(s, r)})
  BY DEF Trail!Linked
<1>1. CASE r = e
  <2>1. {s \in S \cup {e} : Trail!Before(s, r)} = S
    <3>1. \A s \in S : Trail!Before(s, e)  BY DEF Trail!Before
    <3>2. ~ Trail!Before(e, e)
      <4>1. e.at \in Nat /\ e.id \in Nat  BY DEF Entry
      <4> QED BY <4>1 DEF Trail!Before
    <3> QED BY <1>1, <3>1, <3>2
  <2> QED BY <1>1, <2>1
<1>2. CASE r \in S
  <2>1. {s \in S \cup {e} : Trail!Before(s, r)} = {s \in S : Trail!Before(s, r)}
    BY <1>2 DEF Trail!Before, Entry
  <2> QED BY <1>2, <2>1 DEF Trail!Linked
<1> QED BY <1>1, <1>2

\* The oldest entries of a linked set are linked.
LEMMA LinkedPrefix ==
  ASSUME NEW S \in SUBSET Entry, NEW T \in SUBSET S, Trail!Linked(S),
         \A t \in T, s \in S \ T : t.at < s.at
  PROVE  Trail!Linked(T)
<1> SUFFICES ASSUME NEW r \in T
             PROVE  Trail!IsTail(r.prev, {s \in T : Trail!Before(s, r)})
  BY DEF Trail!Linked
<1>1. {s \in T : Trail!Before(s, r)} = {s \in S : Trail!Before(s, r)}
  BY DEF Trail!Before, Entry
<1> QED BY <1>1 DEF Trail!Linked

-----------------------------------------------------------------------------
LEMMA InvInit == Init => IInv
<1> SUFFICES ASSUME Init PROVE IInv  OBVIOUS
<1>1. TypeOK  BY TypeInit
<1>2. Chained  BY DEF Init, Chained, Entries, Trail!Linked
<1> QED
  BY <1>1, <1>2 DEF Init, IInv, OneHolder, HeldWhileOpen, Owned, Dated, CommittedFirst

\* A step that touches neither the table nor the lock of the chain, and neither
\* begins nor ends a transaction that has something at stake.
LEMMA KeptByOthers ==
  ASSUME IInv, TypeOK', UNCHANGED <<table, clock>>,
         \A q \in Requests : Chain \in holds'[q] <=> Chain \in holds[q],
         \A q \in Requests : /\ phase[q] \in Open => phase'[q] \in Open
                             /\ phase'[q] = "committed" <=> phase[q] = "committed"
  PROVE  IInv'
<1>1. \A row \in table : row.by \in Requests  BY DEF IInv, TypeOK, Row
<1>2. OneHolder' /\ HeldWhileOpen'  BY DEF IInv, OneHolder, HeldWhileOpen
<1>3. Owned'  BY <1>1 DEF IInv, Owned
<1>4. Dated' /\ Chained'  BY DEF IInv, Dated, Chained
<1>5. CommittedFirst'  BY <1>1 DEF IInv, CommittedFirst
<1> QED BY <1>2, <1>3, <1>4, <1>5 DEF IInv

LEMMA KeptByWrite ==
  ASSUME Skew = 0, IInv, TypeOK', NEW q \in Requests, WriteAuditLog(q) PROVE IInv'
<1>1. /\ clock \in Nat /\ clock' = clock + 1 /\ ahead[q] = 0
      /\ \A row \in table : row.by \in Requests /\ row.entry \in Entry
      /\ phase \in [Requests -> Phases] /\ holds \in [Requests -> SUBSET Locks]
  BY DEF IInv, TypeOK, Row, WriteAuditLog
<1>2. PICK id \in Ids, prev \in Ids \cup {None} :
        /\ Trail!IsTail(prev, Visible(q))
        /\ table' = table \cup
             {[entry |-> [id |-> id, at |-> clock + ahead[q], prev |-> prev], by |-> q]}
  BY DEF WriteAuditLog
<1> DEFINE e == [id |-> id, at |-> clock, prev |-> prev]
           new == [entry |-> e, by |-> q]
<1>3. table' = table \cup {new} /\ e \in Entry /\ e.at = clock /\ e.prev = prev
      /\ new.entry = e /\ new.by = q
  BY <1>1, <1>2 DEF Entry
<1> HIDE DEF e, new
<1>4. /\ phase[q] = "blocked"
      /\ \A p \in Requests \ {q} : Chain \notin holds[p]
      /\ phase' = [phase EXCEPT ![q] = "active"]
      /\ holds' = [holds EXCEPT ![q] = @ \cup {Chain}]
  BY DEF WriteAuditLog, Granted, Free
<1>5. OneHolder' /\ HeldWhileOpen'
  BY <1>1, <1>4 DEF IInv, OneHolder, HeldWhileOpen, Open
<1>6. Owned'
  BY <1>1, <1>3, <1>4 DEF IInv, Owned, Open
<1>7. Dated'
  BY <1>1, <1>3 DEF IInv, Dated, Entry
<1>8. CommittedFirst'
  BY <1>1, <1>3, <1>4 DEF IInv, CommittedFirst, Dated, Entry
<1>9. Visible(q) = Entries(table)
  <2>1. \A row \in table : row.by = q \/ row \in Committed
    BY <1>1, <1>4 DEF IInv, Owned, Committed
  <2> QED BY <2>1 DEF Visible, Entries
<1>10. Chained'
  <2>1. Entries(table') = Entries(table) \cup {e}  BY <1>3 DEF Entries
  <2>2. Entries(table) \in SUBSET Entry  BY <1>1 DEF Entries
  <2>3. \A s \in Entries(table) : s.at < e.at
    BY <1>3 DEF Entries, IInv, Dated
  <2>4. Trail!IsTail(e.prev, Entries(table))  BY <1>2, <1>3, <1>9
  <2>5. Trail!Linked(Entries(table))  BY DEF IInv, Chained
  <2> QED BY <1>3, <2>1, <2>2, <2>3, <2>4, <2>5, LinkedWithTail DEF Chained
<1> QED BY <1>5, <1>6, <1>7, <1>8, <1>10 DEF IInv

LEMMA KeptByCommit ==
  ASSUME IInv, TypeOK', NEW q \in Requests, Commit(q) PROVE IInv'
<1>1. /\ phase[q] = "active" /\ phase' = [phase EXCEPT ![q] = "committed"]
      /\ holds' = [holds EXCEPT ![q] = {}]
      /\ UNCHANGED <<table, clock>>
      /\ phase \in [Requests -> Phases] /\ holds \in [Requests -> SUBSET Locks]
      /\ \A row \in table : row.by \in Requests
  BY DEF Commit, IInv, TypeOK, Row
<1>2. OneHolder' /\ HeldWhileOpen'
  BY <1>1 DEF IInv, OneHolder, HeldWhileOpen
<1>3. Owned'  BY <1>1 DEF IInv, Owned
<1>4. Dated' /\ Chained'  BY <1>1 DEF IInv, Dated, Chained
<1>5. CommittedFirst'
  <2> SUFFICES ASSUME NEW r \in table, NEW s \in table,
                      phase'[r.by] = "committed", phase'[s.by] # "committed"
               PROVE  r.entry.at < s.entry.at
    BY <1>1 DEF CommittedFirst
  <2>1. CASE r.by = q
    <3>1. phase[s.by] \in Open /\ Chain \in holds[s.by] /\ s.by # q
      BY <1>1 DEF IInv, Owned
    <3>2. phase[r.by] = "committed" \/ Chain \in holds[q]
      BY <2>1 DEF IInv, Owned
    <3>3. Chain \notin holds[q]  BY <1>1, <3>1 DEF IInv, OneHolder
    <3> QED BY <1>1, <2>1, <3>2, <3>3
  <2>2. CASE r.by # q
    BY <1>1, <2>2 DEF IInv, CommittedFirst
  <2> QED BY <2>1, <2>2
<1> QED BY <1>2, <1>3, <1>4, <1>5 DEF IInv

LEMMA KeptByUndone ==
  ASSUME IInv, TypeOK', NEW q \in Requests, phase[q] \in Open, Undone(q) PROVE IInv'
<1>1. /\ phase' = [phase EXCEPT ![q] = "aborted"]
      /\ holds' = [holds EXCEPT ![q] = {}]
      /\ table' = {row \in table : row.by # q} /\ clock' = clock
      /\ phase \in [Requests -> Phases] /\ holds \in [Requests -> SUBSET Locks]
      /\ \A row \in table : row.by \in Requests /\ row.entry \in Entry /\ row.entry.at \in Nat
  BY DEF Undone, IInv, TypeOK, Row, Entry
<1>2. OneHolder' /\ HeldWhileOpen'
  BY <1>1 DEF IInv, OneHolder, HeldWhileOpen
<1>3. Owned' /\ CommittedFirst'  BY <1>1 DEF IInv, Owned, CommittedFirst
<1>4. Dated'  BY <1>1 DEF IInv, Dated
<1>5. Chained'
  <2>1. Entries(table) \in SUBSET Entry /\ Entries(table') \in SUBSET Entries(table)
    BY <1>1 DEF Entries
  <2>2. \A t \in Entries(table'), s \in Entries(table) \ Entries(table') : t.at < s.at
    <3> SUFFICES ASSUME NEW t \in table', NEW s \in table, s \notin table'
                 PROVE  t.entry.at < s.entry.at
      BY DEF Entries
    <3>1. s.by = q /\ t \in table /\ t.by # q  BY <1>1
    <3>2. phase[s.by] # "committed" /\ Chain \in holds[q]
      BY <3>1 DEF IInv, Owned, Open
    <3>3. phase[t.by] = "committed"
      BY <1>1, <3>1, <3>2 DEF IInv, Owned, OneHolder
    <3> QED BY <3>1, <3>2, <3>3 DEF IInv, CommittedFirst
  <2>3. Trail!Linked(Entries(table))  BY DEF IInv, Chained
  <2> QED BY <2>1, <2>2, <2>3, LinkedPrefix DEF Chained
<1> QED BY <1>2, <1>3, <1>4, <1>5 DEF IInv

LEMMA InvStep == ASSUME Skew = 0 PROVE IInv /\ [Next]_vars => IInv'
<1> SUFFICES ASSUME IInv, [Next]_vars PROVE IInv'  OBVIOUS
<1>1. TypeOK' /\ phase \in [Requests -> Phases] /\ holds \in [Requests -> SUBSET Locks]
  BY TypeStep DEF IInv, TypeOK
<1>2. CASE UNCHANGED vars  BY <1>1, <1>2, KeptByOthers DEF vars, Open
<1>3. ASSUME NEW q \in Requests, Begin(q) PROVE IInv'
  BY <1>1, <1>3, KeptByOthers DEF Begin, Open
<1>4. ASSUME NEW q \in Requests, NEW lock \in Locks, Ask(q, lock) PROVE IInv'
  BY <1>1, <1>4, KeptByOthers DEF Ask, Open
<1>5. ASSUME NEW q \in Requests, LockRow(q) PROVE IInv'
  BY <1>1, <1>5, KeptByOthers DEF LockRow, Granted, Open
<1>6. ASSUME NEW q \in Requests, WriteAuditLog(q) PROVE IInv'
  BY <1>1, <1>6, KeptByWrite
<1>7. ASSUME NEW q \in Requests, Await(q) \/ Resume(q) PROVE IInv'
  BY <1>1, <1>7, KeptByOthers DEF Await, Resume, Open
<1>8. ASSUME NEW q \in Requests, Commit(q) PROVE IInv'
  BY <1>1, <1>8, KeptByCommit
<1>9. ASSUME NEW q \in Requests, Rollback(q) \/ IdleTimeout(q) \/ DeadlockDetected(q)
      PROVE  IInv'
  BY <1>1, <1>9, KeptByUndone DEF Rollback, IdleTimeout, DeadlockDetected, Deadlocked, Open
<1> QED
  BY <1>2, <1>3, <1>4, <1>5, <1>6, <1>7, <1>8, <1>9 DEF Next, Work

\* The chain is intact and its lock has one holder, as long as clocks agree.
THEOREM Invariance == ASSUME Skew = 0 PROVE Spec => []IInv
BY InvInit, InvStep, PTL DEF Spec

-----------------------------------------------------------------------------
(***************************************************************************)
(* The refinement.                                                         *)
(***************************************************************************)
LEMMA TrailGrows ==
  ASSUME IInv, IInv', NEW q \in Requests, Commit(q)
  PROVE  /\ trail \subseteq trail'
         /\ \A r \in trail' \ trail, s \in trail : Trail!Before(s, r)
<1>1. /\ table' = table /\ phase' = [phase EXCEPT ![q] = "committed"]
      /\ phase \in [Requests -> Phases] /\ \A row \in table : row.by \in Requests
  BY DEF Commit, IInv, TypeOK, Row
<1>2. Committed \subseteq Committed'  BY <1>1 DEF Committed
<1>3. ASSUME NEW r \in Committed', r \notin Committed, NEW s \in Committed
      PROVE  Trail!Before(s.entry, r.entry)
  BY <1>1, <1>3 DEF Committed, IInv, CommittedFirst, Trail!Before
<1> QED BY <1>2, <1>3 DEF trail, Entries

LEMMA TrailKept ==
  ASSUME IInv, [Next]_vars, ~ \E q \in Requests : Commit(q)
  PROVE  trail' = trail
<1>1. /\ phase \in [Requests -> Phases]
      /\ \A row \in table : row.by \in Requests
  BY DEF IInv, TypeOK, Row
<1>2. SUFFICES Committed' = Committed  BY <1>2 DEF trail, Entries
<1>3. CASE UNCHANGED vars  BY <1>3 DEF vars, Committed
<1>4. ASSUME NEW q \in Requests, Begin(q) \/ Await(q) \/ Resume(q) PROVE Committed' = Committed
  BY <1>1, <1>4 DEF Begin, Await, Resume, Committed
<1>5. ASSUME NEW q \in Requests, NEW lock \in Locks, Ask(q, lock) PROVE Committed' = Committed
  BY <1>1, <1>5 DEF Ask, Committed
<1>6. ASSUME NEW q \in Requests, LockRow(q) \/ WriteAuditLog(q) PROVE Committed' = Committed
  BY <1>1, <1>6 DEF LockRow, WriteAuditLog, Granted, Committed
<1>7. ASSUME NEW q \in Requests, Rollback(q) \/ IdleTimeout(q) \/ DeadlockDetected(q)
      PROVE  Committed' = Committed
  <2>1. phase[q] \in Open /\ Undone(q)
    BY <1>7 DEF Rollback, IdleTimeout, DeadlockDetected, Deadlocked, Open
  <2> QED BY <1>1, <2>1 DEF Undone, Committed, Open
<1> QED BY <1>3, <1>4, <1>5, <1>6, <1>7 DEF Next, Work

LEMMA TrailStep == IInv /\ IInv' /\ [Next]_vars => [Trail!Next]_trail
<1> SUFFICES ASSUME IInv, IInv', [Next]_vars PROVE [Trail!Next]_trail  OBVIOUS
<1>1. CASE \E q \in Requests : Commit(q)
  <2>1. Entries(table)' \in SUBSET Entry /\ trail' \in SUBSET Entries(table)'
    BY DEF IInv, TypeOK, Row, Entries, trail, Committed
  <2>2. \A t \in trail', s \in Entries(table)' \ trail' : t.at < s.at
    BY DEF IInv, CommittedFirst, Entries, trail, Committed
  <2>3. Trail!Linked(trail')
    BY <2>1, <2>2, LinkedPrefix DEF IInv, Chained
  <2>4. Entry = Trail!Entry  BY DEF Entry, Trail!Entry, None, Trail!None
  <2>5. /\ trail \subseteq trail'
        /\ \A r \in trail' \ trail, s \in trail : Trail!Before(s, r)
    BY <1>1, TrailGrows
  <2> QED BY <2>1, <2>3, <2>4, <2>5 DEF Trail!Next, Trail!Append
<1>2. CASE ~ \E q \in Requests : Commit(q)  BY <1>2, TrailKept
<1> QED BY <1>1, <1>2

\* As long as clocks agree, the committed rows are an audit trail: they are only
\* appended to, and whoever verifies them finds them intact.
THEOREM PromiseKept == ASSUME Skew = 0 PROVE Spec => KeepsPromise
<1>1. Init => Trail!Init  BY DEF Init, Trail!Init, trail, Entries, Committed
<1> QED BY <1>1, Invariance, TrailStep, PTL DEF Spec, KeepsPromise, Trail!Spec
=============================================================================
