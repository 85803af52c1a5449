------------------------------ MODULE AuditChain ------------------------------
(***************************************************************************)
(* Requests and tasks as transactions on the database: they lock rows,     *)
(* append to the audit log, which is one hash chain under one advisory     *)
(* lock, and wait for services in between (app/core/audit.py,              *)
(* app/core/database.py, app/core/deps.py).                                *)
(*                                                                         *)
(* Every lock is kept until the transaction ends.  An async handler calls  *)
(* the database without leaving the event loop: while it waits for a lock, *)
(* no other handler of its process goes on.                                *)
(***************************************************************************)
EXTENDS Naturals, FiniteSets

CONSTANTS
  Requests,
  OnLoop,   \* those whose handlers share one event loop
  Rows,     \* rows of other tables that they lock or write
  Ids,      \* ids of audit rows; bound: how many there can be
  Skew,     \* bound: how far a host's clock may be ahead of the slowest
  MaxSteps  \* bound: what a request does before it is done

Chain == "chain"

ASSUME AuditAssumption ==
  /\ OnLoop \subseteq Requests /\ Chain \notin Rows
  /\ Ids \subseteq Nat \ {0}
  /\ Skew \in Nat /\ MaxSteps \in Nat

VARIABLES
  phase,  \* what each request does
  wants,  \* the lock it waits for
  holds,  \* the locks its transaction has
  table,  \* audit rows, each with the request that wrote it
  ahead,  \* how far its host's clock is ahead
  clock,
  left    \* steps it may still take

vars == <<phase, wants, holds, table, ahead, clock, left>>

-----------------------------------------------------------------------------
Locks == Rows \cup {Chain}
Nothing == "nothing"
Phases == {"new", "active", "blocked", "awaiting", "committed", "aborted"}
Open == {"active", "blocked", "awaiting"}

None == 0
Entry == [id : Ids, at : Nat, prev : Ids \cup {None}]
Row == [entry : Entry, by : Requests]

Committed == {row \in table : phase[row.by] = "committed"}
Entries(rows) == {row.entry : row \in rows}
trail == Entries(Committed)
Trail == INSTANCE AuditTrail WITH Times <- Nat

\* Read committed: a statement sees what is committed, and its own writes.
Visible(q) == Entries({row \in table : row.by = q \/ row \in Committed})

Free(q, lock) == \A p \in Requests \ {q} : lock \notin holds[p]

\* Nobody else has the event loop of q: handlers leave it where they await, not
\* where they wait for the database.
LoopFree(q) == q \in OnLoop => \A p \in OnLoop : phase[p] \notin {"active", "blocked"}

\* Transactions each of which waits for a lock of another one.
Deadlocked(S) ==
  \A q \in S : /\ phase[q] = "blocked"
               /\ \E p \in S \ {q} : wants[q] \in holds[p]
               /\ \E p \in S \ {q} : wants[p] \in holds[q]

TypeOK ==
  /\ phase \in [Requests -> Phases]
  /\ wants \in [Requests -> Locks \cup {Nothing}]
  /\ holds \in [Requests -> SUBSET Locks]
  /\ table \subseteq Row
  /\ ahead \in [Requests -> 0..Skew]
  /\ clock \in Nat
  /\ left \in [Requests -> Nat]

Init ==
  /\ phase = [q \in Requests |-> "new"]
  /\ wants = [q \in Requests |-> Nothing]
  /\ holds = [q \in Requests |-> {}]
  /\ table = {}
  /\ ahead \in [Requests -> 0..Skew]
  /\ clock = 0
  /\ left = [q \in Requests |-> MaxSteps]

-----------------------------------------------------------------------------
Begin(q) ==
  /\ phase[q] = "new" /\ LoopFree(q)
  /\ phase' = [phase EXCEPT ![q] = "active"]
  /\ UNCHANGED <<wants, holds, table, ahead, clock, left>>

IdsLeft ==
  Cardinality(table) + Cardinality({q \in Requests : wants[q] = Chain}) < Cardinality(Ids)

\* A statement that locks: a row by SELECT ... FOR UPDATE or a write, the chain
\* by write_audit_log.
Ask(q, lock) ==
  /\ phase[q] = "active" /\ left[q] > 0
  /\ lock = Chain \/ lock \notin holds[q]
  /\ lock = Chain => IdsLeft
  /\ phase' = [phase EXCEPT ![q] = "blocked"]
  /\ wants' = [wants EXCEPT ![q] = lock]
  /\ left' = [left EXCEPT ![q] = @ - 1]
  /\ UNCHANGED <<holds, table, ahead, clock>>

Granted(q) ==
  /\ phase' = [phase EXCEPT ![q] = "active"]
  /\ wants' = [wants EXCEPT ![q] = Nothing]
  /\ holds' = [holds EXCEPT ![q] = @ \cup {wants[q]}]

LockRow(q) ==
  /\ phase[q] = "blocked" /\ wants[q] \in Rows
  /\ Free(q, wants[q])
  /\ Granted(q)
  /\ UNCHANGED <<table, ahead, clock, left>>

MutantWriteAuditLog(q) ==
  /\ phase[q] = "blocked" /\ wants[q] = Chain
  /\ Granted(q)
  /\ \E id \in Ids, prev \in Ids \cup {None} :
       /\ \A row \in table : row.entry.id # id
       /\ Trail!IsTail(prev, Visible(q))
       /\ table' = table \cup
            {[entry |-> [id |-> id, at |-> clock + ahead[q], prev |-> prev], by |-> q]}
  /\ clock' = clock + 1
  /\ UNCHANGED <<ahead, left>>
\* write_audit_log: the lock, the tail, the writer's own clock, a random id.
WriteAuditLog(q) ==
  /\ phase[q] = "blocked" /\ wants[q] = Chain
  /\ Free(q, Chain)
  /\ Granted(q)
  /\ \E id \in Ids, prev \in Ids \cup {None} :
       /\ \A row \in table : row.entry.id # id
       /\ Trail!IsTail(prev, Visible(q))
       /\ table' = table \cup
            {[entry |-> [id |-> id, at |-> clock + ahead[q], prev |-> prev], by |-> q]}
  /\ clock' = clock + 1
  /\ UNCHANGED <<ahead, left>>

\* A service is asked inside the transaction, by await or on a thread ...
Await(q) ==
  /\ phase[q] = "active" /\ left[q] > 0
  /\ phase' = [phase EXCEPT ![q] = "awaiting"]
  /\ left' = [left EXCEPT ![q] = @ - 1]
  /\ UNCHANGED <<wants, holds, table, ahead, clock>>

\* ... and answers, or not.
Resume(q) ==
  /\ phase[q] = "awaiting" /\ LoopFree(q)
  /\ phase' = [phase EXCEPT ![q] = "active"]
  /\ UNCHANGED <<wants, holds, table, ahead, clock, left>>

Commit(q) ==
  /\ phase[q] = "active"
  /\ phase' = [phase EXCEPT ![q] = "committed"]
  /\ holds' = [holds EXCEPT ![q] = {}]
  /\ UNCHANGED <<wants, table, ahead, clock, left>>

\* What the transaction wrote is gone, its audit rows with it.
Undone(q) ==
  /\ phase' = [phase EXCEPT ![q] = "aborted"]
  /\ wants' = [wants EXCEPT ![q] = Nothing]
  /\ holds' = [holds EXCEPT ![q] = {}]
  /\ table' = {row \in table : row.by # q}
  /\ UNCHANGED <<ahead, clock, left>>

\* get_db rolls back when the handler raises.
Rollback(q) == phase[q] = "active" /\ Undone(q)

\* Postgres ends a session that idles in its transaction ...
MutantIdleTimeout(q) == FALSE /\ UNCHANGED vars
IdleTimeout(q) == phase[q] = "awaiting" /\ Undone(q)

\* ... and one transaction of those that wait for each other.
DeadlockDetected(q) ==
  /\ \E S \in SUBSET Requests : q \in S /\ Deadlocked(S)
  /\ Undone(q)

Work(q) ==
  \/ \E lock \in Locks : Ask(q, lock)
  \/ LockRow(q) \/ WriteAuditLog(q)
  \/ Await(q) \/ Commit(q) \/ Rollback(q)

Next ==
  \E q \in Requests :
    \/ Begin(q) \/ Work(q) \/ Resume(q)
    \/ IdleTimeout(q) \/ DeadlockDetected(q)

Spec == Init /\ [][Next]_vars

\* Handlers go on when they can, the database notices; that a service answers
\* is not assumed.
Fairness ==
  \A q \in Requests :
    WF_vars(Work(q)) /\ WF_vars(IdleTimeout(q)) /\ WF_vars(DeadlockDetected(q))

FairSpec == Spec /\ Fairness

-----------------------------------------------------------------------------
\* The committed rows are an audit trail: only ever appended to, and intact for
\* whoever verifies them, at any time.
KeepsPromise == Trail!Spec

\* No request keeps its locks for ever, whatever it waits for and whoever else
\* shares its event loop.
Ends == \A q \in Requests : phase[q] \in Open ~> phase[q] \notin Open
=============================================================================
