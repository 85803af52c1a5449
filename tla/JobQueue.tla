------------------------------ MODULE JobQueue ------------------------------
(***************************************************************************)
(* One background job of app/jobs: its JobRun row, the broker's messages   *)
(* that name it, and the Celery workers that take them.                    *)
(*                                                                         *)
(* A worker locks the row only to claim it; its later writes, like those   *)
(* of a request that dispatches, cancels or reaps the job, go by what was  *)
(* read before and do not look again, and any step may come in between.    *)
(* What is promised of the job is promised until such a write is committed *)
(* over a status it did not read (overtaken), which nothing prevents.      *)
(*                                                                         *)
(* A request sends its message before it commits.  Delivery is at least    *)
(* once: a message is acknowledged when its task ends, and comes back when *)
(* the worker process is lost.                                             *)
(*                                                                         *)
(* Time passes in ticks.  Celery ends a task after TaskTimeLimit of them;  *)
(* a claim is given up for dead after more than JobLease.                  *)
(***************************************************************************)
EXTENDS Naturals

CONSTANTS
  Workers, Requests,
  MaxJobAttempts,  \* claims after which an abandoned job is not queued again
  MaxRetries,      \* retries of one message after transient errors
  TaskTimeLimit, JobLease,
  MaxMessages      \* bound: undelivered messages of a kind when one more is sent

ASSUME JobAssumption ==
  /\ MaxJobAttempts \in Nat \ {0} /\ MaxRetries \in Nat
  /\ TaskTimeLimit \in Nat /\ JobLease \in Nat /\ TaskTimeLimit <= JobLease
  /\ Workers \cap Requests = {}
  /\ MaxMessages \in Nat

VARIABLES
  status,    \* JobRun.status
  task,      \* JobRun.celery_task_id is set
  attempts,  \* JobRun.attempt_count, counted up to MaxJobAttempts
  started,   \* JobRun.started_at is set ...
  age,       \* ... and how many ticks ago, counted up to one past JobLease
  messages,  \* per retry count, the messages at the broker
  worker,    \* what each worker does
  pending,   \* the write each request has yet to commit
  stale,     \* history: those about to write whose read of the status is old
  overtaken  \* history: one of them has undone what it did not read

row == <<task, attempts, started, age>>
vars == <<status, row, messages, worker, pending, stale, overtaken>>

-----------------------------------------------------------------------------
JobStatus == {"queued", "running", "succeeded", "failed", "cancelled"}
Settled == {"succeeded", "failed", "cancelled"}

\* A worker runs the job's skill ("working"), then, the job having succeeded,
\* what follows from it ("after"); "spent" is one out of retries that has yet to
\* say so on the row.
Worker == [phase : {"idle", "working", "after", "spent"},
           retries : 0..MaxRetries, age : 0..TaskTimeLimit]
Idle == [phase |-> "idle", retries |-> 0, age |-> 0]
Busy(w) == worker[w].phase \in {"working", "after"}

Writes == {"none", "mark", "requeue", "fail", "cancel"}

MutantExpired == age >= TaskTimeLimit
\* _lease_expired
Expired == started => age > JobLease

\* _should_run: a delivered message is worth a claim.
ShouldRun ==
  \/ status \in {"queued", "failed"}
  \/ status = "running" /\ Expired

\* Those that have read the row, or written it, and are to write it again.
InFlight == {r \in Requests : pending[r] # "none"}
              \cup {w \in Workers : worker[w].phase = "spent"}

Sent(n) == [messages EXCEPT ![n] = @ + 1]
CanSend == \A n \in 0..MaxRetries : messages[n] < MaxMessages

-----------------------------------------------------------------------------
TypeOK ==
  /\ status \in JobStatus
  /\ task \in BOOLEAN
  /\ attempts \in 0..MaxJobAttempts
  /\ started \in BOOLEAN
  /\ age \in 0..(JobLease + 1)
  /\ messages \in [0..MaxRetries -> Nat]
  /\ worker \in [Workers -> Worker]
  /\ pending \in [Requests -> Writes]
  /\ stale \in SUBSET InFlight
  /\ overtaken \in BOOLEAN

\* create_job: the row is committed before anything is sent.
Init ==
  /\ status = "queued"
  /\ task = FALSE
  /\ attempts = 0
  /\ started = FALSE
  /\ age = 0
  /\ messages = [n \in 0..MaxRetries |-> 0]
  /\ worker = [w \in Workers |-> Idle]
  /\ pending = [r \in Requests |-> "none"]
  /\ stale = {}
  /\ overtaken = FALSE

-----------------------------------------------------------------------------
\* The status is written: whoever else is about to write it has an old read.
Write(s, writer) ==
  /\ status' = s
  /\ stale' = InFlight \ writer

(***************************************************************************)
(* Requests, and the poller where it does as they do.                      *)
(***************************************************************************)
\* A request reads the row and is about to write it.
Intend(r, write) ==
  /\ pending[r] = "none"
  /\ pending' = [pending EXCEPT ![r] = write]
  /\ UNCHANGED <<status, row, worker, stale, overtaken>>

\* dispatch_job, of a row that nobody dispatched: by the request that made it,
\* or by the poller when that one failed to.
DispatchQueued(r) ==
  /\ status = "queued" /\ ~task
  /\ CanSend
  /\ messages' = Sent(0)
  /\ Intend(r, "mark")

\* ... and of one that failed, for somebody who runs it again.
DispatchFailed(r) ==
  /\ status = "failed"
  /\ CanSend
  /\ messages' = Sent(0)
  /\ Intend(r, "requeue")

MutantCancelsFinished(r) ==
  /\ status # "cancelled"
  /\ Intend(r, "cancel")
  /\ UNCHANGED messages
CancelJob(r) ==
  /\ status \notin Settled
  /\ Intend(r, "cancel")
  /\ UNCHANGED messages

\* _reap_stuck_jobs, whenever an administrator lists the jobs.
ReapStuckJob(r) ==
  /\ \/ status = "queued" /\ ~started
     \/ status = "running" /\ started /\ Expired
  /\ Intend(r, "fail")
  /\ UNCHANGED messages

\* A write whose old read matters: a mark writes no status, and is only wrong of
\* a job queued anew; to cancel a job that was not settled at either time is fine.
Undoes(r) ==
  /\ r \in stale
  /\ pending[r] = "mark" => status = "queued"
  /\ pending[r] = "cancel" => status \in Settled

\* The request commits: it writes the columns it changed, whatever they are now.
Commit(r) ==
  /\ \/ pending[r] = "mark" /\ stale' = stale \ {r} /\ UNCHANGED status
     \/ pending[r] = "requeue" /\ Write("queued", {r})
     \/ pending[r] = "fail" /\ Write("failed", {r})
     \/ pending[r] = "cancel" /\ Write("cancelled", {r})
  /\ task' = (task \/ pending[r] \in {"mark", "requeue"})
  /\ pending' = [pending EXCEPT ![r] = "none"]
  /\ overtaken' = (overtaken \/ Undoes(r))
  /\ UNCHANGED <<attempts, started, age, messages, worker>>

\* ... or fails to: the message it sent is on its way all the same.
Abandon(r) ==
  /\ pending[r] # "none"
  /\ pending' = [pending EXCEPT ![r] = "none"]
  /\ stale' = stale \ {r}
  /\ UNCHANGED <<status, row, messages, worker, overtaken>>

(***************************************************************************)
(* Workers.                                                                *)
(***************************************************************************)
\* A message is delivered, and claims the job under its row's lock or, when the
\* job is not to be run, is done with.
Deliver(w, n) ==
  /\ worker[w].phase = "idle"
  /\ messages[n] > 0
  /\ messages' = [messages EXCEPT ![n] = @ - 1]

Claim(w, n) ==
  /\ Deliver(w, n)
  /\ ShouldRun
  /\ Write("running", {w})
  /\ attempts' = IF attempts < MaxJobAttempts THEN attempts + 1 ELSE attempts
  /\ started' = TRUE
  /\ age' = 0
  /\ worker' = [worker EXCEPT
                  ![w] = [phase |-> "working", retries |-> n, age |-> 0]]
  /\ UNCHANGED <<task, pending, overtaken>>

Skip(w, n) ==
  /\ Deliver(w, n)
  /\ ~ShouldRun
  /\ UNCHANGED <<status, row, worker, pending, stale, overtaken>>

\* The job's work is saved, and its row says so.
Succeed(w) ==
  /\ worker[w].phase = "working"
  /\ Write("succeeded", {w})
  /\ worker' = [worker EXCEPT ![w].phase = "after"]
  /\ UNCHANGED <<row, messages, pending, overtaken>>

Finish(w) ==
  /\ worker[w].phase = "after"
  /\ worker' = [worker EXCEPT ![w] = Idle]
  /\ UNCHANGED <<status, row, messages, pending, stale, overtaken>>

\* An error in the work, or in what follows it: the row is failed either way.
Fail(w) ==
  /\ Busy(w)
  /\ Write("failed", {w})
  /\ UNCHANGED <<row, pending, overtaken>>

FailForGood(w) ==
  /\ Fail(w)
  /\ worker' = [worker EXCEPT ![w] = Idle]
  /\ UNCHANGED messages

\* A transient error is retried by a new message.
Retry(w) ==
  /\ Fail(w)
  /\ worker[w].retries < MaxRetries
  /\ messages' = Sent(worker[w].retries + 1)
  /\ worker' = [worker EXCEPT ![w] = Idle]

RunOutOfRetries(w) ==
  /\ Fail(w)
  /\ worker[w].retries = MaxRetries
  /\ worker' = [worker EXCEPT ![w].phase = "spent"]
  /\ UNCHANGED messages

\* _mark_job_dead_letter, in a session of its own.
MarkDeadLetter(w) ==
  /\ worker[w].phase = "spent"
  /\ Write("failed", {w})
  /\ overtaken' = (overtaken \/ w \in stale)
  /\ worker' = [worker EXCEPT ![w] = Idle]
  /\ UNCHANGED <<row, messages, pending>>

\* The process is lost and its message comes back, or the hard time limit ends
\* the task and the message with it.
Die(w, redelivered) ==
  /\ worker[w].phase # "idle"
  /\ redelivered \/ worker[w].age = TaskTimeLimit
  /\ messages' = IF redelivered THEN Sent(worker[w].retries) ELSE messages
  /\ worker' = [worker EXCEPT ![w] = Idle]
  /\ stale' = stale \ {w}
  /\ UNCHANGED <<status, row, pending, overtaken>>

Tick ==
  /\ \A w \in Workers : worker[w].phase # "idle" => worker[w].age < TaskTimeLimit
  /\ age' = IF started /\ age <= JobLease THEN age + 1 ELSE age
  /\ worker' = [w \in Workers |->
                  IF worker[w].phase = "idle" THEN worker[w]
                  ELSE [worker[w] EXCEPT !.age = @ + 1]]
  /\ UNCHANGED <<status, task, attempts, started, messages, pending, stale,
                 overtaken>>

(***************************************************************************)
(* The poller: _reclaim_stale_jobs.                                        *)
(***************************************************************************)
MutantNoDeadLetter ==
  /\ status = "running" /\ Expired
  /\ Write("queued", {}) /\ task' = FALSE
  /\ UNCHANGED <<attempts, started, age, messages, worker, pending, overtaken>>
ReclaimStale ==
  /\ status = "running" /\ Expired
  /\ \/ attempts >= MaxJobAttempts /\ Write("failed", {}) /\ UNCHANGED task
     \/ attempts < MaxJobAttempts /\ Write("queued", {}) /\ task' = FALSE
  /\ UNCHANGED <<attempts, started, age, messages, worker, pending, overtaken>>

-----------------------------------------------------------------------------
Request(r) == \/ DispatchQueued(r) \/ DispatchFailed(r)
              \/ CancelJob(r) \/ ReapStuckJob(r)
              \/ Commit(r) \/ Abandon(r)
Take == \E w \in Workers, n \in 0..MaxRetries : Claim(w, n) \/ Skip(w, n)
Run(w) == \/ Succeed(w) \/ Finish(w)
          \/ FailForGood(w) \/ Retry(w) \/ RunOutOfRetries(w) \/ MarkDeadLetter(w)
          \/ \E redelivered \in BOOLEAN : Die(w, redelivered)

Next == \/ \E r \in Requests : Request(r)
        \/ Take
        \/ \E w \in Workers : Run(w)
        \/ Tick
        \/ ReclaimStale

Spec == Init /\ [][Next]_vars

\* The broker delivers, the poller runs every few minutes, a worker does
\* something or is ended, a request commits or not, and time passes.  What a
\* request may keep from running now and again still gets its turn.
Fairness ==
  /\ SF_vars(Take)
  /\ SF_vars(ReclaimStale)
  /\ SF_vars(\E r \in Requests : DispatchQueued(r))
  /\ \A w \in Workers : WF_vars(Run(w))
  /\ \A r \in Requests : WF_vars(Commit(r) \/ Abandon(r))
  /\ SF_vars(Tick)

FairSpec == Spec /\ Fairness

-----------------------------------------------------------------------------
(***************************************************************************)
(* Properties.                                                             *)
(***************************************************************************)

\* However often its message is delivered, retried or sent again, and whatever
\* requests and workers do in between, the job is run by two workers at once only
\* after a write was committed over a status it had not read.
AtMostOneRunner == \A v, w \in Workers : Busy(v) /\ Busy(w) => v = w
OneRunner == ~overtaken => AtMostOneRunner

\* A job that is queued and marked as dispatched, which nobody dispatches again,
\* has a message on its way, but for such a write.
DispatchedIsDelivered ==
  status = "queued" /\ task /\ ~overtaken =>
    \E n \in 0..MaxRetries : messages[n] > 0

\* Once its worker is done, a success is undone by nothing but a write whose read
\* is older: neither a late message nor the poller nor a request runs it again.
SucceededStays ==
  [][status = "succeeded" /\ (\A w \in Workers : worker[w].phase = "idle")
       => status' = "succeeded" \/ overtaken']_vars

\* A job that is queued, by its request, by somebody who runs it again or by the
\* poller, is settled, unless such a write comes first: a worker that dies, or a
\* job that kills its workers, does not leave it queued or running for ever.
Settles == status = "queued" ~> status \in Settled \/ overtaken

\* What reclaim_stale_jobs promises without such a condition, and _run_ai_job's
\* "short-circuits instead of re-running the skill" (AtMostOneRunner above). With
\* such a write neither is kept.
QueuedIsSettled == status = "queued" ~> status \in Settled
=============================================================================
