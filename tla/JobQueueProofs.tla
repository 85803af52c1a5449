--------------------------- MODULE JobQueueProofs ---------------------------
(***************************************************************************)
(* What holds of JobQueue for any number of workers, requests, messages,   *)
(* attempts and retries and any time limits, whatever comes between a read *)
(* and the write that goes by it.                                          *)
(*                                                                         *)
(* The argument.  A worker at work holds a claim no older than its own     *)
(* task, which Celery ends before the lease runs out: so its claim is not  *)
(* expired, and whoever reads the row does not take it for abandoned.  A   *)
(* status that may be claimed is that of a job nobody works at.  A read    *)
(* that is not stale still describes the row, so the write it leads to     *)
(* keeps all this; a write on a stale read is what overtaken records.      *)
(***************************************************************************)
EXTENDS JobQueue, TLAPS

-----------------------------------------------------------------------------
\* What the row says while a worker has the job.
WorkOK ==
  \A w \in Workers :
    /\ worker[w].phase = "working" =>
         status \in {"running", "cancelled"} /\ started /\ age <= worker[w].age
    /\ worker[w].phase = "after" => status = "succeeded"
    /\ worker[w].phase = "spent" /\ w \notin stale => status = "failed"

\* There is a message that will run the job.
OnItsWay == \E n \in 0..MaxRetries : messages[n] > 0

\* What a request read still holds, unless it is stale.
PendingOK ==
  \A r \in Requests : r \notin stale =>
    /\ pending[r] = "mark" => status = "queued" /\ OnItsWay
    /\ pending[r] = "requeue" => status = "failed" /\ OnItsWay
    /\ pending[r] = "fail" =>
         status \in {"queued", "running"} /\ \A w \in Workers : ~Busy(w)
    /\ pending[r] = "cancel" => status \in {"queued", "running"}

DeliveryOK == status = "queued" /\ task => OnItsWay

Sound == WorkOK /\ AtMostOneRunner /\ PendingOK /\ DeliveryOK
IInv == TypeOK /\ (~overtaken => Sound)

USE JobAssumption DEF JobAssumption

-----------------------------------------------------------------------------
\* A worker's phases, spelled out for the provers.
LEMMA Phases ==
  ASSUME TypeOK, NEW w \in Workers
  PROVE  /\ worker[w] \in Worker
         /\ worker[w].phase \in {"idle", "working", "after", "spent"}
         /\ worker[w].retries \in 0..MaxRetries
         /\ worker[w].age \in 0..TaskTimeLimit
BY DEF TypeOK, Worker

\* Making one worker idle leaves the others to what the row says of them.
LEMMA IdleIsWorker == Idle \in Worker /\ Idle.phase = "idle"
BY DEF Idle, Worker

\* Sending a message leaves one at the broker.
LEMMA SentIsThere ==
  ASSUME TypeOK, NEW k \in 0..MaxRetries, messages' = Sent(k)
  PROVE  /\ messages' \in [0..MaxRetries -> Nat]
         /\ OnItsWay'
BY DEF TypeOK, Sent, OnItsWay

\* While a claim is fresh the lease is not over: what may be claimed, by a
\* message or as abandoned, has no worker.
LEMMA ClaimedByOne ==
  ASSUME TypeOK, WorkOK, ShouldRun, NEW w \in Workers
  PROVE  ~Busy(w)
<1>1. CASE worker[w].phase = "working"
  <2>1. started /\ age <= worker[w].age /\ status \in {"running", "cancelled"}
    BY <1>1 DEF WorkOK
  <2>2. age \in Nat /\ worker[w].age \in Nat /\ worker[w].age <= TaskTimeLimit
    BY Phases DEF TypeOK
  <2>3. ~Expired
    BY <2>1, <2>2 DEF Expired
  <2>. QED
    BY <2>1, <2>3 DEF ShouldRun
<1>2. CASE worker[w].phase = "after"
  BY <1>2 DEF WorkOK, ShouldRun
<1>. QED
  BY <1>1, <1>2 DEF Busy

-----------------------------------------------------------------------------
\* A request that reads the row, with the facts its kind of write rests on.
LEMMA IntendIInv ==
  ASSUME IInv, NEW r \in Requests, NEW write \in Writes \ {"none"},
         Intend(r, write),
         messages' \in [0..MaxRetries -> Nat],
         OnItsWay => OnItsWay',
         write = "mark" => status = "queued" /\ OnItsWay',
         write = "requeue" => status = "failed" /\ OnItsWay',
         write = "fail" /\ ~overtaken =>
           status \in {"queued", "running"} /\ \A w \in Workers : ~Busy(w),
         write = "cancel" => status \in {"queued", "running"}
  PROVE  IInv'
<1>1. /\ UNCHANGED <<status, task, attempts, started, age, worker, stale, overtaken>>
      /\ \A q \in Requests : pending'[q] = IF q = r THEN write ELSE pending[q]
      /\ pending' \in [Requests -> Writes]
      /\ pending[r] = "none"
  BY DEF Intend, row, IInv, TypeOK
<1>2. TypeOK'
  BY <1>1 DEF IInv, TypeOK, InFlight
<1>3. ASSUME ~overtaken' PROVE Sound'
  <2>1. Sound /\ ~overtaken
    BY <1>1, <1>3 DEF IInv
  <2>2. WorkOK' /\ AtMostOneRunner' /\ DeliveryOK'
    BY <1>1, <2>1 DEF Sound, WorkOK, AtMostOneRunner, Busy, DeliveryOK
  <2>3. PendingOK'
    BY <1>1, <2>1 DEF Sound, PendingOK, Busy
  <2>. QED
    BY <2>2, <2>3 DEF Sound
<1>. QED
  BY <1>2, <1>3 DEF IInv

\* A status is written by x: what others read before is stale, and the workers
\* are left alone.
LEMMA WriteIInv ==
  ASSUME IInv, NEW s \in JobStatus, NEW by \in SUBSET Requests,
         Write(s, by),
         started' = started, age' = age, attempts' = attempts,
         task' \in BOOLEAN, overtaken' \in BOOLEAN,
         messages' = messages, worker' = worker,
         pending' \in [Requests -> Writes],
         \A q \in Requests : pending'[q] = IF q \in by THEN "none" ELSE pending[q],
         ~overtaken' => ~overtaken,
         ~overtaken' => /\ s = "queued" /\ task' => OnItsWay
                        /\ s # "cancelled" => \A w \in Workers : ~Busy(w)
                        /\ \A w \in Workers : worker[w].phase # "after"
  PROVE  IInv'
<1>1. /\ status' = s
      /\ stale' = InFlight \ by
      /\ \A w \in Workers : w \notin by
  BY DEF Write
<1>2. TypeOK'
  BY <1>1 DEF IInv, TypeOK, InFlight
<1>3. ASSUME ~overtaken' PROVE Sound'
  <2>1. Sound
    BY <1>3 DEF IInv
  <2>2. \A q \in Requests : q \notin stale' => pending'[q] = "none"
    BY <1>1 DEF InFlight
  <2>3. \A w \in Workers : worker'[w].phase = "spent" => w \in stale'
    BY <1>1 DEF InFlight
  <2>4. WorkOK' /\ AtMostOneRunner'
    BY <1>1, <1>3, <2>1, <2>3 DEF Sound, WorkOK, AtMostOneRunner, Busy
  <2>5. PendingOK'
    BY <2>2 DEF PendingOK
  <2>6. DeliveryOK'
    BY <1>1, <1>3 DEF DeliveryOK, OnItsWay
  <2>. QED
    BY <2>4, <2>5, <2>6 DEF Sound
<1>. QED
  BY <1>2, <1>3 DEF IInv

\* Somebody in flight gives up, or a mark is set: the status stays.
LEMMA CommitIInv ==
  ASSUME IInv, NEW r \in Requests, Commit(r)
  PROVE  IInv'
<1>1. /\ UNCHANGED <<attempts, started, age, messages, worker>>
      /\ task' = (task \/ pending[r] \in {"mark", "requeue"})
      /\ \A q \in Requests : pending'[q] = IF q = r THEN "none" ELSE pending[q]
      /\ pending' \in [Requests -> Writes]
      /\ overtaken' = (overtaken \/ Undoes(r))
      /\ \A w \in Workers : w # r
  BY DEF Commit, IInv, TypeOK, Writes
<1>2. ~overtaken' => /\ ~overtaken /\ ~Undoes(r) /\ Sound
  BY <1>1 DEF IInv
<1>3. task' \in BOOLEAN /\ overtaken' \in BOOLEAN
  BY <1>1, Zenon
<1>4. CASE pending[r] = "mark"
  <2>1. stale' = stale \ {r} /\ status' = status /\ task' = TRUE
    BY <1>1, <1>4 DEF Commit
  <2>2. TypeOK'
    BY <1>1, <1>3, <2>1 DEF IInv, TypeOK, InFlight
  <2>3. ASSUME ~overtaken' PROVE Sound'
    <3>1. status = "queued" => OnItsWay
      BY <1>2, <1>4, <2>3 DEF Undoes, Sound, PendingOK
    <3>2. WorkOK' /\ AtMostOneRunner'
      BY <1>1, <1>2, <2>1, <2>3 DEF Sound, WorkOK, AtMostOneRunner, Busy
    <3>3. PendingOK'
      BY <1>1, <1>2, <2>1, <2>3 DEF Sound, PendingOK, OnItsWay, Busy
    <3>4. DeliveryOK'
      BY <1>1, <2>1, <3>1 DEF DeliveryOK, OnItsWay
    <3>. QED
      BY <3>2, <3>3, <3>4 DEF Sound
  <2>. QED
    BY <2>2, <2>3 DEF IInv
<1>5. ASSUME Write("queued", {r}), pending[r] = "requeue" PROVE IInv'
  <2>1. ~overtaken' => /\ OnItsWay
                       /\ status = "failed"
    BY <1>2, <1>5 DEF Undoes, Sound, PendingOK
  <2>2. ~overtaken' => /\ \A w \in Workers : ~Busy(w)
                       /\ \A w \in Workers : worker[w].phase # "after"
    BY <1>2, <2>1 DEF Sound, WorkOK, Busy
  <2>3. "queued" \in JobStatus
    BY DEF JobStatus
  <2>. QED
    BY <1>1, <1>2, <1>3, <1>5, <2>1, <2>2, <2>3, WriteIInv
<1>6. ASSUME Write("failed", {r}), pending[r] = "fail" PROVE IInv'
  <2>1. ~overtaken' => \A w \in Workers : ~Busy(w)
    BY <1>2, <1>6 DEF Undoes, Sound, PendingOK
  <2>2. ~overtaken' => \A w \in Workers : worker[w].phase # "after"
    BY <2>1 DEF Busy
  <2>3. "failed" \in JobStatus
    BY DEF JobStatus
  <2>. QED
    BY <1>1, <1>2, <1>3, <1>6, <2>1, <2>2, <2>3, WriteIInv
<1>7. ASSUME Write("cancelled", {r}), pending[r] = "cancel" PROVE IInv'
  <2>1. ~overtaken' => status # "succeeded"
    BY <1>2, <1>7 DEF Undoes, Sound, PendingOK, Settled
  <2>2. ~overtaken' => \A w \in Workers : worker[w].phase # "after"
    BY <1>2, <2>1 DEF Sound, WorkOK
  <2>3. "cancelled" \in JobStatus
    BY DEF JobStatus
  <2>. QED
    BY <1>1, <1>2, <1>3, <1>7, <2>2, <2>3, WriteIInv
<1>. QED
  BY <1>4, <1>5, <1>6, <1>7 DEF Commit

LEMMA RequestIInv ==
  ASSUME IInv, NEW r \in Requests, Request(r)
  PROVE  IInv'
<1>0. 0 \in 0..MaxRetries
  OBVIOUS
<1>1. CASE DispatchQueued(r)
  <2>1. messages' = Sent(0) /\ Intend(r, "mark") /\ status = "queued"
    BY <1>1 DEF DispatchQueued
  <2>2. messages' \in [0..MaxRetries -> Nat] /\ OnItsWay'
    BY <1>0, <2>1, SentIsThere DEF IInv
  <2>3. "mark" \in Writes \ {"none"}
    BY DEF Writes
  <2>. QED
    BY <2>1, <2>2, <2>3, IntendIInv
<1>2. CASE DispatchFailed(r)
  <2>1. messages' = Sent(0) /\ Intend(r, "requeue") /\ status = "failed"
    BY <1>2 DEF DispatchFailed
  <2>2. messages' \in [0..MaxRetries -> Nat] /\ OnItsWay'
    BY <1>0, <2>1, SentIsThere DEF IInv
  <2>3. "requeue" \in Writes \ {"none"}
    BY DEF Writes
  <2>. QED
    BY <2>1, <2>2, <2>3, IntendIInv
<1>3. messages' = messages =>
        messages' \in [0..MaxRetries -> Nat] /\ (OnItsWay => OnItsWay')
  BY DEF IInv, TypeOK, OnItsWay
<1>4. CASE CancelJob(r)
  <2>1. status \in {"queued", "running"}
    BY <1>4 DEF CancelJob, Settled, IInv, TypeOK, JobStatus
  <2>2. Intend(r, "cancel") /\ messages' = messages
    BY <1>4 DEF CancelJob
  <2>3. "cancel" \in Writes \ {"none"}
    BY DEF Writes
  <2>. QED
    BY <1>3, <2>1, <2>2, <2>3, IntendIInv
<1>5. CASE ReapStuckJob(r)
  <2>1. status \in {"queued", "running"} /\ ShouldRun
    BY <1>5 DEF ReapStuckJob, ShouldRun
  <2>2. ~overtaken => \A w \in Workers : ~Busy(w)
    BY <2>1, ClaimedByOne DEF IInv, Sound
  <2>3. Intend(r, "fail") /\ messages' = messages
    BY <1>5 DEF ReapStuckJob
  <2>4. "fail" \in Writes \ {"none"}
    BY DEF Writes
  <2>. QED
    BY <1>3, <2>1, <2>2, <2>3, <2>4, IntendIInv
<1>6. CASE Abandon(r)
  <2>1. /\ UNCHANGED <<status, task, attempts, started, age, messages, worker, overtaken>>
        /\ stale' = stale \ {r}
        /\ \A q \in Requests : pending'[q] = IF q = r THEN "none" ELSE pending[q]
        /\ pending' \in [Requests -> Writes]
        /\ \A w \in Workers : w # r
    BY <1>6 DEF Abandon, row, IInv, TypeOK, Writes
  <2>2. TypeOK'
    BY <2>1 DEF IInv, TypeOK, InFlight
  <2>3. Sound => Sound'
    BY <2>1 DEF Sound, WorkOK, AtMostOneRunner, PendingOK, DeliveryOK, OnItsWay, Busy
  <2>. QED
    BY <2>1, <2>2, <2>3 DEF IInv
<1>. QED
  BY <1>1, <1>2, <1>4, <1>5, <1>6, CommitIInv DEF Request

-----------------------------------------------------------------------------
LEMMA TakeIInv ==
  ASSUME IInv, NEW w \in Workers, NEW n \in 0..MaxRetries, Claim(w, n) \/ Skip(w, n)
  PROVE  IInv'
<1>1. /\ worker[w].phase = "idle"
      /\ messages' \in [0..MaxRetries -> Nat]
      /\ pending' = pending /\ overtaken' = overtaken /\ task' = task
  BY DEF Claim, Skip, Deliver, row, IInv, TypeOK
<1>2. CASE Claim(w, n)
  <2> DEFINE a == [phase |-> "working", retries |-> n, age |-> 0]
  <2>1. a \in Worker /\ a.phase = "working" /\ a.age = 0
    BY DEF Worker
  <2>2. /\ worker' \in [Workers -> Worker]
        /\ \A v \in Workers : worker'[v] = IF v = w THEN a ELSE worker[v]
    BY <1>2, <2>1 DEF Claim, IInv, TypeOK
  <2> HIDE DEF a
  <2>3. /\ status' = "running" /\ started' = TRUE /\ age' = 0
        /\ stale' = InFlight \ {w} /\ w \notin InFlight
    BY <1>1, <1>2 DEF Claim, Write, InFlight
  <2>4. TypeOK'
    <3>1. attempts' \in 0..MaxJobAttempts
      BY <1>2 DEF Claim, IInv, TypeOK
    <3>2. status' \in JobStatus /\ started' \in BOOLEAN
      BY <2>3 DEF JobStatus
    <3>3. stale' \in SUBSET InFlight'
      BY <1>1, <2>1, <2>2, <2>3 DEF InFlight
    <3>. QED
      BY <1>1, <2>2, <2>3, <3>1, <3>2, <3>3 DEF IInv, TypeOK
  <2>5. ASSUME ~overtaken' PROVE Sound'
    <3>1. \A v \in Workers : ~Busy(v)
      BY <1>1, <1>2, <2>5, ClaimedByOne DEF IInv, Sound, Claim
    <3>2. \A v \in Workers : worker[v].phase = "spent" => v \in stale'
      BY <2>3 DEF InFlight
    <3>3. WorkOK' /\ AtMostOneRunner'
      BY <2>1, <2>2, <2>3, <3>1, <3>2 DEF WorkOK, AtMostOneRunner, Busy
    <3>4. PendingOK'
      <4>1. \A q \in Requests : q \notin stale' => pending'[q] = "none"
        BY <1>1, <2>3 DEF InFlight
      <4>. QED
        BY <4>1 DEF PendingOK
    <3>5. DeliveryOK'
      BY <2>3 DEF DeliveryOK
    <3>. QED
      BY <3>3, <3>4, <3>5 DEF Sound
  <2>. QED
    BY <2>4, <2>5 DEF IInv
<1>3. CASE Skip(w, n)
  <2>1. /\ UNCHANGED <<status, task, attempts, started, age, worker, pending, stale, overtaken>>
        /\ status \notin {"queued", "failed"}
    BY <1>3 DEF Skip, row, ShouldRun
  <2>2. TypeOK'
    BY <1>1, <2>1 DEF IInv, TypeOK, InFlight
  <2>3. Sound => Sound'
    BY <2>1 DEF Sound, WorkOK, AtMostOneRunner, PendingOK, DeliveryOK, Busy
  <2>. QED
    BY <2>1, <2>2, <2>3 DEF IInv
<1>. QED
  BY <1>2, <1>3

\* A worker writes the job's status, and moves on to a phase that goes with it.
LEMMA WorkerWriteIInv ==
  ASSUME IInv, NEW w \in Workers, NEW r \in Worker, NEW s \in JobStatus \ {"queued"},
         Write(s, {w}),
         worker' = [worker EXCEPT ![w] = r],
         messages' \in [0..MaxRetries -> Nat],
         UNCHANGED <<task, attempts, started, age, pending>>,
         overtaken' \in BOOLEAN,
         ~overtaken' => /\ ~overtaken
                        /\ \A v \in Workers : v # w => ~Busy(v),
         r.phase # "working",
         r.phase = "after" => s = "succeeded",
         r.phase = "spent" => s = "failed"
  PROVE  IInv'
<1>1. /\ \A v \in Workers : worker'[v] = IF v = w THEN r ELSE worker[v]
      /\ worker' \in [Workers -> Worker]
      /\ status' = s
      /\ stale' = InFlight \ {w}
  BY DEF IInv, TypeOK, Write
<1>2. TypeOK'
  <2>1. stale' \in SUBSET InFlight'
    BY <1>1 DEF InFlight
  <2>. QED
    BY <1>1, <2>1 DEF IInv, TypeOK
<1>3. ASSUME ~overtaken' PROVE Sound'
  <2>1. \A v \in Workers : v # w /\ worker[v].phase = "spent" => v \in stale'
    BY <1>1 DEF InFlight
  <2>2. \A v \in Workers : v # w => ~Busy(v)
    BY <1>3
  <2>3. WorkOK'
    BY <1>1, <2>1, <2>2 DEF WorkOK, Busy
  <2>4. AtMostOneRunner'
    BY <1>1, <2>2 DEF AtMostOneRunner, Busy
  <2>5. PendingOK'
    <3>1. \A q \in Requests : q \notin stale' => pending'[q] = "none"
      BY <1>1 DEF InFlight
    <3>. QED
      BY <3>1 DEF PendingOK
  <2>6. DeliveryOK'
    BY <1>1 DEF DeliveryOK
  <2>. QED
    BY <2>3, <2>4, <2>5, <2>6 DEF Sound
<1>. QED
  BY <1>2, <1>3 DEF IInv

\* A worker that stops leaves the row, and the messages already on their way.
LEMMA StopIInv ==
  ASSUME IInv, NEW w \in Workers,
         worker' = [worker EXCEPT ![w] = Idle],
         messages' \in [0..MaxRetries -> Nat],
         OnItsWay => OnItsWay',
         UNCHANGED <<status, task, attempts, started, age, pending, overtaken>>,
         stale' = stale \ {w}
  PROVE  IInv'
<1>1. /\ \A v \in Workers : worker'[v] = IF v = w THEN Idle ELSE worker[v]
      /\ worker' \in [Workers -> Worker]
      /\ Idle.phase = "idle"
  BY IdleIsWorker DEF IInv, TypeOK
<1>2. TypeOK'
  <2>1. stale' \in SUBSET InFlight'
    BY <1>1 DEF IInv, TypeOK, InFlight
  <2>. QED
    BY <1>1, <2>1 DEF IInv, TypeOK
<1>3. ASSUME ~overtaken, Sound PROVE Sound'
  <2>1. WorkOK' /\ AtMostOneRunner' /\ DeliveryOK'
    BY <1>1, <1>3 DEF Sound, WorkOK, AtMostOneRunner, Busy, DeliveryOK
  <2>2. \A q \in Requests : q \notin stale' => q \notin stale
    OBVIOUS
  <2>3. PendingOK'
    BY <1>1, <1>3, <2>2 DEF Sound, PendingOK, Busy
  <2>. QED
    BY <2>1, <2>3 DEF Sound
<1>. QED
  BY <1>2, <1>3 DEF IInv

LEMMA RunIInv ==
  ASSUME IInv, NEW w \in Workers, Run(w)
  PROVE  IInv'
<1>0. /\ worker[w] \in Worker
      /\ worker[w].phase \in {"idle", "working", "after", "spent"}
      /\ worker[w].retries \in 0..MaxRetries
      /\ messages \in [0..MaxRetries -> Nat]
      /\ overtaken \in BOOLEAN
      /\ Idle \in Worker /\ Idle.phase = "idle"
  BY Phases, IdleIsWorker DEF IInv, TypeOK
<1>1. ASSUME Busy(w), ~overtaken PROVE \A v \in Workers : v # w => ~Busy(v)
  BY <1>1 DEF IInv, Sound, AtMostOneRunner
<1>2. CASE Succeed(w)
  <2> DEFINE r == [worker[w] EXCEPT !.phase = "after"]
  <2>1. r \in Worker /\ r.phase = "after"
    BY <1>0 DEF Worker
  <2>2. worker' = [worker EXCEPT ![w] = r] /\ Busy(w)
    BY <1>2 DEF Succeed, Busy
  <2>3. /\ Write("succeeded", {w}) /\ messages' = messages /\ overtaken' = overtaken
        /\ UNCHANGED <<task, attempts, started, age, pending>>
        /\ "succeeded" \in JobStatus \ {"queued"}
    BY <1>2 DEF Succeed, row, JobStatus
  <2> HIDE DEF r
  <2>. QED
    BY <1>0, <1>1, <2>1, <2>2, <2>3, WorkerWriteIInv
<1>3. CASE Finish(w)
  <2>1. stale = stale \ {w}
    BY <1>3 DEF Finish, IInv, TypeOK, InFlight
  <2>2. OnItsWay => OnItsWay'
    BY <1>3 DEF Finish, OnItsWay
  <2>. QED
    BY <1>0, <1>3, <2>1, <2>2, StopIInv DEF Finish, row
<1>4. Fail(w) => /\ Busy(w) /\ Write("failed", {w}) /\ overtaken' = overtaken
                 /\ UNCHANGED <<task, attempts, started, age, pending>>
  BY DEF Fail, row
<1>5. "failed" \in JobStatus \ {"queued"}
  BY DEF JobStatus
<1>6. CASE FailForGood(w)
  <2>1. Fail(w) /\ worker' = [worker EXCEPT ![w] = Idle] /\ messages' = messages
    BY <1>6 DEF FailForGood
  <2>. QED
    BY <1>0, <1>1, <1>4, <1>5, <2>1, WorkerWriteIInv
<1>7. CASE Retry(w)
  <2>1. /\ Fail(w) /\ worker' = [worker EXCEPT ![w] = Idle]
        /\ messages' = Sent(worker[w].retries + 1)
        /\ worker[w].retries + 1 \in 0..MaxRetries
    BY <1>0, <1>7 DEF Retry
  <2>2. messages' \in [0..MaxRetries -> Nat]
    BY <2>1, SentIsThere DEF IInv
  <2>. QED
    BY <1>0, <1>1, <1>4, <1>5, <2>1, <2>2, WorkerWriteIInv
<1>8. CASE RunOutOfRetries(w)
  <2> DEFINE r == [worker[w] EXCEPT !.phase = "spent"]
  <2>1. r \in Worker /\ r.phase = "spent"
    BY <1>0 DEF Worker
  <2>2. Fail(w) /\ worker' = [worker EXCEPT ![w] = r] /\ messages' = messages
    BY <1>8 DEF RunOutOfRetries
  <2> HIDE DEF r
  <2>. QED
    BY <1>0, <1>1, <1>4, <1>5, <2>1, <2>2, WorkerWriteIInv
<1>9. CASE MarkDeadLetter(w)
  <2>1. /\ worker' = [worker EXCEPT ![w] = Idle] /\ messages' = messages
        /\ Write("failed", {w})
        /\ overtaken' = (overtaken \/ w \in stale)
        /\ UNCHANGED <<task, attempts, started, age, pending>>
        /\ worker[w].phase = "spent"
    BY <1>9 DEF MarkDeadLetter, row
  <2>2. overtaken' \in BOOLEAN
    BY <2>1, Zenon
  <2>3. ~overtaken' => \A v \in Workers : v # w => ~Busy(v)
    BY <2>1 DEF IInv, Sound, WorkOK, Busy
  <2>. QED
    BY <1>0, <1>5, <2>1, <2>2, <2>3, WorkerWriteIInv
<1>10. ASSUME NEW redelivered \in BOOLEAN, Die(w, redelivered) PROVE IInv'
  <2>1. CASE messages' = messages
    <3>1. OnItsWay => OnItsWay'
      BY <2>1 DEF OnItsWay
    <3>. QED
      BY <1>0, <1>10, <2>1, <3>1, StopIInv DEF Die, row
  <2>2. CASE messages' = Sent(worker[w].retries)
    <3>1. messages' \in [0..MaxRetries -> Nat] /\ OnItsWay'
      BY <1>0, <2>2, SentIsThere DEF IInv
    <3>. QED
      BY <1>10, <3>1, StopIInv DEF Die, row
  <2>. QED
    BY <1>10, <2>1, <2>2 DEF Die
<1>. QED
  BY <1>2, <1>3, <1>6, <1>7, <1>8, <1>9, <1>10 DEF Run

\* A tick ages a claim and the task that made it alike.
LEMMA TickIInv ==
  ASSUME IInv, Tick
  PROVE  IInv'
<1> DEFINE aged(w) == IF worker[w].phase = "idle" THEN worker[w]
                      ELSE [worker[w] EXCEPT !.age = @ + 1]
<1>1. \A w \in Workers : worker'[w] = aged(w)
  BY DEF Tick
<1>2. \A w \in Workers :
        /\ aged(w) \in Worker
        /\ aged(w).phase = worker[w].phase
        /\ worker[w].phase # "idle" => aged(w).age = worker[w].age + 1
  BY Phases DEF Tick, IInv, Worker
<1>3. /\ age' \in 0..(JobLease + 1)
      /\ age' <= age + 1
      /\ age \in Nat
  BY DEF Tick, IInv, TypeOK
<1>4. UNCHANGED <<status, task, attempts, started, messages, pending, stale, overtaken>>
  BY DEF Tick
<1>5. worker' \in [Workers -> Worker]
  BY <1>1, <1>2 DEF Tick
<1>6. /\ \A w \in Workers : worker'[w].phase = worker[w].phase
      /\ InFlight' = InFlight
      /\ \A w \in Workers : worker[w].phase # "idle" =>
           worker'[w].age = worker[w].age + 1
  BY <1>1, <1>2, <1>4 DEF InFlight
<1> HIDE DEF aged
<1>7. TypeOK'
  BY <1>3, <1>4, <1>5, <1>6 DEF IInv, TypeOK
<1>8. ASSUME Sound PROVE Sound'
  <2>1. \A w \in Workers : worker[w].age \in Nat
    <3> SUFFICES ASSUME NEW w \in Workers PROVE worker[w].age \in Nat
      OBVIOUS
    <3>1. worker[w].age \in 0..TaskTimeLimit
      BY Phases DEF IInv
    <3>. QED
      BY <3>1
  <2>2. WorkOK'
    BY <1>3, <1>4, <1>6, <1>8, <2>1 DEF Sound, WorkOK
  <2>3. AtMostOneRunner' /\ PendingOK' /\ DeliveryOK'
    BY <1>4, <1>6, <1>8 DEF Sound, AtMostOneRunner, PendingOK, DeliveryOK, OnItsWay, Busy
  <2>. QED
    BY <2>2, <2>3 DEF Sound
<1>. QED
  BY <1>4, <1>7, <1>8 DEF IInv

\* The poller touches only a job nobody works at.
LEMMA ReclaimIInv ==
  ASSUME IInv, ReclaimStale
  PROVE  IInv'
<1>1. /\ UNCHANGED <<attempts, started, age, messages, worker, pending, overtaken>>
      /\ ShouldRun
  BY DEF ReclaimStale, ShouldRun
<1>2. \A w \in Workers : ~overtaken => ~Busy(w)
  BY <1>1, ClaimedByOne DEF IInv, Sound
<1>3. ~overtaken => /\ \A w \in Workers : ~Busy(w)
                    /\ \A w \in Workers : worker[w].phase # "after"
  BY <1>2 DEF Busy
<1>4. /\ {} \in SUBSET Requests
      /\ "failed" \in JobStatus /\ "queued" \in JobStatus
      /\ pending' \in [Requests -> Writes]
      /\ \A q \in Requests : pending'[q] = IF q \in {} THEN "none" ELSE pending[q]
      /\ overtaken' \in BOOLEAN
  BY <1>1 DEF JobStatus, IInv, TypeOK
<1>5. CASE Write("failed", {}) /\ task' = task
  <2>1. task' \in BOOLEAN
    BY <1>5 DEF IInv, TypeOK
  <2>. QED
    BY <1>1, <1>3, <1>4, <1>5, <2>1, WriteIInv
<1>6. CASE Write("queued", {}) /\ task' = FALSE
  BY <1>1, <1>3, <1>4, <1>6, WriteIInv
<1>. QED
  BY <1>5, <1>6 DEF ReclaimStale

LEMMA NextIInv ==
  ASSUME IInv, [Next]_vars
  PROVE  IInv'
<1>1. CASE UNCHANGED vars
  BY <1>1 DEF vars, row, IInv, TypeOK, InFlight, Sound, WorkOK, AtMostOneRunner,
              PendingOK, DeliveryOK, OnItsWay, Busy
<1>. QED
  BY <1>1, RequestIInv, TakeIInv, RunIInv, TickIInv, ReclaimIInv DEF Next, Take

LEMMA InitIInv == Init => IInv
<1> SUFFICES ASSUME Init PROVE IInv
  OBVIOUS
<1>1. TypeOK
  <2>1. worker \in [Workers -> Worker]
    BY IdleIsWorker DEF Init
  <2>2. messages \in [0..MaxRetries -> Nat]
    BY DEF Init
  <2>3. attempts \in 0..MaxJobAttempts /\ age \in 0..(JobLease + 1)
    BY DEF Init
  <2>4. status \in JobStatus /\ pending \in [Requests -> Writes]
    BY DEF Init, JobStatus, Writes
  <2>5. task \in BOOLEAN /\ started \in BOOLEAN /\ overtaken \in BOOLEAN
    BY Zenon DEF Init
  <2>6. stale \in SUBSET InFlight
    BY DEF Init
  <2>. QED
    BY <2>1, <2>2, <2>3, <2>4, <2>5, <2>6 DEF TypeOK
<1>2. \A w \in Workers : worker[w].phase = "idle"
  BY IdleIsWorker DEF Init
<1>3. Sound
  BY <1>2 DEF Init, Sound, WorkOK, AtMostOneRunner, PendingOK, DeliveryOK, Busy
<1>. QED
  BY <1>1, <1>3 DEF IInv

LEMMA Invariance == Spec => []IInv
<1>1. IInv /\ [Next]_vars => IInv'
  BY NextIInv
<1>. QED
  BY <1>1, InitIInv, PTL DEF Spec

-----------------------------------------------------------------------------
\* Every variable keeps its type, whatever the constants.
THEOREM TypeCorrect == Spec => []TypeOK
<1>1. IInv => TypeOK
  BY DEF IInv
<1>. QED
  BY <1>1, Invariance, PTL

\* Duplicate deliveries, retries, lost workers, the poller, the reaper and
\* whoever runs a failed job again put two workers on one job only by a write
\* that goes by a stale read.
THEOREM RunByOne == Spec => []OneRunner
<1>1. IInv => OneRunner
  BY DEF IInv, Sound, OneRunner
<1>. QED
  BY <1>1, Invariance, PTL

\* Without such a write, a job marked as dispatched is never left queued with no
\* message to run it.
THEOREM DispatchedHasMessage == Spec => []DispatchedIsDelivered
<1>1. IInv => DispatchedIsDelivered
  BY DEF IInv, Sound, DeliveryOK, OnItsWay, DispatchedIsDelivered
<1>. QED
  BY <1>1, Invariance, PTL

\* A success whose worker is done with it is undone by no other write either.
THEOREM SuccessIsFinal == Spec => SucceededStays
<1> DEFINE done == status = "succeeded" /\ \A w \in Workers : worker[w].phase = "idle"
<1>1. ASSUME IInv, Next, done PROVE status' = "succeeded" \/ overtaken'
  <2>1. ASSUME NEW r \in Requests, Commit(r) PROVE status' = "succeeded" \/ overtaken'
    <3>1. overtaken' = (overtaken \/ Undoes(r))
      BY <2>1 DEF Commit
    <3>2. CASE r \notin stale /\ ~overtaken
      <4>1. pending[r] \in {"none", "mark", "requeue", "fail", "cancel"}
        BY <1>1 DEF IInv, TypeOK, Writes
      <4>2. pending[r] = "none"
        BY <1>1, <3>2, <4>1 DEF IInv, Sound, PendingOK
      <4>. QED
        BY <2>1, <4>2 DEF Commit
    <3>3. CASE r \in stale
      BY <1>1, <2>1, <3>1, <3>3 DEF Commit, Undoes, Settled
    <3>. QED
      BY <3>1, <3>2, <3>3
  <2>2. ASSUME NEW r \in Requests, Request(r), ~Commit(r) PROVE status' = status
    BY <2>2 DEF Request, DispatchQueued, DispatchFailed, CancelJob,
          ReapStuckJob, Intend, Abandon
  <2>3. CASE Take
    BY <1>1, <2>3 DEF Take, Claim, Skip, ShouldRun
  <2>4. ASSUME NEW w \in Workers, Run(w) PROVE FALSE
    BY <1>1, <2>4 DEF Run, Succeed, Finish, FailForGood, Retry, RunOutOfRetries,
          Fail, Busy, MarkDeadLetter, Die
  <2>5. CASE Tick \/ ReclaimStale
    BY <1>1, <2>5 DEF Tick, ReclaimStale
  <2>. QED
    BY <1>1, <2>1, <2>2, <2>3, <2>4, <2>5 DEF Next
<1>2. IInv /\ [Next]_vars => [done => status' = "succeeded" \/ overtaken']_vars
  <2>1. CASE UNCHANGED vars
    BY <2>1
  <2>. QED
    BY <1>1, <2>1
<1>3. [][done => status' = "succeeded" \/ overtaken']_vars => SucceededStays
  BY PTL DEF SucceededStays
<1>. QED
  BY <1>2, <1>3, Invariance, PTL DEF Spec
=============================================================================
