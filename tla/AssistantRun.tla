---------------------------- MODULE AssistantRun ----------------------------
(***************************************************************************)
(* One chat of the assistant: its AssistantRun rows, the confirmations it  *)
(* asks for, the Celery workers that produce the answers, and the keys     *)
(* that tell in Redis who does (app/assistant, app/ai/confirmations.py).   *)
(*                                                                         *)
(* A worker claims a run in Redis, shows that it lives by a heartbeat, and *)
(* drives the run by the row it read before: what it writes in the end, it *)
(* writes by key.  A run that needs an approval is committed as waiting    *)
(* and its worker leaves; the confirmed action is carried out by whoever   *)
(* takes the message of the resume.  Stop and the sweep end runs whose     *)
(* worker they believe lost.                                               *)
(*                                                                         *)
(* Time is abstract: a worker that is driving keeps its run within the     *)
(* lease (Celery's hard limit is below it), a claim outlives the sweep of  *)
(* a lost run.  A message comes again only when its worker is lost.        *)
(***************************************************************************)
EXTENDS Naturals, FiniteSets

CONSTANTS
  Workers,
  MaxRuns,   \* bound: questions asked in the chat
  MaxConfs   \* bound: confirmations asked for

ASSUME AssistantAssumption == MaxRuns \in Nat /\ MaxConfs \in Nat

Runs == 1..MaxRuns
Confs == 1..MaxConfs
None == 0

VARIABLES
  run,       \* AssistantRun rows
  conf,      \* AIConfirmation rows, each with the tool call it is for
  messages,  \* undelivered run_assistant_turn messages
  claim,     \* runs with a claim key
  alive,     \* runs with a heartbeat key that has not lapsed
  flag,      \* runs with a cancel key
  worker,    \* what each worker does
  lost,      \* runs that a Stop has seen without a worker, and is about to end
  swept,     \* confirmations a sweep has read as pending and expired
  starts,    \* history: how often each question's answer was begun
  acts,      \* history: how often each run carried out each confirmed action
  cut        \* history: runs that were ended while a worker had them

chatVars == <<run, conf, messages, claim, alive, flag, worker, lost, swept,
              starts, acts, cut>>

-----------------------------------------------------------------------------
RunStatus == {"none", "running", "waiting", "succeeded", "failed",
              "cancelled", "interrupted"}
Ended == {"succeeded", "failed", "cancelled", "interrupted"}

\* waits is the confirmation named in provider_state; age says whether
\* updated_at is past the sweep's grace (1) or past the lease (2).
Run == [status : RunStatus, waits : Confs \cup {None}, age : 0..2]

\* of is the run that asked; call is the status of the tool call; deciding is
\* what a request that holds the row is about to commit; due is past expires_at.
Conf == [status : {"none", "pending", "confirmed", "rejected", "expired"},
         of : Runs \cup {None},
         call : {"none", "required", "confirmed", "rejected", "succeeded", "failed"},
         deciding : {"no", "confirm", "reject"}, due : BOOLEAN]

Message == [run : Runs, mode : {"start", "resume"}, conf : Confs \cup {None}]

\* refused: found a claim, and the run running.  claimed: before its first beat.
\* driving: producing the answer; of a resumed run, once its action is done.
\* resuming: before the confirmation is read; acting: before the tool is called.
\* asked: a confirmation committed, the run not yet.  leaving: nothing left but
\* to give up the claim.
Phases == {"idle", "refused", "claimed", "driving", "resuming", "acting",
           "asked", "leaving"}
Drives == {"driving", "resuming", "acting", "asked"}
NoMessage == [run |-> None, mode |-> "start", conf |-> None]
Idle == [phase |-> "idle", task |-> NoMessage, conf |-> None, sees |-> "none"]
Worker == [phase : Phases, task : Message \cup {NoMessage},
           conf : Confs \cup {None}, sees : RunStatus \cup {"confirmed", "required"}]

\* How often something was done: never, once, or more often.
Times == 0..2
More(n) == IF n = 2 THEN 2 ELSE n + 1

RunOf(w) == worker[w].task.run
HeldBy(r) == {w \in Workers : RunOf(w) = r /\ worker[w].phase # "refused"}

\* An assignment to a run's status writes the row and moves updated_at.
Put(r, status) == [run EXCEPT ![r].status = status, ![r].age = 0]

\* worker_state: no beat to be seen.  (The beat of a worker that another one's
\* leaving has deleted comes again within seconds; nobody looks until then.)
Unattended(r) == r \notin alive

\* Who ends a run takes its worker for lost; between the look and the end, or
\* between a claim and its first beat, it may be mistaken.
EndedFor(r, status) ==
  /\ run' = Put(r, status)
  /\ claim' = claim \ {r}
  /\ cut' = IF HeldBy(r) # {} THEN cut \cup {r} ELSE cut

-----------------------------------------------------------------------------
ChatTypeOK ==
  /\ run \in [Runs -> Run]
  /\ conf \in [Confs -> Conf]
  /\ messages \subseteq Message
  /\ claim \subseteq Runs /\ alive \subseteq Runs /\ flag \subseteq Runs
  /\ worker \in [Workers -> Worker]
  /\ lost \subseteq Runs
  /\ swept \subseteq Confs
  /\ starts \in [Runs -> Times]
  /\ acts \in [Confs -> [Runs -> Times]]
  /\ cut \subseteq Runs

ChatInit ==
  /\ run = [r \in Runs |-> [status |-> "none", waits |-> None, age |-> 0]]
  /\ conf = [c \in Confs |-> [status |-> "none", of |-> None, call |-> "none",
                              deciding |-> "no", due |-> FALSE]]
  /\ messages = {}
  /\ claim = {} /\ alive = {} /\ flag = {}
  /\ worker = [w \in Workers |-> Idle]
  /\ lost = {} /\ swept = {}
  /\ starts = [r \in Runs |-> 0]
  /\ acts = [c \in Confs |-> [r \in Runs |-> 0]]
  /\ cut = {}

-----------------------------------------------------------------------------
(***************************************************************************)
(* Requests of the person in the chat.                                     *)
(***************************************************************************)
\* stream_session: one answer at a time, by a look at the runs under the lock of
\* the chat; the message may fail to be sent.
Send(r) ==
  /\ run[r].status = "none" /\ \A q \in 1..(r - 1) : run[q].status # "none"
  /\ \A q \in Runs : run[q].status # "running"
  /\ \/ /\ run' = Put(r, "running")
        /\ messages' = messages \cup {[run |-> r, mode |-> "start", conf |-> None]}
     \/ /\ run' = Put(r, "failed")
        /\ UNCHANGED messages
  /\ UNCHANGED <<conf, claim, alive, flag, worker, lost, swept, starts, acts, cut>>

\* resume_run: of several clicks one moves the row.  It does not ask what else
\* is running in the chat, nor whether anything was confirmed.
Resume(r) ==
  /\ run[r].status = "waiting"
  /\ flag' = flag \ {r}
  /\ \/ /\ run' = Put(r, "running")
        /\ messages' = messages \cup
                         {[run |-> r, mode |-> "resume", conf |-> run[r].waits]}
     \/ /\ run' = Put(r, "failed")
        /\ UNCHANGED messages
  /\ UNCHANGED <<conf, claim, alive, worker, lost, swept, starts, acts, cut>>

\* cancel_run: the flag is for the worker; where none is seen ...
Stop(r) ==
  /\ run[r].status = "running"
  /\ flag' = flag \cup {r}
  /\ lost' = IF Unattended(r) THEN lost \cup {r} ELSE lost
  /\ UNCHANGED <<run, conf, messages, claim, alive, worker, swept, starts, acts, cut>>

\* ... stop_run_without_worker ends the run, by one conditional update.
StopUnattended(r) ==
  /\ r \in lost
  /\ lost' = lost \ {r}
  /\ IF run[r].status = "running"
     THEN EndedFor(r, "cancelled")
     ELSE UNCHANGED <<run, claim, cut>>
  /\ UNCHANGED <<conf, messages, alive, flag, worker, swept, starts, acts>>

\* close_turn_for_confirmation: the runs that asked for cs, if they still wait.
Closed(cs) ==
  LET closes == {r \in Runs : run[r].status = "waiting" /\ \E c \in cs : conf[c].of = r} IN
  [r \in Runs |-> IF r \in closes THEN [run[r] EXCEPT !.status = "cancelled", !.age = 0]
                  ELSE run[r]]

\* _get_pending_confirmation: the row is locked, pending, and not past its time.
Decide(c, decision) ==
  /\ conf[c].status = "pending" /\ conf[c].deciding = "no"
  /\ \E r \in Runs : run[r].waits = c
  /\ ~conf[c].due
  /\ conf' = [conf EXCEPT ![c].deciding = decision]
  /\ UNCHANGED <<run, messages, claim, alive, flag, worker, lost, swept, starts, acts, cut>>

CommitConfirm(c) ==
  /\ conf[c].deciding = "confirm"
  /\ conf' = [conf EXCEPT ![c].status = "confirmed", ![c].call = "confirmed",
                          ![c].deciding = "no"]
  /\ UNCHANGED <<run, messages, claim, alive, flag, worker, lost, swept, starts, acts, cut>>

CommitReject(c) ==
  /\ conf[c].deciding = "reject"
  /\ conf' = [conf EXCEPT ![c].status = "rejected", ![c].call = "rejected",
                          ![c].deciding = "no"]
  /\ run' = Closed({c})
  /\ UNCHANGED <<messages, claim, alive, flag, worker, lost, swept, starts, acts, cut>>

\* expire_confirmation, of each of cs
Expired(cs) ==
  [c \in Confs |->
     IF c \in cs THEN [conf[c] EXCEPT !.status = "expired",
                                     !.call = IF @ = "required" THEN "failed" ELSE @]
     ELSE conf[c]]

\* ... by somebody who decides too late.
DecideTooLate(c) ==
  /\ conf[c].status = "pending" /\ conf[c].deciding = "no"
  /\ conf[c].due
  /\ \E r \in Runs : run[r].waits = c
  /\ conf' = Expired({c})
  /\ run' = Closed({c})
  /\ UNCHANGED <<messages, claim, alive, flag, worker, lost, swept, starts, acts, cut>>

-----------------------------------------------------------------------------
(***************************************************************************)
(* The sweep, every few minutes.                                           *)
(***************************************************************************)
\* sweep_confirmations reads what is pending and late, without locking it ...
SweepRead ==
  LET overdue == {c \in Confs : conf[c].status = "pending" /\ conf[c].due} IN
  /\ swept = {} /\ overdue # {}
  /\ swept' = overdue
  /\ UNCHANGED <<run, conf, messages, claim, alive, flag, worker, lost, starts, acts, cut>>

\* ... and writes them by key, waiting for whoever holds a row, in one commit.
SweepWrite ==
  /\ swept # {}
  /\ \A c \in swept : conf[c].deciding = "no"
  /\ swept' = {}
  /\ conf' = Expired(swept)
  /\ run' = Closed(swept)
  /\ UNCHANGED <<messages, claim, alive, flag, worker, lost, starts, acts, cut>>

MutantSweepStuck(r) ==
  /\ run[r].status = "waiting"
  /\ \E c \in Confs : conf[c].of = r /\ conf[c].status = "rejected"
  /\ run' = Put(r, "cancelled")
  /\ UNCHANGED <<conf, messages, claim, alive, flag, worker, lost, swept, starts, acts, cut>>
\* The confirmation a waiting run asked for last was decided against.
SweepStuck(r) ==
  /\ run[r].status = "waiting"
  /\ \E c \in Confs :
       /\ conf[c].of = r /\ conf[c].status \in {"rejected", "expired"}
       /\ \A d \in Confs : conf[d].of = r => d <= c
  /\ run' = Put(r, "cancelled")
  /\ UNCHANGED <<conf, messages, claim, alive, flag, worker, lost, swept, starts, acts, cut>>

MutantSweepStale(r) ==
  /\ run[r].status = "running"
  /\ run[r].age > 0 /\ r \in claim /\ Unattended(r)
  /\ EndedFor(r, "interrupted")
  /\ UNCHANGED <<conf, messages, alive, flag, worker, lost, swept, starts, acts>>
\* sweep_stale_runs
SweepStale(r) ==
  /\ run[r].status = "running"
  /\ run[r].age = 2 \/ (run[r].age = 1 /\ r \in claim /\ Unattended(r))
  /\ EndedFor(r, "interrupted")
  /\ UNCHANGED <<conf, messages, alive, flag, worker, lost, swept, starts, acts>>

-----------------------------------------------------------------------------
(***************************************************************************)
(* Workers.                                                                *)
(***************************************************************************)
At(w, phase) == worker[w].phase = phase
Goes(w, phase) == worker' = [worker EXCEPT ![w].phase = phase]
Keeps(w, task, phase, sees) ==
  worker' = [worker EXCEPT ![w] =
               [phase |-> phase, task |-> task, conf |-> task.conf, sees |-> sees]]

MutantClaimRun(w, m) ==
  /\ At(w, "idle") /\ m \in messages
  /\ claim' = claim \cup {m.run}
  /\ messages' = messages \ {m}
  /\ Keeps(w, m, "claimed", run[m.run].status)
  /\ UNCHANGED <<run, conf, alive, flag, lost, swept, starts, acts, cut>>
\* run_assistant_turn: the claim, and a look at the row.
ClaimRun(w, m) ==
  /\ At(w, "idle") /\ m \in messages
  /\ m.run \notin claim
  /\ claim' = claim \cup {m.run}
  /\ messages' = messages \ {m}
  /\ Keeps(w, m, "claimed", run[m.run].status)
  /\ UNCHANGED <<run, conf, alive, flag, lost, swept, starts, acts, cut>>

\* Claimed by another: an answer that may have used its tools is not begun again.
Refuse(w, m) ==
  /\ At(w, "idle") /\ m \in messages
  /\ m.run \in claim
  /\ messages' = messages \ {m}
  /\ IF run[m.run].status = "running"
     THEN Keeps(w, m, "refused", "running")
     ELSE UNCHANGED worker
  /\ UNCHANGED <<run, conf, claim, alive, flag, lost, swept, starts, acts, cut>>

Disown(w) ==
  /\ At(w, "refused")
  /\ run' = Put(RunOf(w), "interrupted")
  /\ worker' = [worker EXCEPT ![w] = Idle]
  /\ UNCHANGED <<conf, messages, claim, alive, flag, lost, swept, starts, acts, cut>>

MutantBeat(w) ==
  LET r == RunOf(w) IN
  /\ At(w, "claimed")
  /\ alive' = alive \cup {r}
  /\ IF worker[w].sees = "running"
     THEN /\ run' = [run EXCEPT ![r].age = 0]
          /\ Goes(w, "driving")
     ELSE Goes(w, "leaving") /\ UNCHANGED run
  /\ UNCHANGED <<conf, messages, claim, flag, lost, swept, starts, acts, cut>>
MutantDrive(w) ==
  LET r == RunOf(w) IN
  /\ At(w, "claimed")
  /\ alive' = alive \cup {r}
  /\ run' = [run EXCEPT ![r].age = 0]
  /\ IF worker[w].task.mode = "start"
     THEN Goes(w, "driving") /\ starts' = [starts EXCEPT ![r] = More(@)]
     ELSE Goes(w, "resuming") /\ UNCHANGED starts
  /\ UNCHANGED <<conf, messages, claim, flag, lost, swept, acts, cut>>
\* The first beat; drive_run goes on unless the row said that the run had ended.
Beat(w) ==
  LET r == RunOf(w) IN
  /\ At(w, "claimed")
  /\ alive' = alive \cup {r}
  /\ IF worker[w].sees = "running"
     THEN /\ run' = [run EXCEPT ![r].age = 0]
          /\ IF worker[w].task.mode = "start"
             THEN Goes(w, "driving") /\ starts' = [starts EXCEPT ![r] = More(@)]
             ELSE Goes(w, "resuming") /\ UNCHANGED starts
     ELSE Goes(w, "leaving") /\ UNCHANGED <<run, starts>>
  /\ UNCHANGED <<conf, messages, claim, flag, lost, swept, acts, cut>>

\* What the worker writes last, whatever the row says by now.
EndsAs(w, status) ==
  /\ run' = Put(RunOf(w), status)
  /\ Goes(w, "leaving")
  /\ UNCHANGED <<conf, messages, claim, alive, flag, lost, swept, starts, acts, cut>>

Answer(w) == At(w, "driving") /\ EndsAs(w, "succeeded")

Break(w) == worker[w].phase \in Drives /\ EndsAs(w, "failed")

\* The flag is looked at between the events of an answer.
HeedStop(w) ==
  /\ worker[w].phase \in {"driving", "resuming"}
  /\ RunOf(w) \in flag
  /\ EndsAs(w, "cancelled")

\* A shutdown: only here is the row read again first.
Interrupt(w) ==
  /\ worker[w].phase \in Drives
  /\ IF run[RunOf(w)].status = "running"
     THEN run' = Put(RunOf(w), "interrupted") ELSE UNCHANGED run
  /\ Goes(w, "leaving")
  /\ UNCHANGED <<conf, messages, claim, alive, flag, lost, swept, starts, acts, cut>>

\* resume_assistant_run: the confirmation must be confirmed; its call is read.
Load(w) ==
  LET c == worker[w].conf IN
  /\ At(w, "resuming")
  /\ RunOf(w) \notin flag
  /\ c # None /\ conf[c].status = "confirmed"
  /\ worker' = [worker EXCEPT ![w].phase = "acting",
                  ![w].sees = IF conf[c].call = "confirmed" THEN "confirmed" ELSE "none"]
  /\ UNCHANGED <<run, conf, messages, claim, alive, flag, lost, swept, starts, acts, cut>>

\* The call is made again where its outcome could not be written at once.
MutantAct(w) ==
  LET c == worker[w].conf IN
  /\ At(w, "acting") /\ worker[w].sees = "confirmed"
  /\ acts' = [acts EXCEPT ![c][RunOf(w)] = More(@)]
  /\ \/ conf' = [conf EXCEPT ![c].call = "succeeded"] /\ Goes(w, "driving")
     \/ UNCHANGED <<conf, worker>>
  /\ UNCHANGED <<run, messages, claim, alive, flag, lost, swept, starts, cut>>
\* execute_confirmed: the lock on the call does not reload it.
Act(w) ==
  LET c == worker[w].conf IN
  /\ At(w, "acting") /\ worker[w].sees = "confirmed"
  /\ conf' = [conf EXCEPT ![c].call = "succeeded"]
  /\ acts' = [acts EXCEPT ![c][RunOf(w)] = More(@)]
  /\ Goes(w, "driving")
  /\ UNCHANGED <<run, messages, claim, alive, flag, lost, swept, starts, cut>>

\* A tool that needs an approval: a new confirmation, or the pending one of the
\* same call made before in this chat (_replayed_call).
Ask(w, c) ==
  /\ At(w, "driving")
  /\ \/ /\ conf[c].status = "none" /\ \A d \in 1..(c - 1) : conf[d].status # "none"
        /\ conf' = [conf EXCEPT ![c] = [status |-> "pending", of |-> RunOf(w),
                      call |-> "required", deciding |-> "no", due |-> FALSE]]
     \/ /\ conf[c].status = "pending" /\ conf[c].call = "required"
        /\ UNCHANGED conf
  /\ worker' = [worker EXCEPT ![w].phase = "asked", ![w].conf = c]
  /\ UNCHANGED <<run, messages, claim, alive, flag, lost, swept, starts, acts, cut>>

Wait(w) ==
  /\ At(w, "asked")
  /\ run' = [Put(RunOf(w), "waiting") EXCEPT ![RunOf(w)].waits = worker[w].conf]
  /\ Goes(w, "leaving")
  /\ UNCHANGED <<conf, messages, claim, alive, flag, lost, swept, starts, acts, cut>>

\* The keys are deleted, whosever they are by now.
Leave(w) ==
  /\ At(w, "leaving")
  /\ alive' = alive \ {RunOf(w)}
  /\ claim' = claim \ {RunOf(w)}
  /\ worker' = [worker EXCEPT ![w] = Idle]
  /\ UNCHANGED <<run, conf, messages, flag, lost, swept, starts, acts, cut>>

\* The process is lost, and its message comes back.
WorkerLost(w) ==
  /\ worker[w].phase # "idle"
  /\ messages' = messages \cup {worker[w].task}
  /\ worker' = [worker EXCEPT ![w] = Idle]
  /\ UNCHANGED <<run, conf, claim, alive, flag, lost, swept, starts, acts, cut>>

-----------------------------------------------------------------------------
(***************************************************************************)
(* Time.                                                                   *)
(***************************************************************************)
Lapse(r) ==
  /\ r \in alive /\ HeldBy(r) = {}
  /\ alive' = alive \ {r}
  /\ UNCHANGED <<run, conf, messages, claim, flag, worker, lost, swept, starts, acts, cut>>

ClaimRunsOut(r) ==
  /\ r \in claim /\ HeldBy(r) = {} /\ run[r].status # "running"
  /\ \A m \in messages : m.run # r
  /\ claim' = claim \ {r}
  /\ UNCHANGED <<run, conf, messages, alive, flag, worker, lost, swept, starts, acts, cut>>

\* Only a run that is driven stays within the lease.
Age(r) ==
  /\ run[r].status = "running"
  /\ run[r].age = 0 \/ (run[r].age = 1 /\ HeldBy(r) = {})
  /\ run' = [run EXCEPT ![r].age = @ + 1]
  /\ UNCHANGED <<conf, messages, claim, alive, flag, worker, lost, swept, starts, acts, cut>>

FallDue(c) ==
  /\ conf[c].status = "pending" /\ ~conf[c].due
  /\ conf' = [conf EXCEPT ![c].due = TRUE]
  /\ UNCHANGED <<run, messages, claim, alive, flag, worker, lost, swept, starts, acts, cut>>

-----------------------------------------------------------------------------
Person ==
  \/ \E r \in Runs : Send(r) \/ Resume(r) \/ Stop(r) \/ StopUnattended(r)
  \/ \E c \in Confs : \/ \E decision \in {"confirm", "reject"} : Decide(c, decision)
                      \/ DecideTooLate(c)

Commit(c) == CommitConfirm(c) \/ CommitReject(c)

Take(w) == \E m \in messages : ClaimRun(w, m) \/ Refuse(w, m)

Work(w) ==
  \/ Disown(w) \/ Beat(w) \/ Answer(w) \/ Break(w) \/ HeedStop(w) \/ Interrupt(w)
  \/ Load(w) \/ Act(w) \/ Wait(w) \/ Leave(w) \/ WorkerLost(w)
  \/ \E c \in Confs : Ask(w, c)

Sweep ==
  \/ SweepRead
  \/ SweepWrite
  \/ \E r \in Runs : SweepStuck(r) \/ SweepStale(r)

Clock ==
  \/ \E r \in Runs : Lapse(r) \/ ClaimRunsOut(r) \/ Age(r)
  \/ \E c \in Confs : FallDue(c)

ChatNext ==
  \/ Person
  \/ \E c \in Confs : Commit(c)
  \/ \E w \in Workers : Take(w) \/ Work(w)
  \/ Sweep
  \/ Clock

\* The beat sweeps again and again, time passes, a request ends, and a worker
\* does something in the end, if only to be lost; nothing of people or answers.
Fairness ==
  /\ \A w \in Workers : WF_chatVars(Work(w))
  /\ \A c \in Confs : WF_chatVars(Commit(c)) /\ WF_chatVars(FallDue(c))
  /\ WF_chatVars(SweepRead) /\ SF_chatVars(SweepWrite)
  /\ \A r \in Runs : /\ WF_chatVars(SweepStuck(r)) /\ WF_chatVars(SweepStale(r))
                     /\ WF_chatVars(Lapse(r)) /\ WF_chatVars(ClaimRunsOut(r)) /\ WF_chatVars(Age(r))

ChatSpec == ChatInit /\ [][ChatNext]_chatVars

FairChatSpec == ChatSpec /\ Fairness

-----------------------------------------------------------------------------
\* A run carries a confirmed action out at most once, however often its resume is
\* asked for or delivered, unless it was ended under a worker.
ActionOnce == \A c \in Confs, r \in Runs \ cut : acts[c][r] <= 1

\* What routes.py:320 says: "the confirmed action must never execute twice".
\* Not kept: two runs may wait for one confirmation.
NeverTwice ==
  \A c \in Confs, q, r \in Runs : acts[c][r] <= 1 /\ (q # r => acts[c][q] + acts[c][r] <= 1)

\* An answer that may have used its tools is not begun a second time, unless its
\* run was ended under a worker.
AnsweredOnce == \A r \in Runs \ cut : starts[r] <= 1

\* What tasks.py:441 says: the claim keeps a redelivered message from "running the
\* same answer -- and its tools -- a second time". Not kept by a run that was
\* ended under a worker.
NeverAgain == \A r \in Runs : starts[r] <= 1

Carried(c) == \E r \in Runs : acts[c][r] > 0

\* No action that was rejected is carried out, and a run that says it succeeded
\* has not left out an action of its own that was approved.
DecisionsHonoured ==
  \A c \in Confs :
    /\ conf[c].status = "rejected" => ~Carried(c)
    /\ conf[c].status = "confirmed" /\ conf[c].of \in Runs \ cut
       /\ run[conf[c].of].status = "succeeded" => Carried(c)

\* A run that was stopped or given up does not come to answer after all, unless a
\* worker had it then.
EndedStays ==
  [][\A r \in Runs \ cut' :
       run[r].status \in Ended => run'[r].status \in Ended \ {"succeeded"}
                                    \/ run'[r].status = run[r].status]_chatVars

\* No answer stays on "Thinking" for ever.
RunEnds == \A r \in Runs : run[r].status = "running" ~> run[r].status # "running"

\* No run waits for ever for an approval that nobody gave.
WaitEnds ==
  \A r \in Runs :
    run[r].status = "waiting"
      ~> \/ run[r].status # "waiting"
         \/ run[r].waits # None /\ conf[run[r].waits].status = "confirmed"
=============================================================================
