----------------------------- MODULE AutoReview -----------------------------
(***************************************************************************)
(* The automatic AI review of a contract's text: the request flagged on    *)
(* the contract (auto_review_pending), the background jobs that answer it  *)
(* (clause extraction as its last step, or the contract_review job of a    *)
(* retry), the risk band cached on the contract, and the workflow's review *)
(* step that waits for the answer.                                         *)
(*                                                                         *)
(* A worker and an upload keep the contract as they loaded it: a session   *)
(* does not expire its objects at a commit, so what they do at the end is  *)
(* done to the contract of the beginning. It writes the columns that it    *)
(* changed from what it loaded, and no others.                             *)
(***************************************************************************)
EXTENDS Integers, FiniteSets

CONSTANTS MaxVersions,  \* bound: authoritative versions of the contract
          MaxRetries,   \* bound: retries a person starts
          MaxAttempts   \* MAX_JOB_ATTEMPTS

ASSUME BoundsAssumption ==
  /\ MaxVersions \in Nat \ {0}
  /\ MaxRetries \in Nat
  /\ MaxAttempts \in Nat \ {0}

VARIABLES
  row,       \* the contract's row
  same,      \* the versions whose text is that of the version before
  reviewed,  \* the versions a succeeded run of the playbook was made on
  made,      \* the number of jobs made; the newest is job[made]
  job,       \* the rows of the jobs
  at,        \* where the worker of a job is
  loaded,    \* the contract as a worker loaded it: current version and band
  outcome,   \* what the review of a worker came to
  upload,    \* the request that uploads a version
  late,      \* STALL_SECONDS have passed since the newest job's last mark
  step       \* the workflow's review step

vars == <<row, same, reviewed, made, job, at, loaded, outcome, upload, late,
          step>>

workers == <<at, loaded, outcome>>

Versions == 1..MaxVersions
JobIds   == 1..(MaxVersions + MaxRetries)
NoJob    == 0
NoBand   == 0
Nothing  == 0

\* The row's `sure` is no column but history: the band was not cached by a
\* worker whose text was replaced since it loaded the contract, nor left
\* standing by an upload that had loaded another band.
Rows == [current : Versions, pending : BOOLEAN, attempt : JobIds \cup {NoJob},
         band : Versions \cup {NoBand}, sure : BOOLEAN]

Kinds    == {"none", "clause_extraction", "contract_review"}
Statuses == {"queued", "running", "succeeded", "failed"}
JobRows  == [kind : Kinds, status : Statuses, version : Versions,
             tries : 0..MaxAttempts]

Places   == {"idle", "extracting", "extracted", "carried", "retrying",
             "holding", "reviewing", "reviewed", "closing", "lost"}
Copies   == [version : Versions \cup {Nothing}, band : Versions \cup {NoBand}]
Outcomes == {"none", "ok", "incomplete"}
Uploads  == [pc : {"idle", "received", "promoted", "queued"},
             pending : BOOLEAN, attempt : JobIds \cup {NoJob},
             band : Versions \cup {NoBand}, version : Versions]
Steps    == [status : {"running", "waiting_human", "passed"},
             waited : BOOLEAN, interrupted : BOOLEAN]

TypeOK ==
  /\ row \in Rows
  /\ same \subseteq Versions
  /\ reviewed \subseteq Versions
  /\ made \in JobIds
  /\ job \in [JobIds -> JobRows]
  /\ at \in [JobIds -> Places]
  /\ loaded \in [JobIds -> Copies]
  /\ outcome \in [JobIds -> Outcomes]
  /\ upload \in Uploads
  /\ late \in BOOLEAN
  /\ step \in Steps

NewJob(kind, v) ==
  [kind |-> kind, status |-> "queued", version |-> v, tries |-> 0]

NotMade == NewJob("none", 1)

NoUpload == [pc |-> "idle", pending |-> FALSE, attempt |-> NoJob,
             band |-> NoBand, version |-> 1]

NoCopy == [version |-> Nothing, band |-> NoBand]

\* A contract just drafted from a request is flagged, an uploaded one is not.
Init ==
  /\ row \in {[current |-> 1, pending |-> p, attempt |-> NoJob,
               band |-> NoBand, sure |-> TRUE] : p \in BOOLEAN}
  /\ same = {}
  /\ reviewed = {}
  /\ made = 1
  /\ job = [j \in JobIds |->
              IF j = 1 THEN NewJob("clause_extraction", 1) ELSE NotMade]
  /\ at = [j \in JobIds |-> "idle"]
  /\ loaded = [j \in JobIds |-> NoCopy]
  /\ outcome = [j \in JobIds |-> "none"]
  /\ upload = NoUpload
  /\ late = FALSE
  /\ step = [status |-> "running", waited |-> FALSE, interrupted |-> FALSE]

-----------------------------------------------------------------------------
(* What is read off the rows *)

\* The version and those right before it with the same text, when s holds the
\* versions that repeat the text before.
SameText(s, c) == {v \in 1..c : \A w \in (v + 1)..c : w \in s}

\* The runs that count for the text of version c.
Qualifying(c) == reviewed \cap SameText(same, c)

\* The risk summary of version c: its band is unknown, or it is named by the
\* version it was computed for.
Band(rs, s, c) == IF rs \cap SameText(s, c) = {} THEN NoBand ELSE c

\* A session that loaded one band and computed another sends an UPDATE of the
\* column if it changed. The bands of two versions may be of one level.
MaySend(found, b)  == ~(found = NoBand /\ b = NoBand)
MaySpare(found, b) == (found = NoBand) = (b = NoBand)

MutantInterrupted == job[made].status = "failed"

\* The newest job failed (or was cancelled), or takes longer than it may.
Interrupted == job[made].status = "failed" \/ late

\* The requested review: none pending, still running, or interrupted. A review
\* that was saved before its worker died is not pending.
ReviewState ==
  IF ~row.pending THEN "none"
  ELSE IF ~Interrupted THEN "running"
  ELSE IF Qualifying(row.current) # {} THEN "none"
  ELSE "interrupted"

\* The request's keys are taken off the contract's metadata. Its time is
\* counted only while there is a request.
Clear ==
  /\ row' = [row EXCEPT !.pending = FALSE, !.attempt = NoJob]
  /\ late' = FALSE

-----------------------------------------------------------------------------
(* The worker of a job *)

\* The job is marked; how often it was tried is not read again.
Finished(j, status) ==
  job' = [job EXCEPT ![j].status = status, ![j].tries = 0]

\* The mark from which the newest job's time is counted moves.
Marked(j) == late' = (late /\ j # made)

\* A worker takes up the job.
Claim(j) ==
  /\ job[j].kind # "none"
  /\ job[j].status = "queued"
  /\ job[j].tries < MaxAttempts
  /\ job' = [job EXCEPT ![j].status = "running", ![j].tries = @ + 1]
  /\ at' = [at EXCEPT ![j] = IF job[j].kind = "contract_review"
                             THEN "retrying" ELSE "extracting"]
  /\ Marked(j)
  /\ UNCHANGED <<row, same, reviewed, made, loaded, outcome, upload, step>>

\* The clauses are read, or copied from a version with the same text whose
\* extraction succeeded. The job is marked done before the review.
Extract(j) ==
  /\ at[j] = "extracting"
  /\ \E carried \in BOOLEAN :
       /\ carried => \E i \in JobIds \ {j} :
                        /\ job[i].kind = "clause_extraction"
                        /\ job[i].status = "succeeded"
                        /\ \/ job[i].version \in SameText(same, job[j].version)
                           \/ job[j].version \in SameText(same, job[i].version)
       /\ at' = [at EXCEPT ![j] = IF carried THEN "carried" ELSE "extracted"]
  /\ Finished(j, "succeeded")
  /\ Marked(j)
  /\ UNCHANGED <<row, same, reviewed, made, loaded, outcome, upload, step>>

ExtractionFails(j) ==
  /\ at[j] = "extracting"
  /\ Finished(j, "failed")
  /\ at' = [at EXCEPT ![j] = "idle"]
  /\ UNCHANGED <<row, same, reviewed, made, loaded, outcome, upload, late,
                 step>>

\* The worker is through with the review, which came to o: a retry's job has
\* still to be marked, an extraction is done.
Through(j, o) ==
  LET closing == job[j].kind = "contract_review"
  IN  /\ at' = [at EXCEPT ![j] = IF closing THEN "closing" ELSE "idle"]
      /\ outcome' = [outcome EXCEPT ![j] = IF closing THEN o ELSE "none"]
      /\ loaded' = [loaded EXCEPT ![j] = NoCopy]

\* The worker asks whether there is a review to do, and whether it is its own.
Asking(j) == at[j] \in {"extracted", "carried", "retrying"}
Mine(j)   == row.pending /\ row.attempt \in {NoJob, j}

\* Nothing is asked for, or a retry has given the review to another job.
Skip(j) ==
  /\ Asking(j)
  /\ ~Mine(j)
  /\ Through(j, "ok")
  /\ UNCHANGED <<row, same, reviewed, made, job, upload, late, step>>

\* The contract is loaded, whose text and band the worker then goes by. Clauses
\* that were copied are of a text that may have been reviewed already.
Read(j) ==
  /\ Asking(j)
  /\ Mine(j)
  /\ loaded' = [loaded EXCEPT ![j] = [version |-> row.current, band |-> row.band]]
  /\ at' = [at EXCEPT ![j] = IF @ = "carried" THEN "holding" ELSE "reviewing"]
  /\ UNCHANGED <<row, same, reviewed, made, job, outcome, upload, late, step>>

MutantHolds(j) == TRUE

Holds(j) == Qualifying(loaded[j].version) # {}

\* The text is that of a version already reviewed: the request is answered. The
\* metadata as loaded are written, whatever was asked since.
StillHolds(j) ==
  /\ at[j] = "holding"
  /\ Holds(j)
  /\ Clear
  /\ Through(j, "ok")
  /\ UNCHANGED <<same, reviewed, made, job, upload, step>>

\* The text was not reviewed: it is sent to the model.
Begin(j) ==
  /\ at[j] = "holding"
  /\ ~Holds(j)
  /\ at' = [at EXCEPT ![j] = "reviewing"]
  /\ UNCHANGED <<row, same, reviewed, made, job, loaded, outcome, upload, late,
                 step>>

\* A worker that loaded c caches the band b of its text.
Cached(c, b) ==
  \/ /\ MaySend(c.band, b)
     /\ row' = [row EXCEPT !.band = b,
                           !.sure = c.version \in SameText(same, row.current)]
  \/ MaySpare(c.band, b) /\ UNCHANGED row

\* The run is saved on the version that was loaded, and the band of that
\* version cached: a run of the model, or a keyword scan after it failed. (The
\* band it found is not looked at again.)
Saved(j, rs) ==
  /\ at[j] = "reviewing"
  /\ reviewed' = rs
  /\ Cached(loaded[j], Band(rs, same, loaded[j].version))
  /\ at' = [at EXCEPT ![j] = "reviewed"]
  /\ loaded' = [loaded EXCEPT ![j].band = NoBand]
  /\ UNCHANGED <<same, made, job, upload, late, step>>

Review(j) ==
  /\ Saved(j, reviewed \cup {loaded[j].version})
  /\ outcome' = [outcome EXCEPT ![j] = "ok"]

Scan(j) ==
  /\ Saved(j, reviewed)
  /\ outcome' = [outcome EXCEPT ![j] = "incomplete"]

\* No playbook, no rules, or the save failed: nothing is kept.
ReviewFails(j) ==
  /\ at[j] = "reviewing"
  /\ outcome' = [outcome EXCEPT ![j] = "incomplete"]
  /\ at' = [at EXCEPT ![j] = "reviewed"]
  /\ loaded' = [loaded EXCEPT ![j].band = NoBand]
  /\ UNCHANGED <<row, same, reviewed, made, job, upload, late, step>>

\* The request is taken off the contract, whatever was asked meanwhile.
End(j) ==
  /\ at[j] = "reviewed"
  /\ Clear
  /\ Through(j, outcome[j])
  /\ UNCHANGED <<same, reviewed, made, job, upload, step>>

\* A retry's job is marked by what its review came to.
Close(j) ==
  /\ at[j] = "closing"
  /\ Finished(j, IF outcome[j] = "incomplete" THEN "failed" ELSE "succeeded")
  /\ at' = [at EXCEPT ![j] = "idle"]
  /\ outcome' = [outcome EXCEPT ![j] = "none"]
  /\ Marked(j)
  /\ UNCHANGED <<row, same, reviewed, made, loaded, upload, step>>

\* The worker dies, or is stopped at the time limit. A job that is marked
\* done already is nobody's concern any more.
Die(j) ==
  /\ at[j] \notin {"idle", "lost"}
  /\ at' = [at EXCEPT ![j] = IF job[j].status = "running" THEN "lost" ELSE "idle"]
  /\ loaded' = [loaded EXCEPT ![j] = NoCopy]
  /\ outcome' = [outcome EXCEPT ![j] = "none"]
  /\ UNCHANGED <<row, same, reviewed, made, job, upload, late, step>>

\* The reaper finds a running job past its lease. Its time counts from when it
\* was made, which is longer ago than a review may take.
Reap(j) ==
  /\ at[j] = "lost"
  /\ job[j].status = "running"
  /\ IF job[j].tries >= MaxAttempts
       THEN Finished(j, "failed")
       ELSE job' = [job EXCEPT ![j].status = "queued"]
  /\ at' = [at EXCEPT ![j] = "idle"]
  /\ late' = (late \/ (j = made /\ row.pending))
  /\ UNCHANGED <<row, same, reviewed, made, loaded, outcome, upload, step>>

-----------------------------------------------------------------------------
(* New text *)

\* A job is made and becomes the newest.
Made(kind, v) ==
  /\ made' = made + 1
  /\ job' = [job EXCEPT ![made + 1] = NewJob(kind, v)]
  /\ late' = FALSE

\* The request made over a row. The job a retry named is left on it.
Requested(r) == [r EXCEPT !.pending = TRUE]

MutantPromoted(r, s, found) == row' = [r EXCEPT !.current = @ + 1]

\* The next version becomes the current text of r, and the band of that text is
\* cached by a session that found a band on the contract.
Promoted(r, s, found) ==
  LET next == r.current + 1
      b    == Band(reviewed, s, next)
  IN  \/ /\ MaySend(found, b)
         /\ row' = [r EXCEPT !.current = next, !.band = b, !.sure = TRUE]
      \/ /\ MaySpare(found, b)
         /\ row' = [r EXCEPT !.current = next, !.sure = @ /\ r.band = found]

\* The last suggestion is decided and the accepted ones make a version: text,
\* request and job in one commit, the contract locked and read again.
AcceptChanges ==
  /\ row.current < MaxVersions
  /\ made < MaxVersions + MaxRetries
  /\ Promoted(Requested(row), same, row.band)
  /\ Made("clause_extraction", row.current + 1)
  /\ UNCHANGED <<same, reviewed, workers, upload, step>>

\* A file arrives, a counterparty's revision or a person's version: the
\* contract is loaded, then the file is stored and read.
Receive ==
  /\ upload.pc = "idle"
  /\ row.current < MaxVersions
  /\ upload' = [pc |-> "received", pending |-> row.pending,
                attempt |-> row.attempt, band |-> row.band, version |-> 1]
  /\ UNCHANGED <<row, same, reviewed, made, job, workers, late, step>>

\* First commit: the version, which may repeat the text before.
Promote ==
  /\ upload.pc = "received"
  /\ row.current < MaxVersions
  /\ \E s \in {same, same \cup {row.current + 1}} :
       /\ same' = s
       /\ Promoted(row, s, upload.band)
  /\ upload' = [upload EXCEPT !.pc = "promoted", !.band = NoBand,
                              !.version = row.current + 1]
  /\ UNCHANGED <<reviewed, made, job, workers, late, step>>

\* Second commit: the jobs.
Queue ==
  /\ upload.pc = "promoted"
  /\ made < MaxVersions + MaxRetries
  /\ Made("clause_extraction", upload.version)
  /\ upload' = [upload EXCEPT !.pc = "queued"]
  /\ UNCHANGED <<row, same, reviewed, workers, step>>

\* Third commit: a revision asks for its review, on the metadata as loaded. If
\* they said so already, for no reason of its own, no UPDATE is sent.
Request ==
  /\ upload.pc = "queued"
  /\ \/ row' = [Requested(row) EXCEPT !.attempt = upload.attempt]
     \/ upload.pending /\ UNCHANGED row
  /\ upload' = NoUpload
  /\ UNCHANGED <<same, reviewed, made, job, workers, late, step>>

\* A person's upload asks for no review, so it ends with its jobs; any request
\* may fail, or its process die, before or between its commits.
UploadEnds ==
  /\ upload.pc # "idle"
  /\ upload' = NoUpload
  /\ UNCHANGED <<row, same, reviewed, made, job, workers, late, step>>

-----------------------------------------------------------------------------
(* A person, and the workflow *)

\* Retry review: the contract is locked and read again, and its review given
\* to a job of its own.
Retry ==
  /\ ReviewState # "running"
  /\ Qualifying(row.current) = {}
  /\ made < MaxVersions + MaxRetries
  /\ Cardinality({j \in JobIds : job[j].kind = "contract_review"}) < MaxRetries
  /\ row' = [row EXCEPT !.pending = TRUE, !.attempt = made + 1]
  /\ Made("contract_review", 1)
  /\ UNCHANGED <<same, reviewed, workers, upload, step>>

\* There is a review of this text: what was left of the request is removed.
NotNeeded ==
  /\ ReviewState # "running"
  /\ Qualifying(row.current) # {}
  /\ Clear
  /\ UNCHANGED <<same, reviewed, made, job, workers, upload, step>>

\* Whatever the retry was answered, the step that stopped for a person because
\* its review never finished waits again, from now.
Reopen ==
  /\ step.status = "waiting_human" /\ step.interrupted
  /\ step' = [status |-> "running", waited |-> FALSE, interrupted |-> FALSE]
  /\ UNCHANGED <<row, same, reviewed, made, job, workers, upload, late>>

\* A visit to the step finds no review to wait for: it goes on by itself if
\* the band is good enough, and stops for a person otherwise.
Judge ==
  /\ step.status = "running"
  /\ row.pending => step.waited /\ ReviewState # "running"
  /\ \E status \in {"passed", "waiting_human"} :
       /\ status = "passed" => Qualifying(row.current) # {}
       /\ step' = [status |-> status, waited |-> FALSE,
                   interrupted |-> ReviewState = "interrupted"]
  /\ UNCHANGED <<row, same, reviewed, made, job, workers, upload, late>>

\* STALL_SECONDS pass for the newest job.
Stall ==
  /\ ReviewState = "running"
  /\ late' = TRUE
  /\ UNCHANGED <<row, same, reviewed, made, job, workers, upload, step>>

\* _REVIEW_WAIT_SECONDS pass for the step.
WaitPasses ==
  /\ step.status = "running"
  /\ row.pending /\ ~step.waited
  /\ step' = [step EXCEPT !.waited = TRUE]
  /\ UNCHANGED <<row, same, reviewed, made, job, workers, upload, late>>

-----------------------------------------------------------------------------
Works(j) ==
  \/ Claim(j) \/ Extract(j) \/ ExtractionFails(j)
  \/ Skip(j) \/ Read(j) \/ StillHolds(j) \/ Begin(j)
  \/ Review(j) \/ Scan(j) \/ ReviewFails(j) \/ End(j) \/ Close(j)

NewText == AcceptChanges \/ Receive \/ Promote \/ Queue \/ Request
           \/ UploadEnds

Next ==
  \/ \E j \in JobIds : Works(j) \/ Die(j) \/ Reap(j)
  \/ NewText
  \/ Retry \/ NotNeeded \/ Reopen
  \/ Judge \/ Stall \/ WaitPasses

Spec == Init /\ [][Next]_vars

\* The step is visited again and again by the page's refresh and the sweep,
\* and time passes. Nothing is asked of the workers: each may be slow or dead.
FairSpec == Spec /\ WF_vars(Judge) /\ WF_vars(Stall) /\ WF_vars(WaitPasses)

-----------------------------------------------------------------------------
(* Properties *)

\* The band on the contract is that of its text, unless it was cached by a
\* worker whose text had been replaced since it loaded the contract, or left
\* standing by an upload that had loaded another band (promote_version computes
\* the band again wherever the text moves).
BandOfItsText ==
  row.sure => row.band = NoBand \/ row.band \in SameText(same, row.current)

\* No band computed from an old text's review stays cached as if it were that
\* of the contract's text, whoever was overtaken (promote_version's comment). Not
\* kept by the sessions BandOfItsText leaves out.
NoBandOutlives ==
  row.band = NoBand \/ row.band \in SameText(same, row.current)

\* A worker lets go of the contract it loaded.
LetsGo(j) ==
  /\ at[j] \in {"holding", "reviewed"}
  /\ at'[j] \notin {"holding", "reviewing", "reviewed"}

\* A request is taken off the contract only if its text has a review that
\* counts, or by a worker that is through: with a review that says it is
\* incomplete, or with a text that was replaced since it loaded the contract
\* (_maybe_auto_review clears the flag without asking what was requested
\* meanwhile).
RequestNotDropped ==
  [][row.pending /\ ~row'.pending =>
       \/ Qualifying(row.current) # {}
       \/ \E j \in JobIds :
            /\ LetsGo(j)
            /\ \/ outcome[j] = "incomplete"
               \/ loaded[j].version \notin SameText(same, row.current)]_vars

\* New text is reviewed again, and not left at an unknown band: its request is
\* taken off with a review that counts or by one that says it is incomplete
\* (the comment where accepted changes ask for it). Not kept by a worker whose
\* text was replaced.
NewTextIsReviewed ==
  [][row.pending /\ ~row'.pending =>
       \/ Qualifying(row.current) # {}
       \/ \E j \in JobIds : LetsGo(j) /\ outcome[j] = "incomplete"]_vars

\* A counterparty's revision flags the contract for its review (the docstring of
\* log_counterparty_revision). Not kept if its session loaded a request that was
\* answered since.
RevisionIsFlagged == [][Request => row'.pending]_vars

\* The workflow's review step does not wait for ever: whatever becomes of the
\* jobs, the retries and the texts, it goes on or stops for a person.
StepGoesOn == step.status = "running" ~> step.status # "running"
=============================================================================
