--------------------------- MODULE AiWorkerProofs ---------------------------
(***************************************************************************)
(* Proofs about what the workers do with the model: the review of a        *)
(* contract's text (AutoReview) and the answer in a chat (AssistantRun).   *)
(*                                                                         *)
(* AutoReview, for any number of versions, retries and attempts. Types     *)
(* need Loads: a worker in a review has loaded a version. That a request   *)
(* is taken off only for cause needs Saves: a review that ends as made has *)
(* left its run on the version it loaded. That no summary outlives its     *)
(* text needs Past: no version is loaded or reviewed before it is made, so *)
(* new text has a band only if it repeats the text before.                 *)
(*                                                                         *)
(* AssistantRun, for any number of workers, questions and confirmations.   *)
(* All of it rests on KeysOK and QuietOK: the keys in Redis are those of   *)
(* the one worker that has the run, the row says that the run is running   *)
(* as long as somebody is to write it, and nobody else then knows of it.   *)
(***************************************************************************)
EXTENDS AutoReview, AssistantRun, TLAPS

(***************************************************************************)
(* Part 1: the review of a contract's text.                                *)
(***************************************************************************)
Loads == \A j \in JobIds :
           at[j] \in {"holding", "reviewing", "reviewed"} => loaded[j].version \in Versions

Saves == \A j \in JobIds :
           at[j] = "reviewed" => outcome[j] = "incomplete"
                              \/ loaded[j].version \in reviewed

Past == /\ \A v \in reviewed : v <= row.current
        /\ \A j \in JobIds : loaded[j].version <= row.current

Inv == TypeOK /\ Loads /\ Saves /\ Past /\ BandOfItsText

-----------------------------------------------------------------------------
\* A version has its own text, whatever the versions repeat.
LEMMA OwnText ==
  ASSUME NEW s, NEW c \in Versions
  PROVE  c \in SameText(s, c)
BY BoundsAssumption DEF SameText, Versions

\* A summary is that of the version asked for, or unknown.
LEMMA BandOf ==
  ASSUME NEW rs, NEW s, NEW c
  PROVE  Band(rs, s, c) \in {NoBand, c}
BY DEF Band

LEMMA InitInv == Init => Inv
<1> SUFFICES ASSUME Init PROVE Inv
  OBVIOUS
<1>1. 1 \in Versions /\ 1 \in JobIds
  BY BoundsAssumption DEF Versions, JobIds
<1>2. 0 \in 0..MaxAttempts
  BY BoundsAssumption
<1>3. row \in Rows /\ row.band = NoBand
  <2>1. PICK p \in BOOLEAN :
          row = [current |-> 1, pending |-> p, attempt |-> NoJob, band |-> NoBand,
                 sure |-> TRUE]
    BY DEF Init
  <2>2. QED BY <1>1, <2>1 DEF Rows
<1>4. job \in [JobIds -> JobRows]
  BY <1>1, <1>2 DEF Init, JobRows, Kinds, Statuses, NewJob, NotMade
<1>5. upload \in Uploads /\ step \in Steps
  BY <1>1 DEF Init, Uploads, NoUpload, Steps
<1>6. TypeOK
  BY <1>1, <1>3, <1>4, <1>5 DEF Init, TypeOK, Places, Outcomes, Copies, NoCopy
<1>7. Past
  BY DEF Init, Past, NoCopy, Nothing
<1>8. QED BY <1>3, <1>6, <1>7 DEF Inv, Init, Loads, Saves, BandOfItsText

-----------------------------------------------------------------------------
(* Types *)

LEMMA CachedType ==
  ASSUME TypeOK, NEW c \in Copies, NEW b \in Versions \cup {NoBand}, Cached(c, b)
  PROVE  /\ row' \in Rows
         /\ row'.current = row.current /\ row'.pending = row.pending
         /\ \/ row' = row
            \/ /\ row'.band = b
               /\ row'.sure <=> c.version \in SameText(same, row.current)
<1>1. CASE row' = row
  BY <1>1 DEF TypeOK
<1>2. CASE row' = [row EXCEPT !.band = b, !.sure = c.version \in SameText(same, row.current)]
  <2>1. (c.version \in SameText(same, row.current)) \in BOOLEAN
    OBVIOUS
  <2>2. QED BY <1>2, <2>1 DEF TypeOK, Rows
<1>3. QED BY <1>1, <1>2 DEF Cached

LEMMA PromotedType ==
  ASSUME TypeOK, row.current < MaxVersions, NEW r \in Rows, r.current = row.current,
         NEW s, NEW found, Promoted(r, s, found)
  PROVE  /\ row' \in Rows
         /\ row'.current = row.current + 1 /\ row'.pending = r.pending
         /\ row.current + 1 \in Versions
         /\ \/ row'.band \in {NoBand, row.current + 1}
            \/ /\ row'.band = r.band
               /\ row'.sure => r.sure /\ r.band = found
               /\ MaySpare(found, Band(reviewed, s, row.current + 1))
<1> DEFINE n == row.current + 1
           b == Band(reviewed, s, n)
<1>1. n \in Versions
  BY BoundsAssumption DEF TypeOK, Rows, Versions
<1>2. b \in {NoBand, n}
  BY BandOf
<1>3. \/ row' = [r EXCEPT !.current = n, !.band = b, !.sure = TRUE]
      \/ /\ MaySpare(found, b)
         /\ row' = [r EXCEPT !.current = n, !.sure = @ /\ r.band = found]
  BY DEF Promoted
<1> HIDE DEF n, b
<1>4. CASE row' = [r EXCEPT !.current = n, !.band = b, !.sure = TRUE]
  BY <1>1, <1>2, <1>4 DEF Rows, n
<1>5. CASE /\ MaySpare(found, b)
           /\ row' = [r EXCEPT !.current = n, !.sure = @ /\ r.band = found]
  <2>1. (r.sure /\ r.band = found) \in BOOLEAN
    OBVIOUS
  <2>2. /\ row' \in Rows /\ row'.current = n /\ row'.pending = r.pending
        /\ row'.band = r.band
        /\ row'.sure <=> (r.sure /\ r.band = found)
    BY <1>1, <1>5, <2>1 DEF Rows
  <2>3. QED BY <1>1, <1>5, <2>2 DEF n, b
<1>6. QED BY <1>3, <1>4, <1>5

LEMMA MadeType ==
  ASSUME TypeOK, made < MaxVersions + MaxRetries,
         NEW kind \in Kinds, NEW v \in Versions, Made(kind, v)
  PROVE  made' \in JobIds /\ job' \in [JobIds -> JobRows] /\ late' \in BOOLEAN
<1>1. made + 1 \in JobIds
  BY BoundsAssumption DEF TypeOK, JobIds
<1>2. NewJob(kind, v) \in JobRows
  <2>1. 0 \in 0..MaxAttempts
    BY BoundsAssumption
  <2>2. QED BY <2>1 DEF NewJob, JobRows, Statuses
<1>3. QED BY <1>1, <1>2 DEF Made, TypeOK

LEMMA FinishedType ==
  ASSUME TypeOK, NEW j \in JobIds, NEW status \in Statuses, Finished(j, status)
  PROVE  job' \in [JobIds -> JobRows]
<1>1. 0 \in 0..MaxAttempts
  BY BoundsAssumption
<1>2. job[j] \in JobRows
  BY DEF TypeOK
<1>3. [[job[j] EXCEPT !.status = status] EXCEPT !.tries = 0] \in JobRows
  BY <1>1, <1>2 DEF JobRows
<1>4. job' = [job EXCEPT ![j] = [[job[j] EXCEPT !.status = status] EXCEPT !.tries = 0]]
  BY DEF Finished, TypeOK
<1>5. QED BY <1>3, <1>4 DEF TypeOK

LEMMA ThroughType ==
  ASSUME TypeOK, NEW j \in JobIds, NEW o \in Outcomes, Through(j, o)
  PROVE  /\ at' \in [JobIds -> Places]
         /\ outcome' \in [JobIds -> Outcomes]
         /\ loaded' \in [JobIds -> Copies]
         /\ at'[j] \in {"closing", "idle"}
         /\ \A i \in JobIds \ {j} : at'[i] = at[i] /\ outcome'[i] = outcome[i]
                                      /\ loaded'[i] = loaded[i]
BY DEF Through, TypeOK, Places, Outcomes, Copies, NoCopy

LEMMA ClearType ==
  ASSUME TypeOK, Clear
  PROVE  /\ row' \in Rows /\ late' \in BOOLEAN
         /\ row'.band = row.band /\ row'.sure = row.sure /\ row'.current = row.current
BY DEF Clear, TypeOK, Rows

\* A worker that is through with the band it loaded keeps the version.
LEMMA BandUsed ==
  ASSUME TypeOK, NEW j \in JobIds, loaded' = [loaded EXCEPT ![j].band = NoBand]
  PROVE  /\ loaded' \in [JobIds -> Copies]
         /\ \A i \in JobIds : loaded'[i].version = loaded[i].version
         /\ \A i \in JobIds \ {j} : loaded'[i] = loaded[i]
<1>1. loaded[j] \in Copies /\ [loaded[j] EXCEPT !.band = NoBand] \in Copies
  BY DEF TypeOK, Copies
<1>2. loaded' = [loaded EXCEPT ![j] = [loaded[j] EXCEPT !.band = NoBand]]
  OBVIOUS
<1>3. [loaded[j] EXCEPT !.band = NoBand].version = loaded[j].version
  BY <1>1 DEF Copies
<1>4. QED BY <1>1, <1>2, <1>3 DEF TypeOK

\* A worker's step keeps the types.
LEMMA WorksType ==
  ASSUME TypeOK, Loads, NEW j \in JobIds, Works(j)
  PROVE  TypeOK'
<1>1. CASE Claim(j)
  <2>1. job[j] \in JobRows /\ job[j].tries + 1 \in 0..MaxAttempts
    BY <1>1, BoundsAssumption DEF Claim, TypeOK, JobRows
  <2>2. job' \in [JobIds -> JobRows]
    BY <1>1, <2>1 DEF Claim, TypeOK, JobRows, Statuses
  <2>3. QED BY <1>1, <2>2 DEF Claim, Marked, TypeOK, Places
<1>2. CASE Extract(j)
  <2>1. job' \in [JobIds -> JobRows]
    BY <1>2, FinishedType DEF Extract, Statuses
  <2>2. QED BY <1>2, <2>1 DEF Extract, Marked, TypeOK, Places
<1>3. CASE ExtractionFails(j)
  <2>1. job' \in [JobIds -> JobRows]
    BY <1>3, FinishedType DEF ExtractionFails, Statuses
  <2>2. QED BY <1>3, <2>1 DEF ExtractionFails, TypeOK, Places
<1>4. CASE Skip(j)
  <2>1. "ok" \in Outcomes
    BY DEF Outcomes
  <2>2. QED BY <1>4, <2>1, ThroughType DEF Skip, TypeOK
<1>5. CASE StillHolds(j)
  <2>1. "ok" \in Outcomes
    BY DEF Outcomes
  <2>2. QED BY <1>5, <2>1, ThroughType, ClearType DEF StillHolds, TypeOK
<1>6. CASE Read(j) \/ Begin(j)
  <2>1. at' \in [JobIds -> Places]
    BY <1>6 DEF Read, Begin, TypeOK, Places
  <2>2. [version |-> row.current, band |-> row.band] \in Copies
    BY DEF TypeOK, Rows, Copies
  <2>3. loaded' \in [JobIds -> Copies]
    BY <1>6, <2>2 DEF Read, Begin, TypeOK
  <2>4. QED BY <1>6, <2>1, <2>3 DEF Read, Begin, TypeOK
<1>7. CASE Review(j) \/ Scan(j)
  <2>1. at[j] = "reviewing" /\ loaded[j].version \in Versions /\ loaded[j] \in Copies
    BY <1>7 DEF Review, Scan, Saved, Loads, TypeOK
  <2>2. PICK rs \in SUBSET Versions : Saved(j, rs)
    BY <1>7, <2>1 DEF Review, Scan, TypeOK
  <2>3. Band(rs, same, loaded[j].version) \in Versions \cup {NoBand}
    BY <2>1, BandOf
  <2>4. row' \in Rows
    BY <2>1, <2>2, <2>3, CachedType DEF Saved
  <2>5. outcome' \in [JobIds -> Outcomes]
    BY <1>7 DEF Review, Scan, TypeOK, Outcomes
  <2>6. loaded' \in [JobIds -> Copies]
    BY <2>2, BandUsed DEF Saved
  <2>7. QED BY <2>2, <2>4, <2>5, <2>6 DEF Saved, TypeOK, Places
<1>8. CASE ReviewFails(j)
  BY <1>8, BandUsed DEF ReviewFails, TypeOK, Places, Outcomes
<1>9. CASE End(j)
  <2>1. outcome[j] \in Outcomes
    BY DEF TypeOK
  <2>2. QED BY <1>9, <2>1, ThroughType, ClearType DEF End, TypeOK
<1>10. CASE Close(j)
  <2>1. job' \in [JobIds -> JobRows]
    BY <1>10, FinishedType DEF Close, Statuses
  <2>2. QED BY <1>10, <2>1 DEF Close, Marked, TypeOK, Places, Outcomes
<1>11. QED BY <1>1, <1>2, <1>3, <1>4, <1>5, <1>6, <1>7, <1>8, <1>9, <1>10 DEF Works

\* The loss of a worker and its job's return to the queue keep them.
LEMMA LossType ==
  ASSUME TypeOK, NEW j \in JobIds, Die(j) \/ Reap(j)
  PROVE  TypeOK'
<1>1. CASE Die(j)
  BY <1>1 DEF Die, TypeOK, Places, Outcomes, Copies, NoCopy
<1>2. CASE Reap(j)
  <2>1. job' \in [JobIds -> JobRows]
    <3>1. CASE Finished(j, "failed")
      BY <3>1, FinishedType DEF Statuses
    <3>2. CASE job' = [job EXCEPT ![j].status = "queued"]
      BY <3>2 DEF TypeOK, JobRows, Statuses
    <3>3. QED BY <1>2, <3>1, <3>2 DEF Reap
  <2>2. QED BY <1>2, <2>1 DEF Reap, TypeOK, Places, Rows
<1>3. QED BY <1>1, <1>2

\* New text keeps them.
LEMMA NewTextType ==
  ASSUME TypeOK, NewText
  PROVE  TypeOK'
<1>1. CASE AcceptChanges
  <2>1. Requested(row) \in Rows /\ Requested(row).current = row.current
    BY DEF Requested, TypeOK, Rows
  <2>2. row' \in Rows /\ row.current + 1 \in Versions
    BY <1>1, <2>1, PromotedType DEF AcceptChanges
  <2>3. made' \in JobIds /\ job' \in [JobIds -> JobRows] /\ late' \in BOOLEAN
    BY <1>1, <2>2, MadeType DEF AcceptChanges, Kinds
  <2>4. QED BY <1>1, <2>2, <2>3 DEF AcceptChanges, TypeOK, workers
<1>2. CASE Receive
  <2>1. upload' \in Uploads
    BY <1>2, BoundsAssumption DEF Receive, TypeOK, Uploads, Rows, Versions
  <2>2. QED BY <1>2, <2>1 DEF Receive, TypeOK, workers
<1>3. CASE Promote
  <2>1. PICK s \in {same, same \cup {row.current + 1}} :
          same' = s /\ Promoted(row, s, upload.band)
    BY <1>3 DEF Promote
  <2>2. row' \in Rows /\ row.current + 1 \in Versions
    BY <1>3, <2>1, PromotedType DEF Promote, TypeOK
  <2>3. upload' \in Uploads
    BY <1>3, <2>2 DEF Promote, TypeOK, Uploads
  <2>4. QED BY <1>3, <2>1, <2>2, <2>3 DEF Promote, TypeOK, workers
<1>4. CASE Queue
  <2>1. made' \in JobIds /\ job' \in [JobIds -> JobRows] /\ late' \in BOOLEAN
    BY <1>4, MadeType DEF Queue, Kinds, TypeOK, Uploads
  <2>2. upload' \in Uploads
    BY <1>4, BoundsAssumption DEF Queue, TypeOK, Uploads, NoUpload, Versions
  <2>3. QED BY <1>4, <2>1, <2>2 DEF Queue, TypeOK, workers
<1>5. CASE Request
  <2>1. row' \in Rows
    BY <1>5 DEF Request, Requested, TypeOK, Rows, Uploads
  <2>2. upload' \in Uploads
    BY <1>5, BoundsAssumption DEF Request, Uploads, NoUpload, Versions
  <2>3. QED BY <1>5, <2>1, <2>2 DEF Request, TypeOK, workers
<1>6. CASE UploadEnds
  <2>1. upload' \in Uploads
    BY <1>6, BoundsAssumption DEF UploadEnds, Uploads, NoUpload, Versions
  <2>2. QED BY <1>6, <2>1 DEF UploadEnds, TypeOK, workers
<1>7. QED BY <1>1, <1>2, <1>3, <1>4, <1>5, <1>6 DEF NewText

Rest == Retry \/ NotNeeded \/ Reopen \/ Judge \/ Stall \/ WaitPasses

\* What a person, the workflow and time do keeps them.
LEMMA RestType ==
  ASSUME TypeOK, Rest
  PROVE  TypeOK'
<1>1. CASE Retry
  <2>1. 1 \in Versions
    BY BoundsAssumption DEF Versions
  <2>2. made' \in JobIds /\ job' \in [JobIds -> JobRows] /\ late' \in BOOLEAN
    BY <1>1, <2>1, MadeType DEF Retry, Kinds
  <2>3. row' \in Rows
    BY <1>1, <2>2 DEF Retry, Made, TypeOK, Rows
  <2>4. QED BY <1>1, <2>2, <2>3 DEF Retry, TypeOK, workers
<1>2. CASE NotNeeded
  BY <1>2, ClearType DEF NotNeeded, TypeOK, workers
<1>3. CASE Reopen
  BY <1>3 DEF Reopen, TypeOK, Steps, workers
<1>4. CASE Judge
  BY <1>4 DEF Judge, TypeOK, Steps, workers
<1>5. CASE Stall
  BY <1>5 DEF Stall, TypeOK, workers
<1>6. CASE WaitPasses
  BY <1>6 DEF WaitPasses, TypeOK, Steps, workers
<1>7. QED BY <1>1, <1>2, <1>3, <1>4, <1>5, <1>6 DEF Rest

LEMMA TypeStep == TypeOK /\ Loads /\ [Next]_vars => TypeOK'
<1> SUFFICES ASSUME TypeOK, Loads, [Next]_vars PROVE TypeOK'
  OBVIOUS
<1>1. CASE Next
  BY <1>1, WorksType, LossType, NewTextType, RestType DEF Next, Rest
<1>2. CASE UNCHANGED vars
  BY <1>2 DEF vars, TypeOK
<1>3. QED BY <1>1, <1>2

-----------------------------------------------------------------------------
(* What a worker in a review holds *)

\* Only a worker's own steps move it.
LEMMA OthersStay ==
  ASSUME TypeOK, NEW j \in JobIds, Works(j) \/ Die(j) \/ Reap(j)
  PROVE  \A i \in JobIds \ {j} :
           at'[i] = at[i] /\ outcome'[i] = outcome[i] /\ loaded'[i] = loaded[i]
<1>1. CASE Skip(j) \/ StillHolds(j) \/ End(j)
  BY <1>1 DEF Skip, StillHolds, End, Through, TypeOK
<1>2. CASE Die(j) \/ Reap(j)
  BY <1>2 DEF Die, Reap, TypeOK
<1>3. CASE Claim(j) \/ Extract(j) \/ ExtractionFails(j) \/ Read(j) \/ Begin(j)
             \/ Review(j) \/ Scan(j) \/ ReviewFails(j) \/ Close(j)
  BY <1>3 DEF Claim, Extract, ExtractionFails, Read, Begin, Review, Scan, Saved,
              ReviewFails, Close, TypeOK
<1>4. QED BY <1>1, <1>2, <1>3 DEF Works

\* Where a worker is in its review, and what it holds, after a step of its own.
LEMMA OwnStep ==
  ASSUME TypeOK, Loads, Saves, NEW j \in JobIds, Works(j) \/ Die(j) \/ Reap(j)
  PROVE  /\ at'[j] \in {"holding", "reviewing", "reviewed"} => loaded'[j].version \in Versions
         /\ at'[j] = "reviewed" => outcome'[j] = "incomplete" \/ loaded'[j].version \in reviewed'
         /\ reviewed \subseteq reviewed'
<1>1. CASE Skip(j) \/ StillHolds(j) \/ End(j)
  BY <1>1 DEF Skip, StillHolds, End, Through, TypeOK
<1>2. CASE Die(j) \/ Reap(j)
  BY <1>2 DEF Die, Reap, TypeOK
<1>3. CASE Read(j) \/ Begin(j)
  BY <1>3 DEF Read, Begin, TypeOK, Loads, Rows
<1>4. CASE Review(j) \/ Scan(j) \/ ReviewFails(j)
  BY <1>4, BandUsed DEF Review, Scan, Saved, ReviewFails, TypeOK, Loads
<1>5. CASE Claim(j) \/ Extract(j) \/ ExtractionFails(j) \/ Close(j)
  BY <1>5 DEF Claim, Extract, ExtractionFails, Close, TypeOK
<1>6. QED BY <1>1, <1>2, <1>3, <1>4, <1>5 DEF Works

LEMMA HoldsStep == TypeOK /\ Loads /\ Saves /\ [Next]_vars => Loads' /\ Saves'
<1> SUFFICES ASSUME TypeOK, Loads, Saves, [Next]_vars PROVE Loads' /\ Saves'
  OBVIOUS
<1>1. ASSUME NEW j \in JobIds, Works(j) \/ Die(j) \/ Reap(j)
      PROVE  Loads' /\ Saves'
  BY <1>1, OthersStay, OwnStep DEF Loads, Saves
<1>2. CASE NewText
  BY <1>2 DEF NewText, AcceptChanges, Receive, Promote, Queue, Request, UploadEnds,
              workers, Loads, Saves
<1>3. CASE Rest
  BY <1>3 DEF Rest, Retry, NotNeeded, Reopen, Judge, Stall, WaitPasses, workers,
              Loads, Saves
<1>4. CASE UNCHANGED vars
  BY <1>4 DEF vars, Loads, Saves
<1>5. QED BY <1>1, <1>2, <1>3, <1>4 DEF Next, Rest

-----------------------------------------------------------------------------
(* What there is, is of a version that was made *)

\* The contract's version only moves on, and a review is of one it has had.
LEMMA PastStep == TypeOK /\ Loads /\ Past /\ [Next]_vars => Past'
<1> SUFFICES ASSUME TypeOK, Loads, Past, [Next]_vars PROVE Past'
  OBVIOUS
<1>1. ASSUME row'.current = row.current, loaded' = loaded, reviewed' = reviewed
      PROVE  Past'
  BY <1>1 DEF Past
<1>2. ASSUME row'.current = row.current, reviewed' = reviewed, NEW j \in JobIds,
             loaded' = [loaded EXCEPT ![j] = NoCopy]
      PROVE  Past'
  BY <1>2 DEF Past, NoCopy, Nothing, TypeOK, Rows, Versions
<1>3. ASSUME row.current < MaxVersions, NEW r \in Rows, r.current = row.current,
             NEW s, NEW found, Promoted(r, s, found), loaded' = loaded,
             reviewed' = reviewed
      PROVE  Past'
  <2>1. row'.current = row.current + 1
    BY <1>3, PromotedType
  <2>2. \A v \in Versions \cup {Nothing} : v <= row.current => v <= row.current + 1
    BY DEF TypeOK, Rows, Versions, Nothing
  <2>3. \A j \in JobIds : loaded[j].version \in Versions \cup {Nothing}
    BY DEF TypeOK, Copies
  <2>4. QED BY <1>3, <2>1, <2>2, <2>3 DEF Past, TypeOK
<1>4. ASSUME NEW j \in JobIds, Works(j) \/ Die(j) \/ Reap(j)
      PROVE  Past'
  <2>1. CASE StillHolds(j) \/ End(j)
    BY <1>2, <2>1, ClearType DEF StillHolds, End, Through
  <2>2. CASE Skip(j) \/ Die(j)
    BY <1>2, <2>2 DEF Skip, Die, Through
  <2>3. CASE Read(j)
    BY <2>3 DEF Read, Past, TypeOK, Rows, Versions
  <2>4. CASE Review(j) \/ Scan(j)
    <3>1. /\ loaded[j].version \in Versions /\ loaded[j] \in Copies
          /\ \A i \in JobIds : loaded'[i].version = loaded[i].version
      BY <2>4, BandUsed DEF Review, Scan, Saved, Loads, TypeOK
    <3>2. PICK rs \in {reviewed, reviewed \cup {loaded[j].version}} : Saved(j, rs)
      BY <2>4 DEF Review, Scan
    <3>3. Band(rs, same, loaded[j].version) \in Versions \cup {NoBand}
      BY <3>1, BandOf
    <3>4. row'.current = row.current /\ reviewed' = rs
      BY <3>1, <3>2, <3>3, CachedType DEF Saved
    <3>5. QED BY <3>1, <3>2, <3>4 DEF Past
  <2>5. CASE ReviewFails(j)
    <3>1. \A i \in JobIds : loaded'[i].version = loaded[i].version
      BY <2>5, BandUsed DEF ReviewFails
    <3>2. QED BY <2>5, <3>1 DEF ReviewFails, Past
  <2>6. CASE UNCHANGED <<row, loaded, reviewed>>
    BY <1>1, <2>6
  <2>7. QED BY <1>4, <2>1, <2>2, <2>3, <2>4, <2>5, <2>6
        DEF Works, Claim, Extract, ExtractionFails, Begin, Close, Reap
<1>5. CASE NewText
  <2>1. CASE AcceptChanges
    <3>1. Requested(row) \in Rows /\ Requested(row).current = row.current
      BY DEF Requested, TypeOK, Rows
    <3>2. QED BY <1>3, <2>1, <3>1 DEF AcceptChanges, workers
  <2>2. CASE Promote
    BY <1>3, <2>2 DEF Promote, workers, TypeOK
  <2>3. CASE Request
    BY <1>1, <2>3 DEF Request, Requested, TypeOK, Rows, workers
  <2>4. CASE Receive \/ Queue \/ UploadEnds
    BY <1>1, <2>4 DEF Receive, Queue, UploadEnds, workers
  <2>5. QED BY <1>5, <2>1, <2>2, <2>3, <2>4 DEF NewText
<1>6. CASE Rest
  <2>1. row'.current = row.current
    BY <1>6, ClearType DEF Rest, Retry, NotNeeded, Reopen, Judge, Stall, WaitPasses, TypeOK,
                           Rows
  <2>2. loaded' = loaded /\ reviewed' = reviewed
    BY <1>6 DEF Rest, Retry, NotNeeded, Reopen, Judge, Stall, WaitPasses, workers
  <2>3. QED BY <1>1, <2>1, <2>2
<1>7. CASE UNCHANGED vars
  BY <1>1, <1>7 DEF vars
<1>8. QED BY <1>4, <1>5, <1>6, <1>7 DEF Next, Rest

-----------------------------------------------------------------------------
(* The risk summary *)

\* Text that repeats the text before shares its reviews and those before it.
LEMMA SameTextGrows ==
  ASSUME NEW s, NEW t, s \subseteq t, NEW c \in Versions, NEW d \in Versions,
         d \in SameText(t, c)
  PROVE  SameText(s, d) \subseteq SameText(t, c)
BY BoundsAssumption DEF SameText, Versions

\* New text has a band only if it repeats the text before.
LEMMA NewTextsBand ==
  ASSUME TypeOK, Past, NEW s, row.current + 1 \in Versions,
         Band(reviewed, s, row.current + 1) # NoBand
  PROVE  row.current \in SameText(s, row.current + 1)
<1> DEFINE n == row.current + 1
<1>1. PICK v \in reviewed : v \in SameText(s, n)
  BY DEF Band
<1>2. v <= row.current /\ v \in 1..n /\ row.current \in 1..n
  BY <1>1 DEF Past, SameText, TypeOK, Rows, Versions
<1>3. \A w \in (row.current + 1)..n : w \in s
  BY <1>1, <1>2 DEF SameText
<1>4. QED BY <1>2, <1>3 DEF SameText

\* The text moves only with its summary, which is cached over the text of now.
LEMMA BandStep == Inv /\ [Next]_vars => BandOfItsText'
<1> SUFFICES ASSUME Inv, [Next]_vars PROVE BandOfItsText'
  OBVIOUS
<1> USE DEF Inv
<1>1. ASSUME row'.band = row.band, row'.sure = row.sure, row'.current = row.current,
             same' = same
      PROVE  BandOfItsText'
  BY <1>1 DEF BandOfItsText
<1>2. ASSUME row.current < MaxVersions, NEW r \in Rows, r.current = row.current,
             r.band = row.band, r.sure = row.sure, NEW s, same \subseteq s, same' = s,
             NEW found, Promoted(r, s, found)
      PROVE  BandOfItsText'
  <2> DEFINE n == row.current + 1
  <2>1. /\ row'.current = n /\ n \in Versions
        /\ \/ row'.band \in {NoBand, n}
           \/ /\ row'.band = row.band
              /\ row'.sure => row.sure /\ row.band = found
              /\ MaySpare(found, Band(reviewed, s, n))
    BY <1>2, PromotedType
  <2> HIDE DEF n
  <2>2. CASE row'.band \in {NoBand, n}
    BY <1>2, <2>1, <2>2, OwnText DEF BandOfItsText
  <2>3. CASE row'.sure /\ row'.band # NoBand /\ row'.band = row.band
             /\ row.sure /\ row.band = found
             /\ MaySpare(found, Band(reviewed, s, n))
    <3>1. row.band \in SameText(same, row.current)
      BY <2>3 DEF BandOfItsText
    <3>2. Band(reviewed, s, n) # NoBand
      BY <2>3 DEF MaySpare
    <3>3. row.current \in SameText(s, n)
      BY <2>1, <3>2, NewTextsBand DEF n
    <3>4. row.current \in Versions
      BY DEF TypeOK, Rows
    <3>5. SameText(same, row.current) \subseteq SameText(s, n)
      BY <1>2, <2>1, <3>3, <3>4, SameTextGrows
    <3>6. QED BY <1>2, <2>1, <2>3, <3>1, <3>5 DEF BandOfItsText
  <2>4. QED BY <2>1, <2>2, <2>3 DEF BandOfItsText
<1>3. ASSUME NEW j \in JobIds, NEW rs, Saved(j, rs)
      PROVE  BandOfItsText'
  <2> DEFINE v == loaded[j].version
             b == Band(rs, same, v)
  <2>1. v \in Versions /\ loaded[j] \in Copies
    BY <1>3 DEF Saved, Loads, TypeOK
  <2>2. b \in {NoBand, v}
    BY BandOf
  <2>3. Cached(loaded[j], b) /\ same' = same
    BY <1>3 DEF Saved
  <2> HIDE DEF b
  <2>4. /\ row'.current = row.current
        /\ \/ row' = row
           \/ /\ row'.band = b
              /\ row'.sure <=> v \in SameText(same, row.current)
    BY <2>1, <2>2, <2>3, CachedType
  <2>5. QED BY <2>2, <2>3, <2>4 DEF BandOfItsText
<1>4. ASSUME NEW j \in JobIds, Works(j) \/ Die(j) \/ Reap(j)
      PROVE  BandOfItsText'
  <2>1. CASE Review(j) \/ Scan(j)
    BY <1>3, <2>1 DEF Review, Scan
  <2>2. CASE StillHolds(j) \/ End(j)
    BY <1>1, <2>2, ClearType DEF StillHolds, End
  <2>3. CASE UNCHANGED <<row, same>>
    BY <1>1, <2>3
  <2>4. QED BY <1>4, <2>1, <2>2, <2>3
        DEF Works, Claim, Extract, ExtractionFails, Skip, Read, Begin, ReviewFails, Close,
            Die, Reap
<1>5. CASE NewText
  <2>1. CASE AcceptChanges
    <3>1. /\ Requested(row) \in Rows /\ Requested(row).current = row.current
          /\ Requested(row).band = row.band /\ Requested(row).sure = row.sure
      BY DEF Requested, TypeOK, Rows
    <3>2. QED BY <1>2, <2>1, <3>1 DEF AcceptChanges
  <2>2. CASE Promote
    <3>1. PICK s \in {same, same \cup {row.current + 1}} :
            same' = s /\ Promoted(row, s, upload.band)
      BY <2>2 DEF Promote
    <3>2. QED BY <1>2, <2>2, <3>1 DEF Promote, TypeOK
  <2>3. CASE Request
    BY <1>1, <2>3 DEF Request, Requested, TypeOK, Rows
  <2>4. CASE Receive \/ Queue \/ UploadEnds
    BY <1>1, <2>4 DEF Receive, Queue, UploadEnds
  <2>5. QED BY <1>5, <2>1, <2>2, <2>3, <2>4 DEF NewText
<1>6. CASE Rest
  <2>1. CASE Retry
    BY <1>1, <2>1 DEF Retry, TypeOK, Rows
  <2>2. CASE NotNeeded
    BY <1>1, <2>2, ClearType DEF NotNeeded
  <2>3. CASE Reopen \/ Judge \/ Stall \/ WaitPasses
    BY <1>1, <2>3 DEF Reopen, Judge, Stall, WaitPasses
  <2>4. QED BY <1>6, <2>1, <2>2, <2>3 DEF Rest
<1>7. CASE UNCHANGED vars
  BY <1>1, <1>7 DEF vars
<1>8. QED BY <1>4, <1>5, <1>6, <1>7 DEF Next, Rest

LEMMA Invariance == Spec => []Inv
<1>1. Inv /\ [Next]_vars => Inv'
  BY TypeStep, HoldsStep, PastStep, BandStep DEF Inv
<1>2. QED BY <1>1, InitInv, PTL DEF Spec

\* The contract, the jobs, the workers and the step keep the shapes the rows
\* and the workers' variables have in the code.
THEOREM TypeCorrect == Spec => []TypeOK
<1>1. Inv => TypeOK
  BY DEF Inv
<1>2. QED BY <1>1, Invariance, PTL

\* No summary is left on a contract whose text has moved, however many versions,
\* reviews and retries there are, but for one cached by a worker whose text had
\* been replaced, or left by an upload that had loaded another.
THEOREM BandFollowsText == Spec => []BandOfItsText
<1>1. Inv => BandOfItsText
  BY DEF Inv
<1>2. QED BY <1>1, Invariance, PTL

\* A request disappears only with a review that counts for its text, or with a
\* worker whose review says it is incomplete or whose text had been replaced.
THEOREM RequestsAreAnswered == Spec => RequestNotDropped
<1> DEFINE Why(j) == \/ outcome[j] = "incomplete"
                    \/ loaded[j].version \notin SameText(same, row.current)
           A == row.pending /\ ~row'.pending =>
                  \/ Qualifying(row.current) # {}
                  \/ \E j \in JobIds :
                       /\ LetsGo(j)
                       /\ \/ outcome[j] = "incomplete"
                          \/ loaded[j].version \notin SameText(same, row.current)
<1>1. Inv /\ [Next]_vars => [A]_vars
  <2> SUFFICES ASSUME Inv, [Next]_vars, row.pending, ~row'.pending,
                      Qualifying(row.current) = {}
               PROVE  \E j \in JobIds : LetsGo(j) /\ Why(j)
    OBVIOUS
  <2>1. PICK j \in JobIds : End(j) \/ StillHolds(j)
    <3>1. ~AcceptChanges
      <4>1. /\ Requested(row) \in Rows /\ Requested(row).current = row.current
            /\ Requested(row).pending
        BY DEF Requested, Inv, TypeOK, Rows
      <4>2. QED BY <4>1, PromotedType DEF AcceptChanges, Inv
    <3>2. ~NewText
      BY <3>1, PromotedType DEF NewText, Receive, Promote, Queue, Request, Requested,
                                UploadEnds, Inv, TypeOK, Rows
    <3>3. ~Rest
      BY DEF Rest, Retry, NotNeeded, Reopen, Judge, Stall, WaitPasses, Inv, TypeOK, Rows
    <3>4. \A j \in JobIds : ~Review(j) /\ ~Scan(j)
      BY DEF Review, Scan, Saved, Cached, Inv, TypeOK, Rows
    <3>5. \A j \in JobIds : Works(j) \/ Die(j) \/ Reap(j) => End(j) \/ StillHolds(j)
      BY <3>4 DEF Works, Claim, Extract, ExtractionFails, Skip, Read, Begin, ReviewFails,
                  Close, Die, Reap
    <3>6. QED BY <3>2, <3>3, <3>5 DEF Next, Rest, vars
  <2>2. LetsGo(j)
    BY <2>1 DEF End, StillHolds, Through, LetsGo, Inv, TypeOK
  <2>3. loaded[j].version \in Versions /\ row.current \in Versions
    BY <2>1 DEF End, StillHolds, Inv, Loads, TypeOK, Rows
  <2>4. ASSUME End(j) PROVE Why(j)
    BY <2>4 DEF End, Inv, Saves, Qualifying
  <2>5. ASSUME StillHolds(j) PROVE Why(j)
    <3>1. Qualifying(loaded[j].version) # {}
      BY <2>5 DEF StillHolds, Holds
    <3>2. loaded[j].version \notin SameText(same, row.current)
      BY <2>3, <3>1, SameTextGrows DEF Qualifying
    <3>3. QED BY <3>2
  <2>6. QED BY <2>1, <2>2, <2>4, <2>5
<1>2. QED BY <1>1, Invariance, PTL DEF Spec, RequestNotDropped

(***************************************************************************)
(* Part 2: the answer in a chat.                                           *)
(***************************************************************************)
\* A worker without a message is idle.
TaskOK == \A w \in Workers : /\ worker[w].phase = "idle" => worker[w].task = NoMessage
                             /\ worker[w].phase # "idle" => worker[w].task \in Message

\* w has the claim of r.
On(w, r) == worker[w].phase \notin {"idle", "refused"} /\ RunOf(w) = r

\* w is about to write, or to begin what will write, the row of its run.
Busy(w) == worker[w].phase \in Drives \/ (worker[w].phase = "claimed" /\ worker[w].sees = "running")

\* Nobody but the one with the claim knows of r.
Quiet(r) ==
  /\ \A m \in messages : m.run # r
  /\ \A w \in Workers : worker[w].phase = "refused" => RunOf(w) # r

\* One message of r, at most, is under way.
Single(r) ==
  /\ \A m, n \in messages : m.run = r /\ n.run = r => m = n
  /\ \A v, w \in Workers : worker[v].phase = "refused" /\ worker[w].phase = "refused"
                           /\ RunOf(v) = r /\ RunOf(w) = r => v = w
  /\ \A m \in messages, w \in Workers :
       ~ (m.run = r /\ worker[w].phase = "refused" /\ RunOf(w) = r)

\* The claim of r is not left over from a worker that was lost.
Free(r) == r \notin claim \/ \E w \in Workers : On(w, r)

\* The keys are those of the one worker that has the run, unless it was cut.
KeysOK ==
  \A w \in Workers, r \in Runs \ cut : On(w, r) =>
     /\ r \in claim
     /\ worker[w].phase # "claimed" => r \in alive
     /\ \A v \in Workers : On(v, r) => v = w
     /\ run[r].status = "running" /\ run[r].age = 2 => worker[w].phase = "claimed"

\* A run whose answer is being produced is running, and nobody else knows of it.
QuietOf(r) ==
  /\ run[r].status = "none" => Quiet(r) /\ \A w \in Workers : ~ On(w, r)
  /\ run[r].status = "waiting" =>
       /\ \A w \in Workers : RunOf(w) = r => worker[w].phase = "leaving"
       /\ Free(r) => Quiet(r)
  /\ run[r].status = "running" /\ Free(r) => Single(r)
  /\ \A w \in Workers : On(w, r) =>
       IF Busy(w) THEN run[r].status = "running" /\ Quiet(r)
       ELSE worker[w].phase = "leaving" \/ run[r].status \in Ended
QuietOK == \A r \in Runs \ cut : QuietOf(r)

\* w has yet to begin what its message says.
Unbegun(w) == worker[w].phase = "refused" \/ (worker[w].phase = "claimed" /\ worker[w].sees = "running")

\* An answer that was begun is not begun again: no message of a run that may
\* still be acted on says so.
StartsOf(r) ==
  /\ starts[r] <= 1
  /\ run[r].status = "running" /\ Free(r) /\ starts[r] # 0 =>
       /\ \A m \in messages : m.run = r => m.mode = "resume"
       /\ \A w \in Workers : RunOf(w) = r /\ Unbegun(w) => worker[w].task.mode = "resume"
  /\ run[r].status = "none" => starts[r] = 0
  /\ run[r].status = "waiting" => starts[r] # 0
  /\ starts[r] = 0 =>
       /\ \A m \in messages : m.run = r => m.mode = "start"
       /\ \A w \in Workers : RunOf(w) = r => /\ worker[w].phase \notin Drives
                                             /\ worker[w].task.mode = "start"
       /\ \A c \in Confs : conf[c].of # r
StartsOK == \A r \in Runs \ cut : StartsOf(r)

\* A confirmation is committed before anything is done for it, once it is decided
\* it stays so, and the tool call it is for says what was done.
ConfOf(c) ==
  /\ conf[c].deciding # "no" => conf[c].status = "pending"
  /\ conf[c].status = "pending" => conf[c].call = "required"
  /\ conf[c].call \in {"none", "required", "confirmed"} => ~Carried(c)
  /\ conf[c].call = "confirmed" \/ Carried(c) => conf[c].status \in {"confirmed", "expired"}
  /\ conf[c].status = "none" => conf[c].of = None
ConfOK == \A c \in Confs : ConfOf(c)

\* w is about to carry out an action.
Acting(w) == worker[w].phase = "acting" /\ worker[w].sees = "confirmed"
ActOK ==
  \A w \in Workers : Acting(w) => /\ worker[w].conf \in Confs
                                  /\ conf[worker[w].conf].status \in {"confirmed", "expired"}

\* What a run is about to carry out it has not.
UndoneYet ==
  \A w \in Workers : Acting(w) /\ RunOf(w) \in Runs \ cut => acts[worker[w].conf][RunOf(w)] = 0

\* Nothing is left to be decided or done of c; nothing of r but of d.
Done(c) == conf[c].status # "pending" /\ (conf[c].status = "confirmed" => Carried(c))
But(r, d) == \A c \in Confs : conf[c].of = r /\ c # d => Done(c)

\* A worker that is to end or to go on with a run has left none of its actions
\* out, but for the one it is at.
DoneOf(r) ==
  /\ run[r].status = "succeeded" => But(r, None)
  /\ run[r].status = "waiting" => But(r, run[r].waits)
  /\ run[r].status = "running" /\ Free(r) =>
       /\ \A m \in messages : m.run = r => But(r, m.conf)
       /\ \A w \in Workers : RunOf(w) = r /\ Unbegun(w) => But(r, worker[w].task.conf)
  /\ \A w \in Workers : RunOf(w) = r =>
       /\ worker[w].phase = "driving" => But(r, None)
       /\ worker[w].phase \in {"resuming", "acting", "asked"} => But(r, worker[w].conf)
       /\ worker[w].phase = "claimed" => worker[w].conf = worker[w].task.conf
DoneOK == \A r \in Runs \ cut : DoneOf(r)

\* The inductive invariant.
Kept == ChatTypeOK /\ TaskOK /\ KeysOK /\ QuietOK /\ StartsOK /\ ConfOK /\ ActOK
        /\ UndoneYet /\ ActionOnce /\ DoneOK

-----------------------------------------------------------------------------
(***************************************************************************)
(* What the assignments of the model leave and change.                     *)
(***************************************************************************)
\* A run whose status is written.
LEMMA PutFacts ==
  ASSUME ChatTypeOK, NEW r \in Runs, NEW s \in RunStatus
  PROVE  /\ Put(r, s) \in [Runs -> Run]
         /\ Put(r, s)[r].status = s /\ Put(r, s)[r].age = 0
         /\ Put(r, s)[r].waits = run[r].waits
         /\ \A q \in Runs \ {r} : Put(r, s)[q] = run[q]
<1>. DEFINE f == [run EXCEPT ![r].status = s]
<1>1. run \in [Runs -> Run] /\ run[r] \in Run
  BY DEF ChatTypeOK
<1>2. f = [run EXCEPT ![r] = [run[r] EXCEPT !.status = s]]
  OBVIOUS
<1>3. [run[r] EXCEPT !.status = s] \in Run
  BY <1>1 DEF Run
<1>4. f \in [Runs -> Run] /\ f[r] = [run[r] EXCEPT !.status = s]
      /\ \A q \in Runs \ {r} : f[q] = run[q]
  BY <1>1, <1>2, <1>3
<1>5. Put(r, s) = [f EXCEPT ![r] = [f[r] EXCEPT !.age = 0]]
  BY DEF Put
<1>6. f[r] \in Run /\ f[r].status = s /\ f[r].waits = run[r].waits
  BY <1>1, <1>3, <1>4 DEF Run
<1>. HIDE DEF f
<1>7. /\ [f[r] EXCEPT !.age = 0] \in Run
      /\ [f[r] EXCEPT !.age = 0].status = s /\ [f[r] EXCEPT !.age = 0].waits = run[r].waits
      /\ [f[r] EXCEPT !.age = 0].age = 0
  BY <1>6 DEF Run
<1>. QED
  BY <1>4, <1>5, <1>7

\* What two fields of a record are overwritten with, and what that leaves.
LEMMA RunFacts ==
  ASSUME NEW f \in Run, NEW s \in RunStatus
  PROVE  LET g == [f EXCEPT !.status = s, !.age = 0] IN
         g \in Run /\ g.status = s /\ g.age = 0 /\ g.waits = f.waits
<1>. DEFINE h == [f EXCEPT !.status = s]
<1>1. h \in Run /\ h.status = s /\ h.waits = f.waits
  BY DEF Run
<1>. DEFINE g == [h EXCEPT !.age = 0]
<1>2. [f EXCEPT !.status = s, !.age = 0] = g
  OBVIOUS
<1>. HIDE DEF h
<1>3. g \in Run /\ g.status = s /\ g.age = 0 /\ g.waits = f.waits
  BY <1>1 DEF Run
<1>. HIDE DEF g
<1>. QED
  BY <1>2, <1>3

LEMMA ClosedFacts ==
  ASSUME ChatTypeOK, NEW cs
  PROVE  /\ Closed(cs) \in [Runs -> Run]
         /\ \A r \in Runs :
              \/ Closed(cs)[r] = run[r]
                 /\ ~(run[r].status = "waiting" /\ \E c \in cs : conf[c].of = r)
              \/ /\ run[r].status = "waiting" /\ \E c \in cs : conf[c].of = r
                 /\ Closed(cs)[r].status = "cancelled" /\ Closed(cs)[r].age = 0
                 /\ Closed(cs)[r].waits = run[r].waits
<1>. DEFINE g(r) == [run[r] EXCEPT !.status = "cancelled", !.age = 0]
<1>1. \A r \in Runs : /\ run[r] \in Run
                      /\ g(r) \in Run /\ g(r).status = "cancelled" /\ g(r).age = 0
                      /\ g(r).waits = run[r].waits
  BY RunFacts DEF ChatTypeOK, RunStatus
<1>2. Closed(cs) = [r \in Runs |->
                      IF run[r].status = "waiting" /\ \E c \in cs : conf[c].of = r
                      THEN g(r) ELSE run[r]]
  BY DEF Closed
<1>. HIDE DEF g
<1>. QED
  BY <1>1, <1>2

LEMMA ExpiredFacts ==
  ASSUME ChatTypeOK, NEW cs
  PROVE  /\ Expired(cs) \in [Confs -> Conf]
         /\ \A c \in Confs :
              /\ Expired(cs)[c].of = conf[c].of
              /\ c \notin cs => Expired(cs)[c] = conf[c]
              /\ c \in cs => /\ Expired(cs)[c].status = "expired"
                             /\ Expired(cs)[c].deciding = conf[c].deciding
                             /\ conf[c].call # "required" =>
                                  Expired(cs)[c].call = conf[c].call
                             /\ conf[c].call = "required" =>
                                  Expired(cs)[c].call = "failed"
<1>. DEFINE y(c) == IF conf[c].call = "required" THEN "failed" ELSE conf[c].call
            h(c) == [conf[c] EXCEPT !.status = "expired"]
            g(c) == [h(c) EXCEPT !.call = y(c)]
<1>1. \A c \in Confs : /\ h(c) \in Conf /\ h(c).status = "expired" /\ h(c).of = conf[c].of
                       /\ h(c).deciding = conf[c].deciding /\ h(c).call = conf[c].call
  BY DEF ChatTypeOK, Conf
<1>2. \A c \in Confs : y(c) \in {"none", "required", "confirmed", "rejected", "succeeded", "failed"}
  BY DEF ChatTypeOK, Conf
<1>3. Expired(cs) = [c \in Confs |-> IF c \in cs THEN g(c) ELSE conf[c]]
  <2>1. ASSUME NEW c \in Confs
        PROVE  [conf[c] EXCEPT !.status = "expired",
                               !.call = IF @ = "required" THEN "failed" ELSE @] = g(c)
    BY <1>1
  <2>. HIDE DEF g
  <2>. QED
    BY <2>1 DEF Expired
<1>. HIDE DEF h, y
<1>4. \A c \in Confs : /\ g(c) \in Conf /\ g(c).status = "expired" /\ g(c).of = conf[c].of
                       /\ g(c).deciding = conf[c].deciding /\ g(c).call = y(c)
  BY <1>1, <1>2 DEF Conf
<1>5. \A c \in Confs : conf[c] \in Conf
  BY DEF ChatTypeOK
<1>. HIDE DEF g
<1>. QED
  BY <1>3, <1>4, <1>5 DEF y

LEMMA GoesFacts ==
  ASSUME ChatTypeOK, NEW w \in Workers, NEW p \in Phases, Goes(w, p)
  PROVE  /\ worker' \in [Workers -> Worker]
         /\ worker'[w].phase = p /\ worker'[w].task = worker[w].task
         /\ worker'[w].conf = worker[w].conf /\ worker'[w].sees = worker[w].sees
         /\ \A v \in Workers \ {w} : worker'[v] = worker[v]
<1>1. worker[w] \in Worker
  BY DEF ChatTypeOK
<1>2. /\ [worker[w] EXCEPT !.phase = p] \in Worker
      /\ [worker[w] EXCEPT !.phase = p].phase = p
      /\ [worker[w] EXCEPT !.phase = p].task = worker[w].task
      /\ [worker[w] EXCEPT !.phase = p].conf = worker[w].conf
      /\ [worker[w] EXCEPT !.phase = p].sees = worker[w].sees
  BY <1>1 DEF Worker
<1>. QED
  BY <1>2 DEF ChatTypeOK, Goes

LEMMA KeepsFacts ==
  ASSUME ChatTypeOK, NEW w \in Workers, NEW p \in Phases, NEW m \in Message,
         NEW x \in RunStatus, Keeps(w, m, p, x)
  PROVE  /\ worker' \in [Workers -> Worker]
         /\ worker'[w].phase = p /\ worker'[w].task = m
         /\ worker'[w].conf = m.conf /\ worker'[w].sees = x
         /\ \A v \in Workers \ {w} : worker'[v] = worker[v]
<1>1. m.conf \in Confs \cup {None}
  BY DEF Message
<1>2. [phase |-> p, task |-> m, conf |-> m.conf, sees |-> x] \in Worker
  BY <1>1 DEF Worker
<1>. QED
  BY <1>2 DEF ChatTypeOK, Keeps

LEMMA IdleFacts ==
  ASSUME ChatTypeOK, NEW w \in Workers, worker' = [worker EXCEPT ![w] = Idle]
  PROVE  /\ worker' \in [Workers -> Worker]
         /\ worker'[w].phase = "idle" /\ worker'[w].task = NoMessage
         /\ \A v \in Workers \ {w} : worker'[v] = worker[v]
<1>1. Idle \in Worker
  BY DEF Idle, Worker, Phases, RunStatus
<1>. QED
  BY <1>1 DEF ChatTypeOK, Idle

LEMMA LoadFacts ==
  ASSUME ChatTypeOK, NEW w \in Workers, Load(w)
  PROVE  /\ worker' \in [Workers -> Worker]
         /\ worker'[w].phase = "acting" /\ worker'[w].task = worker[w].task
         /\ worker'[w].conf = worker[w].conf
         /\ worker'[w].sees = IF conf[worker[w].conf].call = "confirmed"
                              THEN "confirmed" ELSE "none"
         /\ \A v \in Workers \ {w} : worker'[v] = worker[v]
<1>. DEFINE x == IF conf[worker[w].conf].call = "confirmed" THEN "confirmed" ELSE "none"
            f == [worker EXCEPT ![w].phase = "acting"]
<1>1. worker[w] \in Worker /\ worker \in [Workers -> Worker]
  BY DEF ChatTypeOK
<1>2. /\ [worker[w] EXCEPT !.phase = "acting"] \in Worker
      /\ [worker[w] EXCEPT !.phase = "acting"].phase = "acting"
      /\ [worker[w] EXCEPT !.phase = "acting"].task = worker[w].task
      /\ [worker[w] EXCEPT !.phase = "acting"].conf = worker[w].conf
  BY <1>1 DEF Worker, Phases
<1>3. /\ f \in [Workers -> Worker]
      /\ f[w].phase = "acting" /\ f[w].task = worker[w].task /\ f[w].conf = worker[w].conf
      /\ \A v \in Workers \ {w} : f[v] = worker[v]
  BY <1>1, <1>2
<1>4. worker' = [f EXCEPT ![w] = [f[w] EXCEPT !.sees = x]]
  BY DEF Load
<1>. HIDE DEF f
<1>5. x \in RunStatus \cup {"confirmed", "required"}
  BY DEF RunStatus
<1>6. f[w] \in Worker
  BY <1>3
<1>. HIDE DEF x
<1>7. /\ [f[w] EXCEPT !.sees = x] \in Worker
      /\ [f[w] EXCEPT !.sees = x].phase = f[w].phase
      /\ [f[w] EXCEPT !.sees = x].task = f[w].task
      /\ [f[w] EXCEPT !.sees = x].conf = f[w].conf
      /\ [f[w] EXCEPT !.sees = x].sees = x
  BY <1>5, <1>6 DEF Worker
<1>8. /\ worker' \in [Workers -> Worker] /\ worker'[w] = [f[w] EXCEPT !.sees = x]
      /\ \A v \in Workers \ {w} : worker'[v] = f[v]
  BY <1>3, <1>4, <1>7
<1>. QED
  BY <1>3, <1>7, <1>8 DEF x

\* The commit of a decision.
LEMMA CommitFacts ==
  ASSUME ChatTypeOK, NEW c \in Confs, NEW s \in {"confirmed", "rejected"},
         conf' = [conf EXCEPT ![c].status = s, ![c].call = s, ![c].deciding = "no"]
  PROVE  /\ conf' \in [Confs -> Conf]
         /\ conf'[c].status = s /\ conf'[c].call = s /\ conf'[c].deciding = "no"
         /\ conf'[c].of = conf[c].of
         /\ \A d \in Confs \ {c} : conf'[d] = conf[d]
<1>. DEFINE h == [conf EXCEPT ![c].status = s]
            k == [h EXCEPT ![c].call = s]
<1>1. conf \in [Confs -> Conf]
  BY DEF ChatTypeOK
<1>2. /\ h \in [Confs -> Conf]
      /\ h[c].status = s /\ h[c].of = conf[c].of
      /\ \A d \in Confs \ {c} : h[d] = conf[d]
  BY <1>1 DEF Conf
<1>3. conf' = [k EXCEPT ![c] = [k[c] EXCEPT !.deciding = "no"]]
  OBVIOUS
<1>. HIDE DEF h
<1>4. /\ k \in [Confs -> Conf]
      /\ k[c].status = s /\ k[c].call = s /\ k[c].of = conf[c].of
      /\ \A d \in Confs \ {c} : k[d] = conf[d]
  BY <1>2 DEF Conf
<1>. HIDE DEF k
<1>5. LET f == [k[c] EXCEPT !.deciding = "no"] IN
      f \in Conf /\ f.status = k[c].status /\ f.call = k[c].call /\ f.of = k[c].of
      /\ f.deciding = "no"
  BY <1>4 DEF Conf
<1>. QED
  BY <1>3, <1>4, <1>5

LEMMA DecideFacts ==
  ASSUME ChatTypeOK, NEW c \in Confs, NEW d \in {"confirm", "reject"}, Decide(c, d)
  PROVE  /\ conf' \in [Confs -> Conf]
         /\ conf'[c].status = conf[c].status /\ conf'[c].call = conf[c].call
         /\ conf'[c].of = conf[c].of
         /\ \A e \in Confs \ {c} : conf'[e] = conf[e]
<1>1. conf[c] \in Conf /\ conf \in [Confs -> Conf]
  BY DEF ChatTypeOK
<1>2. LET f == [conf[c] EXCEPT !.deciding = d] IN
      f \in Conf /\ f.status = conf[c].status /\ f.call = conf[c].call /\ f.of = conf[c].of
  BY <1>1 DEF Conf
<1>3. conf' = [conf EXCEPT ![c] = [conf[c] EXCEPT !.deciding = d]]
  BY DEF Decide
<1>. QED
  BY <1>1, <1>2, <1>3

LEMMA FallDueFacts ==
  ASSUME ChatTypeOK, NEW c \in Confs, FallDue(c)
  PROVE  /\ conf' \in [Confs -> Conf]
         /\ conf'[c].status = conf[c].status /\ conf'[c].call = conf[c].call
         /\ conf'[c].of = conf[c].of /\ conf'[c].deciding = conf[c].deciding
         /\ \A e \in Confs \ {c} : conf'[e] = conf[e]
BY DEF ChatTypeOK, FallDue, Conf

LEMMA CallFacts ==
  ASSUME ChatTypeOK, NEW c \in Confs, conf' = [conf EXCEPT ![c].call = "succeeded"]
  PROVE  /\ conf' \in [Confs -> Conf]
         /\ conf'[c].status = conf[c].status /\ conf'[c].call = "succeeded"
         /\ conf'[c].of = conf[c].of /\ conf'[c].deciding = conf[c].deciding
         /\ \A e \in Confs \ {c} : conf'[e] = conf[e]
BY DEF ChatTypeOK, Conf

\* An action that a run carries out once more.
LEMMA CarriedOut ==
  ASSUME ChatTypeOK, NEW d, NEW q, acts' = [acts EXCEPT ![d][q] = More(@)]
  PROVE  /\ acts' \in [Confs -> [Runs -> Times]]
         /\ \A c \in Confs, r \in Runs :
              acts'[c][r] = IF c = d /\ r = q THEN More(acts[c][r]) ELSE acts[c][r]
         /\ \A c \in Confs :
              /\ Carried(c) => Carried(c)'
              /\ c = d /\ q \in Runs => Carried(c)'
              /\ c # d => (Carried(c)' <=> Carried(c))
<1>1. \A n \in Times : More(n) \in Times /\ More(n) > 0
  BY DEF Times, More
<1>2. \A c \in Confs : acts[c] \in [Runs -> Times]
  BY DEF ChatTypeOK
<1>. HIDE DEF More, Times
<1>3. acts' = [acts EXCEPT ![d] = [acts[d] EXCEPT ![q] = More(acts[d][q])]]
  OBVIOUS
<1>4. \A c \in Confs : acts'[c] = IF c = d THEN [acts[d] EXCEPT ![q] = More(acts[d][q])] ELSE acts[c]
  BY <1>3 DEF ChatTypeOK
<1>5. ASSUME NEW c \in Confs PROVE acts'[c] \in [Runs -> Times]
  <2>1. CASE c = d
    <3>1. /\ acts'[c] = [acts[c] EXCEPT ![q] = More(acts[c][q])]
          /\ acts[c] \in [Runs -> Times]
      BY <1>2, <1>4, <2>1
    <3>2. q \in Runs => More(acts[c][q]) \in Times
      BY <1>1, <3>1
    <3>3. ASSUME NEW f \in [Runs -> Times], NEW n, q \in Runs => n \in Times
          PROVE  [f EXCEPT ![q] = n] \in [Runs -> Times]
      BY <3>3
    <3>. QED
      BY <3>1, <3>2, <3>3
  <2>2. CASE c # d
    BY <1>2, <1>4, <2>2
  <2>. QED
    BY <2>1, <2>2
<1>6. acts' \in [Confs -> [Runs -> Times]]
  BY <1>3, <1>5 DEF ChatTypeOK
<1>7. \A c \in Confs, r \in Runs :
        acts'[c][r] = IF c = d /\ r = q THEN More(acts[c][r]) ELSE acts[c][r]
  BY <1>2, <1>4
<1>8. \A c \in Confs, r \in Runs : acts[c][r] \in Times
  BY <1>2
<1>. QED
  BY <1>1, <1>6, <1>7, <1>8 DEF Carried

\* What a worker that asks leaves behind: the confirmation, and itself.
LEMMA AskFacts ==
  ASSUME ChatTypeOK, NEW w \in Workers, NEW c \in Confs, Ask(w, c), RunOf(w) \in Runs
  PROVE  /\ conf' \in [Confs -> Conf]
         /\ conf'[c].status = "pending" /\ conf'[c].call = "required"
         /\ \/ /\ conf[c].status = "none"
               /\ conf'[c].of = RunOf(w) /\ conf'[c].deciding = "no"
            \/ conf[c].status = "pending" /\ conf' = conf
         /\ \A e \in Confs \ {c} : conf'[e] = conf[e]
         /\ worker' \in [Workers -> Worker]
         /\ worker'[w].phase = "asked" /\ worker'[w].task = worker[w].task
         /\ worker'[w].conf = c
         /\ \A v \in Workers \ {w} : worker'[v] = worker[v]
<1>1. /\ conf' \in [Confs -> Conf]
      /\ conf'[c].status = "pending" /\ conf'[c].call = "required"
      /\ \/ /\ conf[c].status = "none"
            /\ conf'[c].of = RunOf(w) /\ conf'[c].deciding = "no"
         \/ conf[c].status = "pending" /\ conf' = conf
      /\ \A e \in Confs \ {c} : conf'[e] = conf[e]
  <2>1. [status |-> "pending", of |-> RunOf(w), call |-> "required",
         deciding |-> "no", due |-> FALSE] \in Conf
    BY DEF Conf
  <2>2. conf \in [Confs -> Conf]
    BY DEF ChatTypeOK
  <2>3. CASE conf[c].status = "none" /\
             conf' = [conf EXCEPT ![c] = [status |-> "pending", of |-> RunOf(w),
                        call |-> "required", deciding |-> "no", due |-> FALSE]]
    BY <2>1, <2>2, <2>3
  <2>4. CASE conf[c].status = "pending" /\ conf[c].call = "required" /\ conf' = conf
    BY <2>2, <2>4
  <2>. QED
    BY <2>3, <2>4 DEF Ask
<1>. DEFINE f == [worker EXCEPT ![w].phase = "asked"]
<1>2. worker[w] \in Worker /\ worker \in [Workers -> Worker]
  BY DEF ChatTypeOK
<1>3. /\ f \in [Workers -> Worker]
      /\ f[w].phase = "asked" /\ f[w].task = worker[w].task
      /\ \A v \in Workers \ {w} : f[v] = worker[v]
  BY <1>2 DEF Worker, Phases
<1>4. worker' = [f EXCEPT ![w] = [f[w] EXCEPT !.conf = c]]
  BY DEF Ask
<1>. HIDE DEF f
<1>5. /\ [f[w] EXCEPT !.conf = c] \in Worker
      /\ [f[w] EXCEPT !.conf = c].phase = f[w].phase
      /\ [f[w] EXCEPT !.conf = c].task = f[w].task
      /\ [f[w] EXCEPT !.conf = c].conf = c
  BY <1>3 DEF Worker
<1>. QED
  BY <1>1, <1>3, <1>4, <1>5

\* A run that begins to wait.
LEMMA WaitFacts ==
  ASSUME ChatTypeOK, NEW r \in Runs, NEW c \in Confs \cup {None},
         run' = [Put(r, "waiting") EXCEPT ![r].waits = c]
  PROVE  /\ run' \in [Runs -> Run]
         /\ run'[r].status = "waiting" /\ run'[r].waits = c /\ run'[r].age = 0
         /\ \A q \in Runs \ {r} : run'[q] = run[q]
<1>. DEFINE g == Put(r, "waiting")
<1>1. /\ g \in [Runs -> Run]
      /\ g[r].status = "waiting" /\ g[r].age = 0
      /\ \A q \in Runs \ {r} : g[q] = run[q]
  BY PutFacts DEF RunStatus
<1>2. run' = [g EXCEPT ![r] = [g[r] EXCEPT !.waits = c]]
  OBVIOUS
<1>. HIDE DEF g
<1>3. LET f == [g[r] EXCEPT !.waits = c] IN
      f \in Run /\ f.status = "waiting" /\ f.waits = c /\ f.age = 0
  BY <1>1 DEF Run
<1>. QED
  BY <1>1, <1>2, <1>3

\* A run that is shown to be at work, or grows older.
LEMMA AgeFacts ==
  ASSUME ChatTypeOK, NEW r \in Runs, NEW a \in 0..2, run' = [run EXCEPT ![r].age = a]
  PROVE  /\ run' \in [Runs -> Run]
         /\ run'[r].status = run[r].status /\ run'[r].waits = run[r].waits /\ run'[r].age = a
         /\ \A q \in Runs \ {r} : run'[q] = run[q]
<1>1. run[r] \in Run /\ run \in [Runs -> Run]
  BY DEF ChatTypeOK
<1>2. LET f == [run[r] EXCEPT !.age = a] IN
      f \in Run /\ f.status = run[r].status /\ f.waits = run[r].waits /\ f.age = a
  BY <1>1 DEF Run
<1>. QED
  BY <1>1, <1>2

-----------------------------------------------------------------------------
-----------------------------------------------------------------------------
(***************************************************************************)
(* Types.                                                                  *)
(***************************************************************************)
LEMMA ChatTypeInit == ChatInit => ChatTypeOK
BY DEF ChatInit, ChatTypeOK, Times, Run, RunStatus, Conf, Worker, Phases, Idle, NoMessage, None

\* A worker that has something to do has a message, of a run.
LEMMA TaskType ==
  ASSUME ChatTypeOK, TaskOK, NEW w \in Workers
  PROVE  /\ worker[w].phase # "idle" => worker[w].task \in Message /\ RunOf(w) \in Runs
         /\ worker[w].phase = "idle" => RunOf(w) \notin Runs
BY DEF TaskOK, Message, RunOf, NoMessage, None, Runs

LEMMA ChatTypeStep == ChatTypeOK /\ TaskOK /\ [ChatNext]_chatVars => ChatTypeOK' /\ TaskOK'
<1>. SUFFICES ASSUME ChatTypeOK, TaskOK, [ChatNext]_chatVars PROVE ChatTypeOK' /\ TaskOK'
  OBVIOUS
<1>. USE DEF ChatTypeOK
<1>1. ASSUME NEW r \in Runs, Send(r) PROVE ChatTypeOK' /\ TaskOK'
  BY <1>1, PutFacts DEF Send, TaskOK, RunStatus, Message
<1>2. ASSUME NEW r \in Runs, Resume(r) PROVE ChatTypeOK' /\ TaskOK'
  <2>1. run[r].waits \in Confs \cup {None}
    BY DEF Run
  <2>. QED
    BY <1>2, <2>1, PutFacts DEF Resume, TaskOK, RunStatus, Message
<1>3. ASSUME NEW r \in Runs, Stop(r) \/ StopUnattended(r) PROVE ChatTypeOK' /\ TaskOK'
  BY <1>3, PutFacts DEF Stop, StopUnattended, EndedFor, TaskOK, RunStatus
<1>4. ASSUME NEW c \in Confs, NEW d \in {"confirm", "reject"}, Decide(c, d)
      PROVE  ChatTypeOK' /\ TaskOK'
  BY <1>4, DecideFacts DEF Decide, TaskOK
<1>5. ASSUME NEW c \in Confs, DecideTooLate(c) PROVE ChatTypeOK' /\ TaskOK'
  BY <1>5, ClosedFacts, ExpiredFacts DEF DecideTooLate, TaskOK
<1>6. ASSUME NEW c \in Confs, Commit(c) PROVE ChatTypeOK' /\ TaskOK'
  <2>1. CASE CommitConfirm(c)
    BY <2>1, CommitFacts DEF CommitConfirm, TaskOK
  <2>2. CASE CommitReject(c)
    <3>1. conf' \in [Confs -> Conf]
      BY <2>2, CommitFacts DEF CommitReject
    <3>2. run' \in [Runs -> Run]
      BY <2>2, ClosedFacts DEF CommitReject
    <3>. QED
      BY <2>2, <3>1, <3>2 DEF CommitReject, TaskOK
  <2>. QED
    BY <1>6, <2>1, <2>2 DEF Commit
<1>7. CASE Sweep
  <2>1. CASE SweepRead
    BY <2>1 DEF SweepRead, TaskOK
  <2>2. CASE SweepWrite
    BY <2>2, ClosedFacts, ExpiredFacts DEF SweepWrite, TaskOK
  <2>3. ASSUME NEW r \in Runs, SweepStuck(r) PROVE ChatTypeOK' /\ TaskOK'
    BY <2>3, PutFacts DEF SweepStuck, TaskOK, RunStatus
  <2>4. ASSUME NEW r \in Runs, SweepStale(r) PROVE ChatTypeOK' /\ TaskOK'
    BY <2>4, PutFacts DEF SweepStale, EndedFor, TaskOK, RunStatus
  <2>. QED
    BY <1>7, <2>1, <2>2, <2>3, <2>4 DEF Sweep
<1>8. CASE Clock
  <2>1. ASSUME NEW r \in Runs, Lapse(r) \/ ClaimRunsOut(r) PROVE ChatTypeOK' /\ TaskOK'
    BY <2>1 DEF Lapse, ClaimRunsOut, TaskOK
  <2>2. ASSUME NEW r \in Runs, Age(r) PROVE ChatTypeOK' /\ TaskOK'
    <3>1. run[r].age \in 0..1 /\ run[r].age + 1 \in 0..2
      BY <2>2 DEF Age
    <3>2. run' = [run EXCEPT ![r].age = run[r].age + 1]
      BY <2>2 DEF Age
    <3>3. run' \in [Runs -> Run]
      <4>. DEFINE a == run[r].age + 1
      <4>1. a \in 0..2 /\ run' = [run EXCEPT ![r].age = a]
        BY <3>1, <3>2
      <4>. HIDE DEF ChatTypeOK, a
      <4>. QED
        BY <4>1, AgeFacts
    <3>. QED
      BY <2>2, <3>3 DEF Age, TaskOK
  <2>3. ASSUME NEW c \in Confs, FallDue(c) PROVE ChatTypeOK' /\ TaskOK'
    BY <2>3, FallDueFacts DEF FallDue, TaskOK
  <2>. QED
    BY <1>8, <2>1, <2>2, <2>3 DEF Clock
<1>9. ASSUME NEW w \in Workers, Take(w) PROVE ChatTypeOK' /\ TaskOK'
  <2>1. PICK m \in messages : ClaimRun(w, m) \/ Refuse(w, m)
    BY <1>9 DEF Take
  <2>2. m \in Message /\ m.conf \in Confs \cup {None} /\ m.run \in Runs
        /\ run[m.run].status \in RunStatus
    BY DEF Message, Run
  <2>3. ASSUME NEW p \in Phases \ {"idle"}, NEW x \in RunStatus, Keeps(w, m, p, x)
        PROVE  worker' \in [Workers -> Worker] /\ TaskOK'
    BY <2>2, <2>3, KeepsFacts DEF TaskOK
  <2>4. CASE ClaimRun(w, m)
    BY <2>2, <2>3, <2>4 DEF ClaimRun, Phases
  <2>5. CASE Refuse(w, m)
    BY <2>2, <2>3, <2>5 DEF Refuse, Phases, TaskOK, RunStatus
  <2>. QED
    BY <2>1, <2>4, <2>5
<1>10. ASSUME NEW w \in Workers, Work(w) PROVE ChatTypeOK' /\ TaskOK'
  <2>1. ASSUME NEW p \in Phases \ {"idle"}, worker[w].phase # "idle", Goes(w, p)
        PROVE  worker' \in [Workers -> Worker] /\ TaskOK'
    BY <2>1, GoesFacts DEF TaskOK
  <2>2. ASSUME worker' = [worker EXCEPT ![w] = Idle]
        PROVE  worker' \in [Workers -> Worker] /\ TaskOK'
    BY <2>2, IdleFacts DEF TaskOK
  <2>3. worker[w].phase # "idle" => RunOf(w) \in Runs /\ worker[w].task \in Message
    BY TaskType
  <2>. USE DEF At
  <2>4. CASE Disown(w)
    BY <2>2, <2>3, <2>4, PutFacts DEF Disown, RunStatus
  <2>5. CASE Beat(w)
    <3>1. RunOf(w) \in Runs
      BY <2>3, <2>5 DEF Beat
    <3>2. worker' \in [Workers -> Worker] /\ TaskOK'
      BY <2>1, <2>5 DEF Beat, Phases
    <3>3. starts' \in [Runs -> Times]
      BY <2>5, <3>1 DEF Beat, More, Times
    <3>4. run' \in [Runs -> Run]
      <4>. HIDE DEF ChatTypeOK
      <4>1. run \in [Runs -> Run]
        BY DEF ChatTypeOK
      <4>2. run' = run \/ run' = [run EXCEPT ![RunOf(w)].age = 0]
        BY <2>5 DEF Beat
      <4>3. PICK q \in Runs : q = RunOf(w)
        BY <3>1
      <4>. QED
        BY <4>1, <4>2, <4>3, AgeFacts
    <3>. QED
      BY <2>5, <3>1, <3>2, <3>3, <3>4 DEF Beat
  <2>6. ASSUME NEW s \in Ended, worker[w].phase # "idle", EndsAs(w, s)
        PROVE  ChatTypeOK' /\ TaskOK'
    BY <2>1, <2>3, <2>6, PutFacts DEF EndsAs, RunStatus, Ended, Phases
  <2>7. CASE Answer(w) \/ Break(w) \/ HeedStop(w)
    BY <2>6, <2>7 DEF Answer, Break, HeedStop, Drives, Ended
  <2>8. CASE Interrupt(w)
    BY <2>1, <2>3, <2>8, PutFacts DEF Interrupt, RunStatus, Phases, Drives
  <2>9. CASE Load(w)
    BY <2>9, LoadFacts DEF Load, TaskOK
  <2>10. CASE Act(w)
    <3>1. worker' \in [Workers -> Worker] /\ TaskOK'
      BY <2>1, <2>10 DEF Act, Phases
    <3>2. conf' \in [Confs -> Conf]
      <4>. DEFINE c == worker[w].conf
      <4>1. conf' = [conf EXCEPT ![c].call = "succeeded"]
        BY <2>10 DEF Act
      <4>. HIDE DEF c, ChatTypeOK
      <4>2. CASE c \in Confs
        BY <4>1, <4>2, CallFacts
      <4>3. CASE c \notin Confs
        BY <4>1, <4>3 DEF ChatTypeOK
      <4>. QED
        BY <4>2, <4>3
    <3>3. acts' \in [Confs -> [Runs -> Times]]
      BY <2>10, CarriedOut DEF Act
    <3>. QED
      BY <2>10, <3>1, <3>2, <3>3 DEF Act
  <2>11. CASE Wait(w)
    <3>1. run' \in [Runs -> Run]
      <4>1. worker[w].conf \in Confs \cup {None}
        BY DEF Worker
      <4>. QED
        <5>1. PICK q \in Runs, c \in Confs \cup {None} : q = RunOf(w) /\ c = worker[w].conf
          BY <2>3, <2>11, <4>1 DEF Wait
        <5>2. run' = [Put(q, "waiting") EXCEPT ![q].waits = c]
          BY <2>11, <5>1 DEF Wait
        <5>. HIDE DEF ChatTypeOK
        <5>. QED
          BY <5>2, WaitFacts
    <3>. QED
      BY <2>1, <2>11, <3>1 DEF Wait, Phases
  <2>12. CASE Leave(w)
    BY <2>2, <2>12 DEF Leave
  <2>13. CASE WorkerLost(w)
    BY <2>2, <2>3, <2>13 DEF WorkerLost
  <2>14. ASSUME NEW c \in Confs, Ask(w, c) PROVE ChatTypeOK' /\ TaskOK'
    <3>1. RunOf(w) \in Runs
      BY <2>3, <2>14 DEF Ask
    <3>2. worker' \in [Workers -> Worker] /\ TaskOK'
      BY <2>14, <3>1, AskFacts DEF Ask, TaskOK
    <3>3. conf' \in [Confs -> Conf]
      BY <2>14, <3>1, AskFacts
    <3>. QED
      BY <2>14, <3>2, <3>3 DEF Ask
  <2>. QED
    BY <1>10, <2>4, <2>5, <2>7, <2>8, <2>9, <2>10, <2>11, <2>12, <2>13, <2>14 DEF Work
<1>11. CASE UNCHANGED chatVars
  BY <1>11 DEF chatVars, TaskOK
<1>. QED
  BY <1>1, <1>2, <1>3, <1>4, <1>5, <1>6, <1>7, <1>8, <1>9, <1>10, <1>11 DEF ChatNext, Person

\* The chat stays well typed, for any workers, questions and confirmations.
THEOREM ChatTypeCorrect == ChatSpec => []ChatTypeOK
<1>1. ChatInit => TaskOK
  BY DEF ChatInit, TaskOK, Idle
<1>. QED
  BY <1>1, ChatTypeInit, ChatTypeStep, PTL DEF ChatSpec
-----------------------------------------------------------------------------
(***************************************************************************)
(* What the actions do, field by field.                                    *)
(***************************************************************************)
LEMMA SendEffect ==
  ASSUME ChatTypeOK, NEW r \in Runs, Send(r)
  PROVE  /\ run[r].status = "none"
         /\ run'[r].status \in {"running", "failed"} /\ run'[r].waits = run[r].waits
         /\ run'[r].age = 0
         /\ \A q \in Runs \ {r} : run'[q] = run[q]
         /\ \A m \in messages' :
              \/ m \in messages
              \/ /\ m.run = r /\ m.mode = "start" /\ m.conf = None
                 /\ run'[r].status = "running"
         /\ UNCHANGED <<conf, claim, alive, worker, starts, acts>>
BY PutFacts DEF Send, RunStatus

LEMMA ResumeEffect ==
  ASSUME ChatTypeOK, NEW r \in Runs, Resume(r)
  PROVE  /\ run[r].status = "waiting"
         /\ run'[r].status \in {"running", "failed"} /\ run'[r].waits = run[r].waits
         /\ run'[r].age = 0
         /\ \A q \in Runs \ {r} : run'[q] = run[q]
         /\ \A m \in messages' :
              \/ m \in messages
              \/ m.run = r /\ m.mode = "resume" /\ m.conf = run[r].waits
         /\ UNCHANGED <<conf, claim, alive, worker, starts, acts>>
BY PutFacts DEF Resume, RunStatus

\* A run ended by somebody who believes its worker lost.
LEMMA StopEffect ==
  ASSUME ChatTypeOK, NEW r \in Runs, StopUnattended(r) \/ SweepStale(r)
  PROVE  /\ \/ /\ run' = run /\ claim' = claim
            \/ /\ run[r].status = "running"
               /\ run'[r].status \in {"cancelled", "interrupted"}
               /\ run'[r].waits = run[r].waits /\ run'[r].age = 0
               /\ \A q \in Runs \ {r} : run'[q] = run[q]
               /\ claim' = claim \ {r}
               /\ r \notin cut' => \A w \in Workers : ~ On(w, r)
         /\ UNCHANGED <<conf, messages, alive, worker, starts, acts>>
<1>1. HeldBy(r) = {} => \A w \in Workers : ~ On(w, r)
  BY DEF HeldBy, On
<1>. QED
  BY <1>1, PutFacts DEF StopUnattended, SweepStale, EndedFor, RunStatus

\* A run that was cut stays so.
LEMMA CutStays == ChatTypeOK /\ [ChatNext]_chatVars => \A r \in Runs : r \notin cut' => r \notin cut
BY DEF ChatNext, Person, Sweep, Clock, Take, Work, Commit, Send, Resume, Stop, StopUnattended,
       EndedFor, Decide, DecideTooLate, CommitConfirm, CommitReject, SweepRead, SweepWrite,
       SweepStuck, SweepStale, Lapse, ClaimRunsOut, Age, FallDue, ClaimRun, Refuse, Disown,
       Beat, Answer, Break, HeedStop, EndsAs, Interrupt, Load, Act, Ask, Wait, Leave,
       WorkerLost, chatVars

\* Runs that waited are ended because of what was decided.
LEMMA ClosedEffect ==
  ASSUME ChatTypeOK, NEW cs, run' = Closed(cs)
  PROVE  \A r \in Runs :
           \/ run'[r] = run[r]
           \/ /\ run[r].status = "waiting"
              /\ run'[r].status = "cancelled" /\ run'[r].waits = run[r].waits
<1>1. \A r \in Runs :
        \/ Closed(cs)[r] = run[r]
        \/ /\ run[r].status = "waiting"
           /\ Closed(cs)[r].status = "cancelled" /\ Closed(cs)[r].waits = run[r].waits
  BY ClosedFacts
<1>. QED
  BY <1>1

LEMMA StuckEffect ==
  ASSUME ChatTypeOK, NEW r \in Runs, SweepStuck(r)
  PROVE  /\ run[r].status = "waiting"
         /\ run'[r].status = "cancelled" /\ run'[r].waits = run[r].waits
         /\ \A q \in Runs \ {r} : run'[q] = run[q]
         /\ UNCHANGED <<conf, messages, claim, alive, worker, starts, acts>>
BY PutFacts DEF SweepStuck, RunStatus

LEMMA AgeEffect ==
  ASSUME ChatTypeOK, NEW r \in Runs, Age(r)
  PROVE  /\ run[r].status = "running"
         /\ run[r].age = 0 \/ (run[r].age = 1 /\ HeldBy(r) = {})
         /\ run'[r].status = "running" /\ run'[r].waits = run[r].waits
         /\ run'[r].age = run[r].age + 1
         /\ \A q \in Runs \ {r} : run'[q] = run[q]
         /\ UNCHANGED <<conf, messages, claim, alive, worker, starts, acts>>
<1>. DEFINE a == run[r].age + 1
<1>1. run' = [run EXCEPT ![r].age = a] /\ a \in 0..2
  BY DEF Age
<1>. HIDE DEF a
<1>2. /\ run'[r].status = run[r].status /\ run'[r].waits = run[r].waits /\ run'[r].age = a
      /\ \A q \in Runs \ {r} : run'[q] = run[q]
  BY <1>1, AgeFacts
<1>. QED
  BY <1>2 DEF a, Age

LEMMA ClaimEffect ==
  ASSUME ChatTypeOK, NEW w \in Workers, NEW m \in messages, ClaimRun(w, m)
  PROVE  /\ m \in Message /\ m.run \in Runs /\ m.run \notin claim
         /\ worker[w].phase = "idle"
         /\ worker'[w].phase = "claimed" /\ worker'[w].task = m /\ worker'[w].conf = m.conf
         /\ worker'[w].sees = run[m.run].status
         /\ \A v \in Workers \ {w} : worker'[v] = worker[v]
         /\ claim' = claim \cup {m.run} /\ messages' = messages \ {m}
         /\ UNCHANGED <<run, conf, alive, starts, acts>>
<1>1. m \in Message /\ m.run \in Runs /\ run[m.run].status \in RunStatus
  BY DEF ChatTypeOK, Message, Run
<1>2. "claimed" \in Phases
  BY DEF Phases
<1>3. /\ worker'[w].phase = "claimed" /\ worker'[w].task = m /\ worker'[w].conf = m.conf
      /\ worker'[w].sees = run[m.run].status
      /\ \A v \in Workers \ {w} : worker'[v] = worker[v]
  BY <1>1, <1>2, KeepsFacts DEF ClaimRun
<1>. QED
  BY <1>1, <1>3 DEF ClaimRun, At

LEMMA RefuseEffect ==
  ASSUME ChatTypeOK, NEW w \in Workers, NEW m \in messages, Refuse(w, m)
  PROVE  /\ m \in Message /\ m.run \in Runs /\ m.run \in claim
         /\ worker[w].phase = "idle"
         /\ \/ run[m.run].status # "running" /\ worker' = worker
            \/ /\ run[m.run].status = "running"
               /\ worker'[w].phase = "refused" /\ worker'[w].task = m
               /\ \A v \in Workers \ {w} : worker'[v] = worker[v]
         /\ messages' = messages \ {m}
         /\ UNCHANGED <<run, conf, claim, alive, starts, acts>>
<1>1. m \in Message /\ m.run \in Runs
  BY DEF ChatTypeOK, Message
<1>2. "refused" \in Phases /\ "running" \in RunStatus
  BY DEF Phases, RunStatus
<1>3. ASSUME run[m.run].status = "running"
      PROVE  /\ worker'[w].phase = "refused" /\ worker'[w].task = m
             /\ \A v \in Workers \ {w} : worker'[v] = worker[v]
  BY <1>1, <1>2, <1>3, KeepsFacts DEF Refuse
<1>. QED
  BY <1>1, <1>3 DEF Refuse, At

LEMMA DisownEffect ==
  ASSUME ChatTypeOK, TaskOK, NEW w \in Workers, Disown(w)
  PROVE  \E q \in Runs :
           /\ q = RunOf(w) /\ worker[w].phase = "refused"
           /\ run'[q].status = "interrupted" /\ run'[q].waits = run[q].waits
           /\ \A r \in Runs \ {q} : run'[r] = run[r]
           /\ worker'[w].phase = "idle" /\ worker'[w].task = NoMessage
           /\ \A v \in Workers \ {w} : worker'[v] = worker[v]
           /\ UNCHANGED <<conf, messages, claim, alive, starts, acts>>
<1>1. PICK q \in Runs : q = RunOf(w)
  BY TaskType DEF Disown, At
<1>2. run' = Put(q, "interrupted") /\ worker' = [worker EXCEPT ![w] = Idle]
  BY <1>1 DEF Disown
<1>3. /\ run'[q].status = "interrupted" /\ run'[q].waits = run[q].waits
      /\ \A r \in Runs \ {q} : run'[r] = run[r]
  BY <1>2, PutFacts DEF RunStatus
<1>4. /\ worker'[w].phase = "idle" /\ worker'[w].task = NoMessage
      /\ \A v \in Workers \ {w} : worker'[v] = worker[v]
  BY <1>2, IdleFacts
<1>. QED
  BY <1>1, <1>3, <1>4 DEF Disown, At

LEMMA BeatEffect ==
  ASSUME ChatTypeOK, TaskOK, NEW w \in Workers, Beat(w)
  PROVE  \E q \in Runs :
           /\ q = RunOf(w) /\ worker[w].phase = "claimed"
           /\ run'[q].status = run[q].status /\ run'[q].waits = run[q].waits
           /\ worker[w].sees = "running" => run'[q].age = 0
           /\ worker[w].sees # "running" => run'[q].age = run[q].age
           /\ \A r \in Runs \ {q} : run'[r] = run[r]
           /\ worker'[w].phase = IF worker[w].sees # "running" THEN "leaving"
                                 ELSE IF worker[w].task.mode = "start" THEN "driving"
                                 ELSE "resuming"
           /\ worker'[w].task = worker[w].task /\ worker'[w].conf = worker[w].conf
           /\ \A v \in Workers \ {w} : worker'[v] = worker[v]
           /\ starts' = IF worker[w].sees = "running" /\ worker[w].task.mode = "start"
                        THEN [starts EXCEPT ![q] = More(@)] ELSE starts
           /\ alive' = alive \cup {q}
           /\ UNCHANGED <<conf, messages, claim, acts>>
<1>1. PICK q \in Runs : q = RunOf(w)
  BY TaskType DEF Beat, At
<1>2. /\ run'[q].status = run[q].status /\ run'[q].waits = run[q].waits
      /\ worker[w].sees = "running" => run'[q].age = 0
      /\ worker[w].sees # "running" => run'[q].age = run[q].age
      /\ \A r \in Runs \ {q} : run'[r] = run[r]
  <2>1. CASE worker[w].sees = "running"
    <3>1. run' = [run EXCEPT ![q].age = 0] /\ 0 \in 0..2
      BY <1>1, <2>1 DEF Beat
    <3>. QED
      BY <2>1, <3>1, AgeFacts
  <2>2. CASE worker[w].sees # "running"
    BY <2>2 DEF Beat
  <2>. QED
    BY <2>1, <2>2
<1>. DEFINE p == IF worker[w].sees # "running" THEN "leaving"
                 ELSE IF worker[w].task.mode = "start" THEN "driving" ELSE "resuming"
<1>3. p \in Phases /\ Goes(w, p)
  BY DEF Beat, Phases
<1>4. /\ worker'[w].phase = p /\ worker'[w].task = worker[w].task
      /\ worker'[w].conf = worker[w].conf
      /\ \A v \in Workers \ {w} : worker'[v] = worker[v]
  <2>. HIDE DEF p
  <2>. QED
    BY <1>3, GoesFacts
<1>. QED
  BY <1>1, <1>2, <1>4 DEF Beat, At

\* A worker that writes the end of its run, and has nothing left to do.
LEMMA EndsEffect ==
  ASSUME ChatTypeOK, TaskOK, NEW w \in Workers, NEW s \in Ended,
         worker[w].phase \in Drives, EndsAs(w, s)
  PROVE  \E q \in Runs :
           /\ q = RunOf(w)
           /\ run'[q].status = s /\ run'[q].waits = run[q].waits
           /\ \A r \in Runs \ {q} : run'[r] = run[r]
           /\ worker'[w].phase = "leaving" /\ worker'[w].task = worker[w].task
           /\ \A v \in Workers \ {w} : worker'[v] = worker[v]
           /\ UNCHANGED <<conf, messages, claim, alive, starts, acts>>
<1>1. PICK q \in Runs : q = RunOf(w)
  BY TaskType DEF Drives
<1>2. run' = Put(q, s) /\ s \in RunStatus
  BY <1>1 DEF EndsAs, Ended, RunStatus
<1>3. /\ run'[q].status = s /\ run'[q].waits = run[q].waits
      /\ \A r \in Runs \ {q} : run'[r] = run[r]
  BY <1>2, PutFacts
<1>4. /\ worker'[w].phase = "leaving" /\ worker'[w].task = worker[w].task
      /\ \A v \in Workers \ {w} : worker'[v] = worker[v]
  BY GoesFacts DEF EndsAs, Phases
<1>. QED
  BY <1>1, <1>3, <1>4 DEF EndsAs

LEMMA InterruptEffect ==
  ASSUME ChatTypeOK, TaskOK, NEW w \in Workers, Interrupt(w)
  PROVE  \E q \in Runs :
           /\ q = RunOf(w) /\ worker[w].phase \in Drives
           /\ run'[q].status = IF run[q].status = "running" THEN "interrupted"
                               ELSE run[q].status
           /\ run'[q].waits = run[q].waits
           /\ \A r \in Runs \ {q} : run'[r] = run[r]
           /\ worker'[w].phase = "leaving" /\ worker'[w].task = worker[w].task
           /\ \A v \in Workers \ {w} : worker'[v] = worker[v]
           /\ UNCHANGED <<conf, messages, claim, alive, starts, acts>>
<1>1. PICK q \in Runs : q = RunOf(w)
  BY TaskType DEF Interrupt, Drives
<1>2. /\ run'[q].status = IF run[q].status = "running" THEN "interrupted" ELSE run[q].status
      /\ run'[q].waits = run[q].waits
      /\ \A r \in Runs \ {q} : run'[r] = run[r]
  <2>1. CASE run[q].status = "running"
    <3>1. run' = Put(q, "interrupted") /\ "interrupted" \in RunStatus
      BY <1>1, <2>1 DEF Interrupt, RunStatus
    <3>. QED
      BY <2>1, <3>1, PutFacts
  <2>2. CASE run[q].status # "running"
    BY <1>1, <2>2 DEF Interrupt
  <2>. QED
    BY <2>1, <2>2
<1>3. /\ worker'[w].phase = "leaving" /\ worker'[w].task = worker[w].task
      /\ \A v \in Workers \ {w} : worker'[v] = worker[v]
  BY GoesFacts DEF Interrupt, Phases
<1>. QED
  BY <1>1, <1>2, <1>3 DEF Interrupt

LEMMA WaitEffect ==
  ASSUME ChatTypeOK, TaskOK, NEW w \in Workers, Wait(w)
  PROVE  \E q \in Runs :
           /\ q = RunOf(w) /\ worker[w].phase = "asked"
           /\ run'[q].status = "waiting" /\ run'[q].waits = worker[w].conf
           /\ \A r \in Runs \ {q} : run'[r] = run[r]
           /\ worker'[w].phase = "leaving" /\ worker'[w].task = worker[w].task
           /\ \A v \in Workers \ {w} : worker'[v] = worker[v]
           /\ UNCHANGED <<conf, messages, claim, alive, starts, acts>>
<1>1. PICK q \in Runs : q = RunOf(w)
  BY TaskType DEF Wait, At
<1>2. PICK c \in Confs \cup {None} : c = worker[w].conf
  BY DEF ChatTypeOK, Worker
<1>3. run' = [Put(q, "waiting") EXCEPT ![q].waits = c]
  BY <1>1, <1>2 DEF Wait
<1>4. /\ run'[q].status = "waiting" /\ run'[q].waits = c
      /\ \A r \in Runs \ {q} : run'[r] = run[r]
  BY <1>3, WaitFacts
<1>5. /\ worker'[w].phase = "leaving" /\ worker'[w].task = worker[w].task
      /\ \A v \in Workers \ {w} : worker'[v] = worker[v]
  BY GoesFacts DEF Wait, Phases
<1>. QED
  BY <1>1, <1>2, <1>4, <1>5 DEF Wait, At

LEMMA ActEffect ==
  ASSUME ChatTypeOK, TaskOK, NEW w \in Workers, Act(w)
  PROVE  /\ worker[w].phase = "acting" /\ worker[w].sees = "confirmed"
         /\ worker'[w].phase = "driving" /\ worker'[w].task = worker[w].task
         /\ worker'[w].conf = worker[w].conf
         /\ \A v \in Workers \ {w} : worker'[v] = worker[v]
         /\ \A c \in Confs :
              /\ conf'[c].status = conf[c].status /\ conf'[c].of = conf[c].of
              /\ conf'[c].deciding = conf[c].deciding
              /\ c = worker[w].conf => conf'[c].call = "succeeded" /\ Carried(c)'
              /\ c # worker[w].conf => conf'[c] = conf[c] /\ (Carried(c)' <=> Carried(c))
              /\ Carried(c) => Carried(c)'
         /\ \A c \in Confs, r \in Runs :
              acts'[c][r] = IF c = worker[w].conf /\ r = RunOf(w) THEN More(acts[c][r])
                            ELSE acts[c][r]
         /\ UNCHANGED <<run, messages, claim, alive, starts>>
<1>1. PICK d, q : d = worker[w].conf /\ q = RunOf(w)
  OBVIOUS
<1>2. q \in Runs
  BY <1>1, TaskType DEF Act, At
<1>3. conf' = [conf EXCEPT ![d].call = "succeeded"] /\ acts' = [acts EXCEPT ![d][q] = More(@)]
  BY <1>1 DEF Act
<1>4. \A c \in Confs :
        /\ conf'[c].status = conf[c].status /\ conf'[c].of = conf[c].of
        /\ conf'[c].deciding = conf[c].deciding
        /\ c = d => conf'[c].call = "succeeded"
        /\ c # d => conf'[c] = conf[c]
  <2>1. CASE d \in Confs
    BY <1>3, <2>1, CallFacts
  <2>2. CASE d \notin Confs
    BY <1>3, <2>2 DEF ChatTypeOK
  <2>. QED
    BY <2>1, <2>2
<1>5. /\ worker'[w].phase = "driving" /\ worker'[w].task = worker[w].task
      /\ worker'[w].conf = worker[w].conf
      /\ \A v \in Workers \ {w} : worker'[v] = worker[v]
  BY GoesFacts DEF Act, Phases
<1>6. /\ \A c \in Confs, r \in Runs :
           acts'[c][r] = IF c = d /\ r = q THEN More(acts[c][r]) ELSE acts[c][r]
      /\ \A c \in Confs :
           /\ Carried(c) => Carried(c)'
           /\ c = d => Carried(c)'
           /\ c # d => (Carried(c)' <=> Carried(c))
  BY <1>2, <1>3, CarriedOut
<1>7. /\ worker[w].phase = "acting" /\ worker[w].sees = "confirmed"
      /\ UNCHANGED <<run, messages, claim, alive, starts>>
  BY DEF Act, At
<1>. HIDE DEF Carried
<1>. QED
  BY <1>1, <1>4, <1>5, <1>6, <1>7

\* A worker that is through, or is lost.
LEMMA GoneEffect ==
  ASSUME ChatTypeOK, TaskOK, NEW w \in Workers, Leave(w) \/ WorkerLost(w)
  PROVE  \E q \in Runs :
           /\ q = RunOf(w) /\ worker[w].phase # "idle" /\ worker[w].task \in Message
           /\ worker'[w].phase = "idle" /\ worker'[w].task = NoMessage
           /\ \A v \in Workers \ {w} : worker'[v] = worker[v]
           /\ \/ /\ worker[w].phase = "leaving" /\ UNCHANGED messages
                 /\ alive' = alive \ {q} /\ claim' = claim \ {q}
              \/ /\ messages' = messages \cup {worker[w].task}
                 /\ UNCHANGED <<claim, alive>>
           /\ UNCHANGED <<run, conf, starts, acts>>
<1>1. PICK q \in Runs : q = RunOf(w) /\ worker[w].phase # "idle" /\ worker[w].task \in Message
  BY TaskType DEF Leave, WorkerLost, At
<1>2. /\ worker'[w].phase = "idle" /\ worker'[w].task = NoMessage
      /\ \A v \in Workers \ {w} : worker'[v] = worker[v]
  BY IdleFacts DEF Leave, WorkerLost
<1>. QED
  BY <1>1, <1>2 DEF Leave, WorkerLost, At
-----------------------------------------------------------------------------
(***************************************************************************)
(* One worker has the run.                                                 *)
(***************************************************************************)
LEMMA QuietInit == ChatInit => KeysOK /\ QuietOK
BY DEF ChatInit, KeysOK, QuietOK, QuietOf, On, Quiet, Single, Free, Idle

LEMMA QuietStep ==
  ChatTypeOK /\ TaskOK /\ KeysOK /\ QuietOK /\ [ChatNext]_chatVars
    => KeysOK' /\ QuietOK'
<1>. SUFFICES ASSUME ChatTypeOK, TaskOK, KeysOK, QuietOK, [ChatNext]_chatVars
              PROVE  KeysOK' /\ QuietOK'
  OBVIOUS
<1>0. NoMessage.run \notin Runs /\ \A r \in Runs : r \notin cut' => r \notin cut
  BY CutStays DEF NoMessage, Runs, None
<1>. USE <1>0 DEF KeysOK, QuietOK, QuietOf, On, Busy, Quiet, Single, Free, Drives, RunOf
<1>1. ASSUME NEW r \in Runs, Send(r) PROVE KeysOK' /\ QuietOK'
  <2>1. \A m, n \in messages' \ messages : m = n
    BY <1>1 DEF Send
  <2>. QED
    BY <1>1, <2>1, SendEffect DEF Ended
<1>2. ASSUME NEW r \in Runs, Resume(r) PROVE KeysOK' /\ QuietOK'
  <2>1. \A m, n \in messages' \ messages : m = n
    BY <1>2 DEF Resume
  <2>. QED
    BY <1>2, <2>1, ResumeEffect DEF Ended
<1>3. ASSUME NEW r \in Runs, StopUnattended(r) \/ SweepStale(r) PROVE KeysOK' /\ QuietOK'
  <2>1. KeysOK'
    BY <1>3, StopEffect
  <2>2. QuietOK'
    BY <1>3, StopEffect DEF Ended
  <2>. QED
    BY <2>1, <2>2
<1>4. ASSUME UNCHANGED <<run, messages, claim, alive, worker>> PROVE KeysOK' /\ QuietOK'
  BY <1>4
<1>5. ASSUME NEW cs, run' = Closed(cs), UNCHANGED <<messages, claim, alive, worker>>
      PROVE  KeysOK' /\ QuietOK'
  BY <1>5, ClosedEffect DEF Ended
<1>6. ASSUME NEW r \in Runs, SweepStuck(r) PROVE KeysOK' /\ QuietOK'
  BY <1>6, StuckEffect DEF Ended
<1>7. ASSUME NEW r \in Runs, Lapse(r) PROVE KeysOK' /\ QuietOK'
  BY <1>7 DEF Lapse, HeldBy, Phases
<1>8. ASSUME NEW r \in Runs, ClaimRunsOut(r) PROVE KeysOK' /\ QuietOK'
  BY <1>8 DEF ClaimRunsOut, HeldBy
<1>9. ASSUME NEW r \in Runs, Age(r) PROVE KeysOK' /\ QuietOK'
  BY <1>9, AgeEffect DEF HeldBy
<1>10. ASSUME NEW w \in Workers, NEW m \in messages, ClaimRun(w, m) PROVE KeysOK' /\ QuietOK'
  <2>1. m.run \notin cut => \A v \in Workers : ~ On(v, m.run)
    BY <1>10, ClaimEffect
  <2>2. KeysOK'
    BY <1>10, <2>1, ClaimEffect
  <2>3. /\ m.run \notin cut => run[m.run].status \notin {"none", "waiting"}
        /\ run[m.run].status \in RunStatus
    BY <1>10, <2>1, ClaimEffect DEF ChatTypeOK, Run
  <2>4. QuietOK'
    BY <1>10, <2>1, <2>3, ClaimEffect DEF Ended, RunStatus
  <2>. QED
    BY <2>2, <2>4
<1>11. ASSUME NEW w \in Workers, NEW m \in messages, Refuse(w, m) PROVE KeysOK' /\ QuietOK'
  <2>1. KeysOK'
    BY <1>11, RefuseEffect
  <2>2. QuietOK'
    BY <1>11, RefuseEffect
  <2>. QED
    BY <2>1, <2>2
<1>12. ASSUME NEW w \in Workers, Disown(w) PROVE KeysOK' /\ QuietOK'
  BY <1>12, DisownEffect DEF Ended
<1>13. ASSUME NEW w \in Workers, Beat(w) PROVE KeysOK' /\ QuietOK'
  <2>1. KeysOK'
    BY <1>13, BeatEffect DEF Ended
  <2>2. QuietOK'
    BY <1>13, BeatEffect DEF Ended
  <2>. QED
    BY <2>1, <2>2
\* A worker ends its run, or lets it wait.
<1>14. ASSUME NEW w \in Workers, NEW q \in Runs, q = RunOf(w), worker[w].phase \in Drives,
              run'[q].status \in Ended \cup {"waiting"},
              \A r \in Runs \ {q} : run'[r] = run[r],
              worker'[w].phase = "leaving", worker'[w].task = worker[w].task,
              \A v \in Workers \ {w} : worker'[v] = worker[v],
              UNCHANGED <<messages, claim, alive>>
       PROVE  KeysOK' /\ QuietOK'
  <2>1. KeysOK'
    BY <1>14 DEF Ended
  <2>2. q \notin cut => Quiet(q) /\ \A v \in Workers : RunOf(v) = q => v = w
    BY <1>14, TaskType DEF Phases
  <2>3. QuietOK'
    BY <1>14, <2>2 DEF Ended
  <2>. QED
    BY <2>1, <2>3
<1>15. ASSUME NEW w \in Workers, NEW s \in Ended, worker[w].phase \in Drives, EndsAs(w, s)
       PROVE  KeysOK' /\ QuietOK'
  BY <1>14, <1>15, EndsEffect
<1>16. ASSUME NEW w \in Workers, Interrupt(w) PROVE KeysOK' /\ QuietOK'
  BY <1>14, <1>16, InterruptEffect DEF Ended
<1>17. ASSUME NEW w \in Workers, Wait(w) PROVE KeysOK' /\ QuietOK'
  BY <1>14, <1>17, WaitEffect
\* A worker goes on with the run it has.
<1>18. ASSUME NEW w \in Workers, worker[w].phase \in Drives,
              worker'[w].phase \in Drives, worker'[w].task = worker[w].task,
              \A v \in Workers \ {w} : worker'[v] = worker[v],
              UNCHANGED <<run, messages, claim, alive>>
       PROVE  KeysOK' /\ QuietOK'
  BY <1>18
<1>19. ASSUME NEW w \in Workers, Load(w) PROVE KeysOK' /\ QuietOK'
  BY <1>18, <1>19, LoadFacts DEF Load, At
<1>20. ASSUME NEW w \in Workers, Act(w) PROVE KeysOK' /\ QuietOK'
  BY <1>18, <1>20, ActEffect
<1>21. ASSUME NEW w \in Workers, NEW c \in Confs, Ask(w, c) PROVE KeysOK' /\ QuietOK'
  <2>1. RunOf(w) \in Runs
    BY <1>21, TaskType DEF Ask, At
  <2>. QED
    BY <1>18, <1>21, <2>1, AskFacts DEF Ask, At
<1>22. ASSUME NEW w \in Workers, Leave(w) \/ WorkerLost(w) PROVE KeysOK' /\ QuietOK'
  <2>1. KeysOK'
    BY <1>22, GoneEffect
  <2>2. QuietOK'
    BY <1>22, GoneEffect
  <2>. QED
    BY <2>1, <2>2
<1>. QED
  <2>1. ASSUME NEW c \in Confs, Commit(c) PROVE KeysOK' /\ QuietOK'
    BY <1>4, <1>5, <2>1 DEF Commit, CommitConfirm, CommitReject
  <2>2. ASSUME Person PROVE KeysOK' /\ QuietOK'
    BY <1>1, <1>2, <1>3, <1>4, <1>5, <2>2 DEF Person, Stop, Decide, DecideTooLate
  <2>3. ASSUME Sweep PROVE KeysOK' /\ QuietOK'
    BY <1>3, <1>4, <1>5, <1>6, <2>3 DEF Sweep, SweepRead, SweepWrite
  <2>4. ASSUME Clock PROVE KeysOK' /\ QuietOK'
    BY <1>4, <1>7, <1>8, <1>9, <2>4 DEF Clock, FallDue
  <2>5. ASSUME NEW w \in Workers, Take(w) PROVE KeysOK' /\ QuietOK'
    BY <1>10, <1>11, <2>5 DEF Take
  <2>6. ASSUME NEW w \in Workers, Work(w) PROVE KeysOK' /\ QuietOK'
    <3>1. ASSUME Answer(w) \/ Break(w) \/ HeedStop(w) PROVE KeysOK' /\ QuietOK'
      BY <1>15, <3>1 DEF Answer, Break, HeedStop, At, Ended
    <3>. QED
      BY <1>12, <1>13, <1>16, <1>17, <1>19, <1>20, <1>21, <1>22, <2>6, <3>1 DEF Work
  <2>7. CASE UNCHANGED chatVars
    BY <1>4, <2>7 DEF chatVars
  <2>. QED
    BY <2>1, <2>2, <2>3, <2>4, <2>5, <2>6, <2>7 DEF ChatNext
-----------------------------------------------------------------------------
(***************************************************************************)
(* An answer is begun once.                                                *)
(***************************************************************************)
LEMMA StartsInit == ChatInit => StartsOK
<1>1. None \notin Runs
  BY DEF None, Runs
<1>. QED
  BY <1>1 DEF ChatInit, StartsOK, StartsOf, Free, Idle, NoMessage, Unbegun, Drives, RunOf

LEMMA StartsStep ==
  ChatTypeOK /\ TaskOK /\ KeysOK /\ QuietOK /\ StartsOK /\ [ChatNext]_chatVars
    => StartsOK'
<1>. SUFFICES ASSUME ChatTypeOK, TaskOK, KeysOK, QuietOK, StartsOK, [ChatNext]_chatVars
              PROVE  StartsOK'
  OBVIOUS
<1>0. /\ starts \in [Runs -> Times] /\ More(0) = 1
      /\ NoMessage.run \notin Runs
      /\ \A r \in Runs : r \notin cut' => r \notin cut
  BY CutStays DEF ChatTypeOK, NoMessage, Runs, None, More
<1>. USE <1>0 DEF KeysOK, QuietOK, QuietOf, StartsOK, StartsOf, On, Busy, Quiet, Free, Unbegun, Drives, RunOf
<1>1. ASSUME NEW r \in Runs, Send(r) PROVE StartsOK'
  BY <1>1, SendEffect
<1>2. ASSUME NEW r \in Runs, Resume(r) PROVE StartsOK'
  BY <1>2, ResumeEffect
<1>3. ASSUME NEW r \in Runs, StopUnattended(r) \/ SweepStale(r) PROVE StartsOK'
  BY <1>3, StopEffect
<1>4. ASSUME UNCHANGED <<run, messages, claim, worker, starts>>,
             \A c \in Confs : conf'[c].of = conf[c].of
      PROVE  StartsOK'
  BY <1>4
<1>5. ASSUME NEW cs, run' = Closed(cs), UNCHANGED <<messages, claim, worker, starts>>,
             \A c \in Confs : conf'[c].of = conf[c].of
      PROVE  StartsOK'
  BY <1>5, ClosedEffect
<1>6. ASSUME NEW r \in Runs, SweepStuck(r) PROVE StartsOK'
  BY <1>6, StuckEffect
<1>7. ASSUME NEW r \in Runs, ClaimRunsOut(r) PROVE StartsOK'
  BY <1>7 DEF ClaimRunsOut
<1>8. ASSUME NEW r \in Runs, Age(r) PROVE StartsOK'
  BY <1>8, AgeEffect
<1>9. ASSUME NEW w \in Workers, NEW m \in messages, ClaimRun(w, m) PROVE StartsOK'
  BY <1>9, ClaimEffect
<1>10. ASSUME NEW w \in Workers, NEW m \in messages, Refuse(w, m) PROVE StartsOK'
  BY <1>10, RefuseEffect
<1>11. ASSUME NEW w \in Workers, Disown(w) PROVE StartsOK'
  BY <1>11, DisownEffect
<1>12. ASSUME NEW w \in Workers, Beat(w) PROVE StartsOK'
  BY <1>12, BeatEffect
<1>13. ASSUME NEW w \in Workers, NEW s \in Ended, worker[w].phase \in Drives, EndsAs(w, s)
       PROVE  StartsOK'
  BY <1>13, EndsEffect DEF Ended
<1>14. ASSUME NEW w \in Workers, Interrupt(w) PROVE StartsOK'
  BY <1>14, InterruptEffect
<1>15. ASSUME NEW w \in Workers, Wait(w) PROVE StartsOK'
  BY <1>15, WaitEffect
\* A worker goes on with the run it has.
<1>16. ASSUME NEW w \in Workers, worker[w].phase \in Drives, worker'[w].phase \in Drives,
              worker'[w].task = worker[w].task,
              \A v \in Workers \ {w} : worker'[v] = worker[v],
              UNCHANGED <<run, messages, claim, starts>>,
              \A c \in Confs : conf'[c].of \in {conf[c].of, RunOf(w)}
       PROVE  StartsOK'
  <2>1. ASSUME NEW r \in Runs \ cut' PROVE StartsOf(r)'
    <3>1. starts[r] = 0 => RunOf(w) # r
      BY <1>16
    <3>. QED
      BY <1>16, <3>1
  <2>. QED
    BY <2>1
<1>17. ASSUME NEW w \in Workers, Load(w) PROVE StartsOK'
  <2>1. /\ worker[w].phase = "resuming" /\ worker'[w].phase = "acting"
        /\ worker'[w].task = worker[w].task
        /\ \A v \in Workers \ {w} : worker'[v] = worker[v]
        /\ UNCHANGED <<run, conf, messages, claim, starts>>
    BY <1>17, LoadFacts DEF Load, At
  <2>. QED
    BY <1>16, <2>1
<1>18. ASSUME NEW w \in Workers, Act(w) PROVE StartsOK'
  BY <1>16, <1>18, ActEffect
<1>19. ASSUME NEW w \in Workers, NEW c \in Confs, Ask(w, c) PROVE StartsOK'
  <2>1. RunOf(w) \in Runs /\ worker[w].phase = "driving"
        /\ UNCHANGED <<run, messages, claim, starts>>
    BY <1>19, TaskType DEF Ask, At
  <2>2. \A d \in Confs : conf'[d].of \in {conf[d].of, RunOf(w)}
    BY <1>19, <2>1, AskFacts
  <2>3. /\ worker'[w].phase = "asked" /\ worker'[w].task = worker[w].task
        /\ \A v \in Workers \ {w} : worker'[v] = worker[v]
    BY <1>19, <2>1, AskFacts
  <2>. QED
    BY <1>16, <2>1, <2>2, <2>3
<1>20. ASSUME NEW w \in Workers, Leave(w) \/ WorkerLost(w) PROVE StartsOK'
  BY <1>20, GoneEffect
<1>. QED
  <2>1. ASSUME NEW c \in Confs, Commit(c) PROVE StartsOK'
    <3>1. CASE CommitConfirm(c)
      <4>1. \A d \in Confs : conf'[d].of = conf[d].of
        BY <3>1, CommitFacts DEF CommitConfirm
      <4>. QED
        BY <1>4, <3>1, <4>1 DEF CommitConfirm
    <3>2. CASE CommitReject(c)
      <4>1. \A d \in Confs : conf'[d].of = conf[d].of
        BY <3>2, CommitFacts DEF CommitReject
      <4>. QED
        BY <1>5, <3>2, <4>1 DEF CommitReject
    <3>. QED
      BY <2>1, <3>1, <3>2 DEF Commit
  <2>2. ASSUME NEW c \in Confs, NEW d \in {"confirm", "reject"}, Decide(c, d) PROVE StartsOK'
    <3>1. \A e \in Confs : conf'[e].of = conf[e].of
      BY <2>2, DecideFacts
    <3>. QED
      BY <1>4, <2>2, <3>1 DEF Decide
  <2>3. ASSUME NEW c \in Confs, DecideTooLate(c) PROVE StartsOK'
    <3>1. \A e \in Confs : conf'[e].of = conf[e].of
      BY <2>3, ExpiredFacts DEF DecideTooLate
    <3>. QED
      BY <1>5, <2>3, <3>1 DEF DecideTooLate
  <2>4. ASSUME Person PROVE StartsOK'
    BY <1>1, <1>2, <1>3, <1>4, <2>2, <2>3, <2>4 DEF Person, Stop
  <2>5. ASSUME Sweep PROVE StartsOK'
    <3>1. ASSUME SweepWrite PROVE StartsOK'
      <4>1. \A e \in Confs : conf'[e].of = conf[e].of
        BY <3>1, ExpiredFacts DEF SweepWrite
      <4>. QED
        BY <1>5, <3>1, <4>1 DEF SweepWrite
    <3>. QED
      BY <1>3, <1>4, <1>6, <2>5, <3>1 DEF Sweep, SweepRead
  <2>6. ASSUME Clock PROVE StartsOK'
    <3>1. ASSUME NEW c \in Confs, FallDue(c) PROVE StartsOK'
      <4>1. \A e \in Confs : conf'[e].of = conf[e].of
        BY <3>1, FallDueFacts
      <4>. QED
        BY <1>4, <3>1, <4>1 DEF FallDue
    <3>. QED
      BY <1>4, <1>7, <1>8, <2>6, <3>1 DEF Clock, Lapse
  <2>7. ASSUME NEW w \in Workers, Take(w) PROVE StartsOK'
    BY <1>9, <1>10, <2>7 DEF Take
  <2>8. ASSUME NEW w \in Workers, Work(w) PROVE StartsOK'
    <3>1. ASSUME Answer(w) \/ Break(w) \/ HeedStop(w) PROVE StartsOK'
      BY <1>13, <3>1 DEF Answer, Break, HeedStop, At, Ended
    <3>. QED
      BY <1>11, <1>12, <1>14, <1>15, <1>17, <1>18, <1>19, <1>20, <2>8, <3>1 DEF Work
  <2>9. CASE UNCHANGED chatVars
    BY <1>4, <2>9 DEF chatVars
  <2>. QED
    BY <2>1, <2>4, <2>5, <2>6, <2>7, <2>8, <2>9 DEF ChatNext
-----------------------------------------------------------------------------
(***************************************************************************)
(* A confirmed action is carried out once.                                 *)
(***************************************************************************)
LEMMA ConfInit == ChatInit => ConfOK /\ ActOK /\ UndoneYet /\ ActionOnce
BY DEF ChatInit, ConfOK, ConfOf, Carried, ActOK, UndoneYet, Acting, ActionOnce, Idle

ConfStepGoal == ConfOK' /\ ActOK' /\ UndoneYet' /\ ActionOnce'

LEMMA ConfStep ==
  ChatTypeOK /\ TaskOK /\ KeysOK /\ ConfOK /\ ActOK /\ UndoneYet /\ ActionOnce
  /\ [ChatNext]_chatVars => ConfStepGoal
<1>. SUFFICES ASSUME ChatTypeOK, TaskOK, KeysOK, ConfOK, ActOK, UndoneYet, ActionOnce,
                     [ChatNext]_chatVars
              PROVE  ConfStepGoal
  OBVIOUS
<1>0. /\ \A c \in Confs, r \in Runs : acts[c][r] \in Times
      /\ More(0) = 1
      /\ \A w \in Workers : worker[w].conf \in Confs \cup {None}
      /\ None \notin Confs
      /\ \A r \in Runs : r \notin cut' => r \notin cut
  BY CutStays DEF ChatTypeOK, Worker, None, Confs, More
<1>. USE <1>0 DEF ConfStepGoal, ConfOK, ConfOf, ActOK, UndoneYet, ActionOnce, Carried, RunOf
\* Steps that take up no action.
<1>1. ASSUME UNCHANGED <<conf, acts>>,
             \A v \in Workers : Acting(v)' => /\ Acting(v) /\ worker'[v].conf = worker[v].conf
                                            /\ worker'[v].task = worker[v].task
      PROVE  ConfStepGoal
  BY <1>1
\* Decisions.
<1>2. ASSUME NEW c \in Confs, NEW d \in {"confirm", "reject"}, Decide(c, d) PROVE ConfStepGoal
  <2>1. /\ conf[c].status = "pending" /\ UNCHANGED <<acts, worker>>
        /\ conf'[c].status = conf[c].status /\ conf'[c].call = conf[c].call
        /\ conf'[c].of = conf[c].of
        /\ \A e \in Confs \ {c} : conf'[e] = conf[e]
    BY <1>2, DecideFacts DEF Decide
  <2>. QED
    BY <2>1 DEF Acting
<1>3. ASSUME NEW c \in Confs, Commit(c) PROVE ConfStepGoal
  <2>1. /\ conf[c].status = "pending" /\ UNCHANGED <<acts, worker>>
        /\ conf'[c].status = conf'[c].call /\ conf'[c].call \in {"confirmed", "rejected"}
        /\ conf'[c].of = conf[c].of /\ conf'[c].deciding = "no"
        /\ \A e \in Confs \ {c} : conf'[e] = conf[e]
    BY <1>3, CommitFacts DEF Commit, CommitConfirm, CommitReject
  <2>. QED
    BY <2>1 DEF Acting
<1>4. ASSUME NEW cs, conf' = Expired(cs), UNCHANGED <<acts, worker>>,
             \A c \in Confs : c \in cs => conf[c].deciding = "no"
      PROVE  ConfStepGoal
  <2>1. \A c \in Confs :
              /\ conf'[c].of = conf[c].of
              /\ c \notin cs => conf'[c] = conf[c]
              /\ c \in cs => /\ conf'[c].status = "expired"
                             /\ conf'[c].deciding = conf[c].deciding
                             /\ conf[c].call # "required" => conf'[c].call = conf[c].call
                             /\ conf[c].call = "required" => conf'[c].call = "failed"
    BY <1>4, ExpiredFacts
  <2>. QED
    BY <1>4, <2>1 DEF Acting
<1>5. ASSUME NEW c \in Confs, FallDue(c) PROVE ConfStepGoal
  <2>1. UNCHANGED <<acts, worker>>
    BY <1>5 DEF FallDue
  <2>. QED
    BY <1>5, <2>1, FallDueFacts DEF Acting
\* Workers.
<1>6. ASSUME NEW w \in Workers, Load(w) PROVE ConfStepGoal
  <2>1. /\ worker'[w].conf = worker[w].conf /\ worker'[w].task = worker[w].task
        /\ worker'[w].sees = IF conf[worker[w].conf].call = "confirmed"
                             THEN "confirmed" ELSE "none"
        /\ \A v \in Workers \ {w} : worker'[v] = worker[v]
    BY <1>6, LoadFacts
  <2>2. /\ UNCHANGED <<conf, acts>> /\ worker[w].conf \in Confs
        /\ conf[worker[w].conf].status = "confirmed"
    BY <1>6 DEF Load
  <2>3. worker'[w].sees = "confirmed" =>
          \A r \in Runs : acts[worker[w].conf][r] = 0
    <3>1. worker'[w].sees = "confirmed" => conf[worker[w].conf].call = "confirmed"
      BY <2>1
    <3>2. \A n \in Times : ~(n > 0) => n = 0
      BY DEF Times
    <3>. QED
      BY <2>2, <3>1, <3>2
  <2>. QED
    BY <2>1, <2>2, <2>3 DEF Acting
<1>7. ASSUME NEW w \in Workers, Act(w) PROVE ConfStepGoal
  <2>1. Acting(w) /\ ~Acting(w)' /\ \A v \in Workers \ {w} : worker'[v] = worker[v]
    BY <1>7, ActEffect DEF Acting
  <2>2. \A c \in Confs :
              /\ conf'[c].status = conf[c].status /\ conf'[c].of = conf[c].of
              /\ conf'[c].deciding = conf[c].deciding
              /\ c = worker[w].conf => conf'[c].call = "succeeded"
              /\ c # worker[w].conf => conf'[c] = conf[c] /\ (Carried(c)' <=> Carried(c))
    BY <1>7, ActEffect
  <2>3. \A c \in Confs, r \in Runs :
          acts'[c][r] = IF c = worker[w].conf /\ r = RunOf(w) THEN More(acts[c][r]) ELSE acts[c][r]
    BY <1>7, ActEffect
  <2>4. ConfOK' /\ ActOK'
    <3>. HIDE DEF Carried
    <3>. QED
      BY <2>1, <2>2 DEF Acting
  <2>5. \A v \in Workers \ {w} : Acting(v) /\ RunOf(v) \in Runs \ cut => RunOf(v) # RunOf(w)
    BY <2>1 DEF Acting, KeysOK, On
  <2>6. UndoneYet'
    BY <2>1, <2>3, <2>5 DEF Acting
  <2>7. ActionOnce'
    <3>. SUFFICES ASSUME NEW c \in Confs, NEW r \in Runs \ cut' PROVE acts'[c][r] <= 1
      OBVIOUS
    <3>1. CASE c = worker[w].conf /\ r = RunOf(w)
      BY <2>1, <2>3, <3>1
    <3>2. CASE ~(c = worker[w].conf /\ r = RunOf(w))
      BY <2>3, <3>2
    <3>. QED
      BY <3>1, <3>2
  <2>. QED
    BY <2>4, <2>6, <2>7
<1>8. ASSUME NEW w \in Workers, NEW c \in Confs, Ask(w, c) PROVE ConfStepGoal
  <2>1. RunOf(w) \in Runs /\ UNCHANGED acts
    BY <1>8, TaskType DEF Ask, At
  <2>2. /\ conf'[c].status = "pending" /\ conf'[c].call = "required"
        /\ \/ conf[c].status = "none" /\ conf'[c].deciding = "no"
           \/ conf[c].status = "pending" /\ conf' = conf
        /\ \A e \in Confs \ {c} : conf'[e] = conf[e]
        /\ ~Acting(w)'
        /\ \A v \in Workers \ {w} : worker'[v] = worker[v]
    BY <1>8, <2>1, AskFacts DEF Acting
  <2>3. ~Carried(c)
    BY <2>2
  <2>. QED
    BY <2>1, <2>2, <2>3 DEF Acting
<1>9. ASSUME NEW w \in Workers, ~Acting(w)', UNCHANGED <<conf, acts>>,
             \A v \in Workers \ {w} : worker'[v] = worker[v]
      PROVE  ConfStepGoal
  BY <1>1, <1>9 DEF Acting
<1>. QED
  <2>1. ASSUME UNCHANGED <<conf, acts, worker>> PROVE ConfStepGoal
    BY <1>1, <2>1 DEF Acting
  <2>2. ASSUME Person PROVE ConfStepGoal
    <3>1. ASSUME NEW c \in Confs, DecideTooLate(c) PROVE ConfStepGoal
      <4>1. PICK cs : cs = {c}
        OBVIOUS
      <4>2. /\ conf' = Expired(cs) /\ UNCHANGED <<acts, worker>>
            /\ \A d \in Confs : d \in cs => conf[d].deciding = "no"
        BY <3>1, <4>1 DEF DecideTooLate
      <4>. QED
        BY <1>4, <4>2
    <3>. QED
      BY <1>2, <2>1, <2>2, <3>1 DEF Person, Send, Resume, Stop, StopUnattended
  <2>3. ASSUME Sweep PROVE ConfStepGoal
    BY <1>4, <2>1, <2>3 DEF Sweep, SweepRead, SweepWrite, SweepStuck, SweepStale
  <2>4. ASSUME Clock PROVE ConfStepGoal
    BY <1>5, <2>1, <2>4 DEF Clock, Lapse, ClaimRunsOut, Age
  <2>5. ASSUME NEW w \in Workers, Take(w) PROVE ConfStepGoal
    <3>1. PICK m \in messages : ClaimRun(w, m) \/ Refuse(w, m)
      BY <2>5 DEF Take
    <3>2. CASE ClaimRun(w, m)
      BY <1>9, <3>2, ClaimEffect DEF Acting
    <3>3. CASE Refuse(w, m)
      BY <1>9, <2>1, <3>3, RefuseEffect DEF Acting
    <3>. QED
      BY <3>1, <3>2, <3>3
  <2>6. ASSUME NEW w \in Workers, Work(w) PROVE ConfStepGoal
    <3>1. ASSUME NEW s \in Ended, worker[w].phase \in Drives, EndsAs(w, s) PROVE ConfStepGoal
      <4>1. /\ ~Acting(w)' /\ UNCHANGED <<conf, acts>>
            /\ \A v \in Workers \ {w} : worker'[v] = worker[v]
        BY <3>1, EndsEffect DEF Acting
      <4>. QED
        BY <1>9, <4>1
    <3>2. CASE Answer(w) \/ Break(w) \/ HeedStop(w)
      BY <3>1, <3>2 DEF Answer, Break, HeedStop, At, Ended, Drives
    <3>3. CASE Disown(w) \/ Beat(w) \/ Interrupt(w) \/ Wait(w) \/ Leave(w) \/ WorkerLost(w)
      <4>1. /\ ~Acting(w)' /\ UNCHANGED <<conf, acts>>
            /\ \A v \in Workers \ {w} : worker'[v] = worker[v]
        BY <3>3, DisownEffect, BeatEffect, InterruptEffect, WaitEffect, GoneEffect DEF Acting
      <4>. QED
        BY <1>9, <4>1
    <3>. QED
      BY <1>6, <1>7, <1>8, <2>6, <3>2, <3>3 DEF Work
  <2>7. CASE UNCHANGED chatVars
    BY <2>1, <2>7 DEF chatVars
  <2>. QED
    BY <1>3, <2>2, <2>3, <2>4, <2>5, <2>6, <2>7 DEF ChatNext
-----------------------------------------------------------------------------
(***************************************************************************)
(* Nothing that was approved is left out.                                  *)
(***************************************************************************)
LEMMA DoneInit == ChatInit => DoneOK
<1>1. None \notin Runs
  BY DEF None, Runs
<1>. QED
  BY <1>1 DEF ChatInit, DoneOK, DoneOf, But, Idle, NoMessage, RunOf

\* Every confirmation stays with the run that asked, and done if it was.
Firm == \A c \in Confs : conf'[c].of = conf[c].of /\ (Done(c) => Done(c)')

LEMMA FirmStep ==
  ChatTypeOK /\ TaskOK /\ ConfOK /\ ActOK /\ [ChatNext]_chatVars
    => Firm \/ \E w \in Workers, c \in Confs : Ask(w, c)
<1>. SUFFICES ASSUME ChatTypeOK, TaskOK, ConfOK, ActOK, [ChatNext]_chatVars,
                     ~ \E w \in Workers, c \in Confs : Ask(w, c)
              PROVE  Firm
  OBVIOUS
<1>. USE DEF Firm, Done
<1>0. acts' = acts => \A c \in Confs : (Carried(c)' <=> Carried(c))
  BY DEF Carried
<1>1. ASSUME UNCHANGED <<conf, acts>> PROVE Firm
  BY <1>0, <1>1
<1>2. ASSUME NEW c \in Confs, NEW d \in {"confirm", "reject"}, Decide(c, d) PROVE Firm
  <2>1. /\ UNCHANGED acts
        /\ conf'[c].status = conf[c].status /\ conf'[c].of = conf[c].of
        /\ \A e \in Confs \ {c} : conf'[e] = conf[e]
    BY <1>2, DecideFacts DEF Decide
  <2>. QED
    BY <1>0, <2>1
<1>3. ASSUME NEW c \in Confs, Commit(c) PROVE Firm
  <2>1. /\ conf[c].status = "pending" /\ UNCHANGED acts
        /\ conf'[c].of = conf[c].of
        /\ \A e \in Confs \ {c} : conf'[e] = conf[e]
    BY <1>3, CommitFacts DEF Commit, CommitConfirm, CommitReject, ConfOK, ConfOf
  <2>. QED
    BY <1>0, <2>1
<1>4. ASSUME NEW cs, conf' = Expired(cs), UNCHANGED acts PROVE Firm
  <2>1. \A c \in Confs : /\ conf'[c].of = conf[c].of
                         /\ c \notin cs => conf'[c] = conf[c]
                         /\ c \in cs => conf'[c].status = "expired"
    BY <1>4, ExpiredFacts
  <2>. QED
    BY <1>0, <1>4, <2>1
<1>5. ASSUME NEW c \in Confs, FallDue(c) PROVE Firm
  <2>1. UNCHANGED acts
    BY <1>5 DEF FallDue
  <2>. QED
    BY <1>0, <1>5, <2>1, FallDueFacts
<1>6. ASSUME NEW w \in Workers, Act(w) PROVE Firm
  BY <1>6, ActEffect
<1>. QED
  <2>1. ASSUME Person PROVE Firm
    BY <1>1, <1>2, <1>4, <2>1 DEF Person, Send, Resume, Stop, StopUnattended, DecideTooLate
  <2>2. ASSUME Sweep PROVE Firm
    BY <1>1, <1>4, <2>2 DEF Sweep, SweepRead, SweepWrite, SweepStuck, SweepStale
  <2>3. ASSUME Clock PROVE Firm
    BY <1>1, <1>5, <2>3 DEF Clock, Lapse, ClaimRunsOut, Age
  <2>4. ASSUME NEW w \in Workers, Take(w) PROVE Firm
    BY <1>1, <2>4 DEF Take, ClaimRun, Refuse
  <2>5. ASSUME NEW w \in Workers, Work(w) PROVE Firm
    <3>1. Work(w) => Act(w) \/ UNCHANGED <<conf, acts>> \/ \E c \in Confs : Ask(w, c)
      BY DEF Work, Disown, Beat, Answer, Break, HeedStop, Interrupt, Load, Wait, Leave,
             WorkerLost, EndsAs
    <3>. QED
      BY <1>1, <1>6, <2>5, <3>1
  <2>6. CASE UNCHANGED chatVars
    BY <1>1, <2>6 DEF chatVars
  <2>. QED
    BY <1>3, <2>1, <2>2, <2>3, <2>4, <2>5, <2>6 DEF ChatNext

LEMMA DoneStep ==
  ASSUME ChatTypeOK, TaskOK, KeysOK, QuietOK, StartsOK, ConfOK, ActOK, DoneOK,
         [ChatNext]_chatVars
  PROVE  DoneOK'
<1>0. /\ NoMessage.run \notin Runs
      /\ \A r \in Runs : r \notin cut' => r \notin cut
      /\ None \notin Confs
  BY CutStays DEF NoMessage, Runs, None, Confs
<1>. USE <1>0 DEF KeysOK, QuietOK, QuietOf, StartsOK, StartsOf, On, Busy, Quiet, Free, Unbegun,
                  Drives, RunOf, DoneOK, DoneOf, But
<1>1. ASSUME NEW r \in Runs, Send(r), Firm PROVE DoneOK'
  BY <1>1, SendEffect DEF Firm
<1>2. ASSUME NEW r \in Runs, Resume(r), Firm PROVE DoneOK'
  BY <1>2, ResumeEffect DEF Firm
<1>3. ASSUME NEW r \in Runs, StopUnattended(r) \/ SweepStale(r), Firm PROVE DoneOK'
  BY <1>3, StopEffect DEF Firm
<1>4. ASSUME UNCHANGED <<run, messages, claim, worker>>, Firm
      PROVE  DoneOK'
  BY <1>4 DEF Firm
<1>5. ASSUME NEW cs, run' = Closed(cs), UNCHANGED <<messages, claim, worker>>, Firm
      PROVE  DoneOK'
  BY <1>5, ClosedEffect DEF Firm
<1>6. ASSUME NEW r \in Runs, SweepStuck(r), Firm PROVE DoneOK'
  BY <1>6, StuckEffect DEF Firm
<1>7. ASSUME NEW r \in Runs, ClaimRunsOut(r), Firm PROVE DoneOK'
  BY <1>7 DEF ClaimRunsOut, Firm
<1>8. ASSUME NEW r \in Runs, Age(r), Firm PROVE DoneOK'
  BY <1>8, AgeEffect DEF Firm
<1>9. ASSUME NEW w \in Workers, NEW m \in messages, ClaimRun(w, m), Firm PROVE DoneOK'
  BY <1>9, ClaimEffect DEF Firm
<1>10. ASSUME NEW w \in Workers, NEW m \in messages, Refuse(w, m), Firm PROVE DoneOK'
  BY <1>10, RefuseEffect DEF Firm
<1>11. ASSUME NEW w \in Workers, Disown(w), Firm PROVE DoneOK'
  BY <1>11, DisownEffect DEF Firm
<1>12. ASSUME NEW w \in Workers, Beat(w), Firm PROVE DoneOK'
  BY <1>12, BeatEffect DEF Firm
<1>13. ASSUME NEW w \in Workers, NEW s \in Ended, worker[w].phase \in Drives, EndsAs(w, s),
              s = "succeeded" => worker[w].phase = "driving", Firm
       PROVE  DoneOK'
  BY <1>13, EndsEffect DEF Ended, Firm
<1>14. ASSUME NEW w \in Workers, Interrupt(w), Firm PROVE DoneOK'
  BY <1>14, InterruptEffect DEF Firm
<1>15. ASSUME NEW w \in Workers, Wait(w), Firm PROVE DoneOK'
  BY <1>15, WaitEffect DEF Firm
\* A worker goes on with the run it has.
<1>16. ASSUME NEW w \in Workers, Load(w), Firm PROVE DoneOK'
  <2>1. /\ worker[w].phase = "resuming" /\ worker'[w].phase = "acting"
        /\ worker'[w].task = worker[w].task /\ worker'[w].conf = worker[w].conf
        /\ \A v \in Workers \ {w} : worker'[v] = worker[v]
        /\ UNCHANGED <<run, messages, claim>>
    BY <1>16, LoadFacts DEF Load, At
  <2>. QED
    BY <1>16, <2>1 DEF Firm
<1>17. ASSUME NEW w \in Workers, Act(w), Firm PROVE DoneOK'
  <2>1. /\ worker[w].phase = "acting" /\ worker'[w].phase = "driving"
        /\ worker'[w].task = worker[w].task
        /\ \A v \in Workers \ {w} : worker'[v] = worker[v]
        /\ UNCHANGED <<run, messages, claim>>
    BY <1>17, ActEffect
  <2>2. PICK c \in Confs : c = worker[w].conf
    BY <1>17, ActEffect DEF ActOK, Acting
  <2>3. Done(c)'
    <3>1. conf[c].status \in {"confirmed", "expired"} /\ conf'[c].status = conf[c].status
          /\ Carried(c)'
      BY <1>17, <2>2, ActEffect DEF ActOK, Acting
    <3>. QED
      BY <3>1 DEF Done
  <2>4. \A r \in Runs : /\ But(r, c) => But(r, None)'
                      /\ \A d \in Confs \cup {None} : But(r, d) => But(r, d)'
    BY <1>17, <2>3 DEF Firm
  <2>5. ASSUME NEW r \in Runs \ cut' PROVE DoneOf(r)'
    <3>1. CASE r = RunOf(w)
      <4>1. run[r].status = "running" /\ Quiet(r) /\ \A v \in Workers : RunOf(v) = r => v = w
        BY <2>1, <3>1, TaskType DEF Phases
      <4>. QED
        BY <2>1, <2>2, <2>4, <3>1, <4>1
    <3>2. CASE r # RunOf(w)
      BY <1>17, <2>1, <3>2 DEF Firm
    <3>. QED
      BY <3>1, <3>2
  <2>. QED
    BY <2>5
<1>18. ASSUME NEW w \in Workers, NEW c \in Confs, Ask(w, c) PROVE DoneOK'
  <2>1. PICK q \in Runs : q = RunOf(w)
    BY <1>18, TaskType DEF Ask, At
  <2>2. worker[w].phase = "driving" /\ UNCHANGED <<run, messages, claim, acts>>
    BY <1>18 DEF Ask, At
  <2>3. /\ worker'[w].phase = "asked" /\ worker'[w].task = worker[w].task
        /\ worker'[w].conf = c
        /\ \A v \in Workers \ {w} : worker'[v] = worker[v]
    BY <1>18, <2>1, AskFacts
  <2>4. \A e \in Confs \ {c} : conf'[e] = conf[e]
    BY <1>18, <2>1, AskFacts
  <2>5. (conf[c].status = "none" /\ conf'[c].of = q) \/ conf' = conf
    BY <1>18, <2>1, AskFacts
  <2>6. \A d \in Confs \cup {None} :
          /\ But(q, None) => But(q, c)'
          /\ \A r \in Runs \ {q} : But(r, d) => But(r, d)'
    BY <2>2, <2>4, <2>5 DEF Done, Carried
  <2>7. ASSUME NEW r \in Runs \ cut' PROVE DoneOf(r)'
    <3>1. CASE r = q
      <4>1. run[q].status = "running" /\ Quiet(q) /\ \A v \in Workers : RunOf(v) = q => v = w
        BY <2>1, <2>2, <3>1, TaskType DEF Phases
      <4>. QED
        BY <2>1, <2>2, <2>3, <2>6, <3>1, <4>1
    <3>2. CASE r # q
      BY <2>1, <2>2, <2>3, <2>4, <2>5, <3>2 DEF Done, Carried
    <3>. QED
      BY <3>1, <3>2
  <2>. QED
    BY <2>7
<1>19. ASSUME NEW w \in Workers, Leave(w) \/ WorkerLost(w), Firm PROVE DoneOK'
  BY <1>19, GoneEffect DEF Firm
<1>. QED
  <2>1. CASE Firm
    <3>1. ASSUME NEW c \in Confs, Commit(c) PROVE DoneOK'
      BY <1>4, <1>5, <2>1, <3>1 DEF Commit, CommitConfirm, CommitReject
    <3>2. ASSUME Person PROVE DoneOK'
      BY <1>1, <1>2, <1>3, <1>4, <1>5, <2>1, <3>2 DEF Person, Stop, Decide, DecideTooLate
    <3>3. ASSUME Sweep PROVE DoneOK'
      BY <1>3, <1>4, <1>5, <1>6, <2>1, <3>3 DEF Sweep, SweepRead, SweepWrite
    <3>4. ASSUME Clock PROVE DoneOK'
      BY <1>4, <1>7, <1>8, <2>1, <3>4 DEF Clock, Lapse, FallDue
    <3>5. ASSUME NEW w \in Workers, Take(w) PROVE DoneOK'
      BY <1>9, <1>10, <2>1, <3>5 DEF Take
    <3>6. ASSUME NEW w \in Workers, Work(w) PROVE DoneOK'
      <4>1. ASSUME Answer(w) \/ Break(w) \/ HeedStop(w) PROVE DoneOK'
        BY <1>13, <2>1, <4>1 DEF Answer, Break, HeedStop, At, Ended
      <4>. QED
        BY <1>11, <1>12, <1>14, <1>15, <1>16, <1>17, <1>18, <1>19, <2>1, <3>6, <4>1 DEF Work
    <3>7. CASE UNCHANGED chatVars
      BY <1>4, <2>1, <3>7 DEF chatVars
    <3>. QED
      BY <3>1, <3>2, <3>3, <3>4, <3>5, <3>6, <3>7 DEF ChatNext
  <2>2. CASE \E w \in Workers, c \in Confs : Ask(w, c)
    BY <1>18, <2>2
  <2>. QED
    BY <2>1, <2>2, FirmStep
-----------------------------------------------------------------------------
(***************************************************************************)
(* The theorems of the chat.  What they say of a run holds unless it was   *)
(* ended, by Stop or by the sweep, under a worker that had it; in the same *)
(* chat any other run may have been.                                       *)
(***************************************************************************)
LEMMA ChatInvariance == ChatSpec => []Kept
<1>1. ChatInit => Kept
  <2>1. ChatInit => TaskOK
    BY DEF ChatInit, TaskOK, Idle
  <2>. QED
    BY <2>1, ChatTypeInit, QuietInit, StartsInit, ConfInit, DoneInit DEF Kept
<1>2. Kept /\ [ChatNext]_chatVars => Kept'
  BY ChatTypeStep, QuietStep, StartsStep, ConfStep, DoneStep DEF Kept, ConfStepGoal
<1>. QED
  BY <1>1, <1>2, PTL DEF ChatSpec

\* An answer that may have used its tools is begun once, whatever is lost and
\* delivered again, for any number of workers, questions and confirmations.
THEOREM BegunOnce == ChatSpec => []AnsweredOnce
<1>1. Kept => AnsweredOnce
  BY DEF Kept, StartsOK, StartsOf, AnsweredOnce
<1>. QED
  BY <1>1, ChatInvariance, PTL

\* What was rejected is never carried out, and a run that says that it succeeded
\* has carried out every action of its own that was approved.
THEOREM DoneAsDecided == ChatSpec => []DecisionsHonoured
<1>1. Kept => DecisionsHonoured
  <2>. SUFFICES ASSUME Kept, NEW c \in Confs
                PROVE  /\ conf[c].status = "rejected" => ~Carried(c)
                       /\ conf[c].status = "confirmed" /\ conf[c].of \in Runs \ cut
                          /\ run[conf[c].of].status = "succeeded" => Carried(c)
    BY DEF DecisionsHonoured
  <2>1. c # None
    BY DEF Confs, None
  <2>2. conf[c].status = "rejected" => ~Carried(c)
    BY DEF Kept, ConfOK, ConfOf
  <2>3. conf[c].status = "confirmed" /\ conf[c].of \in Runs \ cut
        /\ run[conf[c].of].status = "succeeded" => Carried(c)
    BY <2>1 DEF Kept, DoneOK, DoneOf, But, Done
  <2>. QED
    BY <2>2, <2>3
<1>. QED
  BY <1>1, ChatInvariance, PTL

\* Who writes a row by its key finds the run running.
LEMMA EndedStep ==
  Kept /\ [ChatNext]_chatVars =>
    \A r \in Runs \ cut' : run[r].status \in Ended => run'[r].status \in Ended \ {"succeeded"}
                                               \/ run'[r].status = run[r].status
<1>. SUFFICES ASSUME Kept, [ChatNext]_chatVars, NEW r \in Runs \ cut', run[r].status \in Ended
              PROVE  run'[r].status \in Ended \ {"succeeded"} \/ run'[r].status = run[r].status
  OBVIOUS
<1>. DEFINE Goal == run'[r].status \in Ended \ {"succeeded"} \/ run'[r].status = run[r].status
<1>0. ChatTypeOK /\ TaskOK /\ QuietOf(r)
  BY CutStays DEF Kept, QuietOK
<1>1. ASSUME run' = run PROVE Goal
  BY <1>1
<1>2. ASSUME NEW q \in Runs, Send(q) \/ Resume(q) \/ StopUnattended(q) \/ SweepStuck(q)
                             \/ SweepStale(q) \/ Age(q)
      PROVE  Goal
  BY <1>0, <1>2, SendEffect, ResumeEffect, StopEffect, StuckEffect, AgeEffect DEF Ended
<1>3. ASSUME NEW cs, run' = Closed(cs) PROVE Goal
  BY <1>0, <1>3, ClosedEffect DEF Ended
<1>4. ASSUME NEW w \in Workers, Work(w) PROVE Goal
  <2>1. ASSUME worker[w].phase \in Drives PROVE RunOf(w) # r
    BY <1>0, <2>1 DEF QuietOf, On, Busy, Ended, Drives
  <2>2. CASE Disown(w) \/ Beat(w) \/ Leave(w) \/ WorkerLost(w)
    BY <1>0, <2>2, DisownEffect, BeatEffect, GoneEffect DEF Ended
  <2>3. ASSUME NEW s \in Ended, worker[w].phase \in Drives, EndsAs(w, s) PROVE Goal
    BY <1>0, <2>1, <2>3, EndsEffect
  <2>4. CASE Answer(w) \/ Break(w) \/ HeedStop(w)
    BY <2>3, <2>4 DEF Answer, Break, HeedStop, At, Ended, Drives
  <2>5. CASE Interrupt(w) \/ Wait(w)
    BY <1>0, <2>1, <2>5, InterruptEffect, WaitEffect DEF Drives
  <2>6. CASE Load(w) \/ Act(w) \/ \E c \in Confs : Ask(w, c)
    BY <1>1, <2>6 DEF Load, Act, Ask
  <2>. QED
    BY <1>4, <2>2, <2>4, <2>5, <2>6 DEF Work
<1>. HIDE DEF Goal
<1>5. ASSUME Person PROVE Goal
  BY <1>1, <1>2, <1>3, <1>5 DEF Person, Stop, Decide, DecideTooLate
<1>6. ASSUME NEW c \in Confs, Commit(c) PROVE Goal
  BY <1>1, <1>3, <1>6 DEF Commit, CommitConfirm, CommitReject
<1>7. ASSUME Sweep PROVE Goal
  BY <1>1, <1>2, <1>3, <1>7 DEF Sweep, SweepRead, SweepWrite
<1>8. ASSUME Clock PROVE Goal
  BY <1>1, <1>2, <1>8 DEF Clock, Lapse, ClaimRunsOut, FallDue
<1>9. ASSUME NEW w \in Workers, Take(w) PROVE Goal
  BY <1>1, <1>9 DEF Take, ClaimRun, Refuse
<1>10. CASE UNCHANGED chatVars
  BY <1>1, <1>10 DEF chatVars
<1>. QED
  BY <1>4, <1>5, <1>6, <1>7, <1>8, <1>9, <1>10 DEF ChatNext, Goal

\* A run that was stopped or given up does not come to answer after all.
THEOREM EndedForGood == ChatSpec => EndedStays
<1>. QED
  BY ChatInvariance, EndedStep, PTL DEF ChatSpec, EndedStays

\* A run carries a confirmed action out at most once, also where two runs wait for
\* the confirmation of the same call.
THEOREM DoneOnce == ChatSpec => []ActionOnce
<1>1. Kept => ActionOnce
  BY DEF Kept
<1>. QED
  BY <1>1, ChatInvariance, PTL
=============================================================================
