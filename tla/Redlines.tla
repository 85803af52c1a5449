------------------------------ MODULE Redlines ------------------------------
(***************************************************************************)
(* The versions of one contract's text and the changes suggested to it     *)
(* (app/contract_files, with the issues of app/playbooks).  A playbook     *)
(* review, the assistant or a person suggests changes to the text that is  *)
(* current when they start.  Reviewers accept and reject them one by one;  *)
(* deciding the last one suggested on the current text makes a new version *)
(* from it and the accepted ones, and deciding the last one that fixes an  *)
(* issue closes the issue.  Meanwhile new text is saved, uploaded,         *)
(* restored or sent back by the editor, which moves the contract on.       *)
(*                                                                         *)
(* A decision locks the contract's row before it looks at anything.  What  *)
(* inserts a version or a change waits for that lock, since its foreign    *)
(* key shares the row; what only reads does not.                           *)
(***************************************************************************)
EXTENDS Naturals, Sequences, FiniteSets

CONSTANTS
  Edits,        \* changes that may be suggested
  Runs,         \* what suggests them together
  RunOf,        \* the run each comes from
  Reviews,      \* runs that are playbook reviews: they find the issues they fix
  Clauses,
  Span,         \* the clauses a change would replace
  Issues,
  IssueOf,      \* the issue it fixes, if any
  Serious,      \* issues of high or critical severity
  Unusable,     \* changes that leave a blank or were not located in the text
  Requests,     \* requests that decide, at most so many at a time
  Rewritten,    \* bound: sets of clauses that a save rewrites
  MaxWritten    \* bound: versions that are not made from redlines

NoIssue == "no issue"
NoEdit == "no edit"

ASSUME RedlineAssumption ==
  /\ RunOf \in [Edits -> Runs]
  /\ Reviews \subseteq Runs
  /\ Span \in [Edits -> (SUBSET Clauses) \ {{}}]
  /\ IssueOf \in [Edits -> Issues \cup {NoIssue}]
  /\ NoIssue \notin Issues /\ NoEdit \notin Edits
  /\ Rewritten \subseteq SUBSET Clauses
  /\ MaxWritten \in Nat

VARIABLES
  versions,   \* authoritative versions, in the order they were promoted
  edit,       \* ContractEdit rows, and those on their way
  issue,      \* PlaybookDeviation.status
  deciding    \* what the request that has locked the contract has read

vars == <<versions, edit, issue, deciding>>

-----------------------------------------------------------------------------
Verdicts == {"accepted", "rejected"}

\* The wording of a clause: of a change, or of the version it was written in.
Text == [Clauses -> Edits \cup Nat]
Version == [text : Text, source : {"written", "redline"}]

Edit == [status : {"none", "coming", "proposed"} \cup Verdicts, base : Nat]
Decision == [edit : Edits, verdict : Verdicts, undecided : SUBSET Edits,
             agreed : SUBSET Edits, closes : BOOLEAN]
NoDecision == [edit |-> NoEdit, verdict |-> "rejected", undecided |-> {},
               agreed |-> {}, closes |-> FALSE]

\* Contract.current_authoritative_version_id
Current == Len(versions)

Of(r) == {e \in Edits : RunOf[e] = r}
For(i) == {e \in Edits : IssueOf[e] = i}
Finds(r) == {i \in Issues : For(i) \cap Of(r) # {}}

\* _redline_batch: everything suggested on one version, whichever run it is of
With(status, b) == {e \in Edits : edit[e].status = status /\ edit[e].base = b}

Locked == \E s \in Requests : deciding[s] # NoDecision

TypeOK ==
  /\ versions \in Seq(Version)
  /\ edit \in [Edits -> Edit]
  /\ issue \in [Issues -> {"none", "open", "fixed", "waived", "settled"}]
  /\ deciding \in [Requests -> Decision \cup {NoDecision}]

Init ==
  /\ versions = <<[text |-> [c \in Clauses |-> 1], source |-> "written"]>>
  /\ edit = [e \in Edits |-> [status |-> "none", base |-> 0]]
  /\ issue = [i \in Issues |->
                IF \E r \in Reviews : i \in Finds(r) THEN "none" ELSE "open"]
  /\ deciding = [s \in Requests |-> NoDecision]

-----------------------------------------------------------------------------
\* A run starts: it reads the text ...
Begins(r) ==
  /\ \A e \in Of(r) : edit[e].status = "none"
  /\ edit' = [e \in Edits |-> IF RunOf[e] = r
                              THEN [status |-> "coming", base |-> Current] ELSE edit[e]]
  /\ UNCHANGED <<versions, issue, deciding>>

\* ... and in the end suggests what it has, on the version it has read.
Suggests(r) ==
  /\ ~Locked
  /\ \A e \in Of(r) : edit[e].status = "coming"
  /\ edit' = [e \in Edits |-> IF RunOf[e] = r
                              THEN [edit[e] EXCEPT !.status = "proposed"] ELSE edit[e]]
  /\ UNCHANGED <<versions, deciding>>

\* execute_playbook_run: the review finds the issues it suggests fixes for.
BeginReview(r) == r \in Reviews /\ Begins(r)

CommitReview(r) ==
  /\ r \in Reviews
  /\ Suggests(r)
  /\ issue' = [i \in Issues |-> IF i \in Finds(r) THEN "open" ELSE issue[i]]

\* propose_contract_edit, ai_redline_contract: by hand, or by the model, which
\* may be asked to fix an issue as long as that is open.
BeginFix(r) ==
  /\ r \notin Reviews
  /\ \A i \in Issues : For(i) \cap Of(r) # {} => issue[i] = "open"
  /\ Begins(r)

CommitFix(r) == r \notin Reviews /\ Suggests(r) /\ UNCHANGED issue

\* promote_version, for text that comes from outside
Promotes(text) ==
  /\ ~Locked
  /\ Cardinality({v \in 1..Current : versions[v].source = "written"}) < MaxWritten
  /\ versions' = Append(versions, [text |-> text, source |-> "written"])
  /\ UNCHANGED <<edit, issue, deciding>>

\* update_contract_text, contract_saved: the text of a version somebody had
\* before them, with some clauses rewritten.
SaveText(v, C) ==
  Promotes([c \in Clauses |-> IF c \in C THEN Current + 1 ELSE versions[v].text[c]])

\* restore_contract_version
Restore(v) == Promotes(versions[v].text)

\* add_version_from_upload, and the assistant drafting it anew
Upload == Promotes([c \in Clauses |-> Current + 1])

\* decide_deviation: a person decides the issue itself, whatever its status.
Settle(i) ==
  /\ issue[i] # "none"
  /\ issue' = [issue EXCEPT ![i] = "settled"]
  /\ UNCHANGED <<versions, edit, deciding>>

-----------------------------------------------------------------------------
Apart(e, f) == Span[e] \cap Span[f] = {}

\* _accept_blocker, and the guard on the base before it
CanAccept(e) ==
  /\ edit[e].base = Current
  /\ e \notin Unusable
  /\ \A f \in With("accepted", edit[e].base) : Apart(e, f)

MutantUnlocked(s, e, verdict, closes) ==
  /\ deciding[s] = NoDecision
  /\ edit[e].status = "proposed"
  /\ verdict = "accepted" => CanAccept(e)
  /\ closes => IssueOf[e] \in Issues /\ issue[IssueOf[e]] = "open"
  /\ deciding' = [deciding EXCEPT ![s] =
       [edit |-> e, verdict |-> verdict, closes |-> closes,
        undecided |-> With("proposed", edit[e].base) \ {e},
        agreed |-> With("accepted", edit[e].base)]]
  /\ UNCHANGED <<versions, edit, issue>>

MutantOneRun(s, e, verdict, closes) ==
  /\ deciding[s] = NoDecision /\ ~Locked
  /\ edit[e].status = "proposed"
  /\ verdict = "accepted" => CanAccept(e)
  /\ closes => IssueOf[e] \in Issues /\ issue[IssueOf[e]] = "open"
  /\ deciding' = [deciding EXCEPT ![s] =
       [edit |-> e, verdict |-> verdict, closes |-> closes,
        undecided |-> (With("proposed", edit[e].base) \ {e}) \cap Of(RunOf[e]),
        agreed |-> With("accepted", edit[e].base) \cap Of(RunOf[e])]]
  /\ UNCHANGED <<versions, edit, issue>>

MutantOnlyUsable(s, e, verdict, closes) ==
  /\ deciding[s] = NoDecision /\ ~Locked
  /\ edit[e].status = "proposed"
  /\ CanAccept(e)
  /\ closes => IssueOf[e] \in Issues /\ issue[IssueOf[e]] = "open"
  /\ deciding' = [deciding EXCEPT ![s] =
       [edit |-> e, verdict |-> verdict, closes |-> closes,
        undecided |-> With("proposed", edit[e].base) \ {e},
        agreed |-> With("accepted", edit[e].base)]]
  /\ UNCHANGED <<versions, edit, issue>>
\* accept_contract_edit, reject_contract_edit: the contract is locked, and what
\* was suggested on the version is read.  closes: whoever decides may run
\* playbooks, and finds the issue open.
Decide(s, e, verdict, closes) ==
  /\ deciding[s] = NoDecision /\ ~Locked
  /\ edit[e].status = "proposed"
  /\ verdict = "accepted" => CanAccept(e)
  /\ closes => IssueOf[e] \in Issues /\ issue[IssueOf[e]] = "open"
  /\ deciding' = [deciding EXCEPT ![s] =
       [edit |-> e, verdict |-> verdict, closes |-> closes,
        undecided |-> With("proposed", edit[e].base) \ {e},
        agreed |-> With("accepted", edit[e].base)]]
  /\ UNCHANGED <<versions, edit, issue>>

\* The accepted ones, this one among them, and those still open.
Agreed(d) == IF d.verdict = "accepted" THEN d.agreed \cup {d.edit} ELSE d.agreed

\* _text_with_accepted_edits
TextWith(text, accepted) ==
  [c \in Clauses |-> IF \E e \in accepted : c \in Span[e]
                     THEN CHOOSE e \in accepted : c \in Span[e] ELSE text[c]]

\* _apply_decided_redline
Applied(d) ==
  IF d.undecided = {} /\ Agreed(d) # {} /\ edit[d.edit].base = Current
  THEN Append(versions, [text |-> TextWith(versions[Current].text, Agreed(d)),
                         source |-> "redline"])
  ELSE versions

MutantClosesOwnRun(d, i) ==
  /\ d.closes /\ i = IssueOf[d.edit]
  /\ edit[d.edit].base = Current
  /\ d.undecided \cap For(i) \cap Of(RunOf[d.edit]) = {}
  /\ Agreed(d) \cap For(i) # {} \/ i \notin Serious
\* _close_paired_issue: fixed if a change for it was accepted; else its wording
\* stays, which closes it unless the risk is high.
Closed(d, i) ==
  /\ d.closes /\ i = IssueOf[d.edit]
  /\ edit[d.edit].base = Current
  /\ d.undecided \cap For(i) = {}
  /\ Agreed(d) \cap For(i) # {} \/ i \notin Serious

Commit(s) ==
  LET d == deciding[s] IN
  /\ d # NoDecision
  /\ edit' = [edit EXCEPT ![d.edit].status = d.verdict]
  /\ issue' = [i \in Issues |->
       IF ~Closed(d, i) THEN issue[i]
       ELSE IF Agreed(d) \cap For(i) # {} THEN "fixed" ELSE "waived"]
  /\ versions' = Applied(d)
  /\ deciding' = [deciding EXCEPT ![s] = NoDecision]

\* The request fails: a deadlock with a save, which holds the file's row and
\* waits for the contract's, among the reasons.
Fail(s) ==
  /\ deciding[s] # NoDecision
  /\ deciding' = [deciding EXCEPT ![s] = NoDecision]
  /\ UNCHANGED <<versions, edit, issue>>

-----------------------------------------------------------------------------
Decides ==
  \E s \in Requests, e \in Edits, verdict \in Verdicts, closes \in BOOLEAN :
    Decide(s, e, verdict, closes)

Suggested ==
  \E r \in Runs : BeginReview(r) \/ CommitReview(r) \/ BeginFix(r) \/ CommitFix(r)

Written ==
  \/ \E v \in 1..Current, C \in Rewritten : SaveText(v, C)
  \/ \E v \in 1..Current : Restore(v)
  \/ Upload

Next ==
  \/ Suggested
  \/ Written
  \/ \E i \in Issues : Settle(i)
  \/ Decides
  \/ \E s \in Requests : Commit(s) \/ Fail(s)

Spec == Init /\ [][Next]_vars

\* What is suggested is decided in the end, and not every request fails.
Fairness == WF_vars(Decides) /\ \A s \in Requests : SF_vars(Commit(s))

FairSpec == Spec /\ Fairness

-----------------------------------------------------------------------------
\* A change accepted on the current text waits for another one there: deciding
\* the last one makes a new version, even where two are decided at once.
NothingLeftOut == With("accepted", Current) # {} => With("proposed", Current) # {}

\* A version made from a redline has the wording of every change that was ever
\* accepted on the version before it, and elsewhere the wording of that version.
RedlineIsExact ==
  \A v \in 2..Current :
    versions[v].source = "redline" =>
      LET accepted == With("accepted", v - 1) IN
      /\ \A e \in accepted : \A c \in Span[e] : versions[v].text[c] = e
      /\ \A c \in Clauses \ UNION {Span[e] : e \in accepted} :
           versions[v].text[c] = versions[v - 1].text[c]

\* A decision on a change closes an issue only when no change suggested for it
\* on the current text is undecided: as fixed exactly if one was accepted, and
\* never a serious one as waived.
IssuesFollow ==
  [][\A i \in Issues :
       LET on(status) == {e \in For(i) : edit'[e] = [status |-> status, base |-> Current]} IN
       issue'[i] \in {"fixed", "waived"} /\ issue'[i] # issue[i] =>
         /\ on("proposed") = {}
         /\ issue'[i] = "fixed" <=> on("accepted") # {}
         /\ issue'[i] = "waived" => i \notin Serious]_vars

\* A change accepted on the current text is not left in the air: the redline is
\* applied, or the contract moves on.
RedlineSettles ==
  \A e \in Edits :
    (edit[e].status = "accepted" /\ edit[e].base = Current) ~> (edit[e].base # Current)
=============================================================================
