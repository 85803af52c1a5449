--------------------------- MODULE RedlinesProofs ---------------------------
(***************************************************************************)
(* Proofs about Redlines, for any changes, clauses, issues and requests,   *)
(* and any number of versions.                                             *)
(*                                                                         *)
(* Everything rests on Sound: a request that has locked the contract knows *)
(* what was decided on its version (Read), since nothing it has read can   *)
(* change under the lock, which one request holds at a time (OneLocks).    *)
(* Changes are suggested on versions there are (Based), and those accepted *)
(* on one of them do not overlap (AcceptedApart).                          *)
(***************************************************************************)
EXTENDS Redlines, TLAPS

OneLocks ==
  \A s, t \in Requests : deciding[s] # NoDecision /\ deciding[t] # NoDecision => s = t

ReadBy(s) ==
  LET d == deciding[s]
      b == edit[d.edit].base IN
  /\ edit[d.edit].status = "proposed"
  /\ d.undecided = With("proposed", b) \ {d.edit}
  /\ d.agreed = With("accepted", b)
  /\ d.verdict = "accepted" =>
       b = Current /\ \A f \in d.agreed : Apart(d.edit, f)

Read == \A s \in Requests : deciding[s] # NoDecision => ReadBy(s)

Based == \A e \in Edits : edit[e].status # "none" => edit[e].base \in 1..Current

AcceptedApart ==
  \A e, f \in Edits :
    edit[e].status = "accepted" /\ edit[f].status = "accepted"
      /\ edit[e].base = edit[f].base /\ e # f => Apart(e, f)

Sound == OneLocks /\ Read /\ Based /\ AcceptedApart

Inv == TypeOK /\ Current >= 1 /\ Sound /\ NothingLeftOut /\ RedlineIsExact

-----------------------------------------------------------------------------
\* A request that has locked the contract is about a change there is.
LEMMA LockedDecision ==
  ASSUME TypeOK, NEW s \in Requests, deciding[s] # NoDecision
  PROVE  deciding[s] \in Decision /\ deciding[s].edit \in Edits
BY DEF TypeOK, Decision

LEMMA NoneDecided == NoDecision \notin Decision
BY RedlineAssumption DEF NoDecision, Decision

\* Wordings come from the changes and the text they are put into.
LEMMA TextType ==
  ASSUME NEW text \in Text, NEW S \in SUBSET Edits
  PROVE  TextWith(text, S) \in Text
<1>1. \A c \in Clauses : (\E e \in S : c \in Span[e]) =>
        (CHOOSE e \in S : c \in Span[e]) \in Edits
  OBVIOUS
<1>2. QED BY <1>1 DEF TextWith, Text

LEMMA InitInv == Init => Inv
<1> SUFFICES ASSUME Init PROVE Inv
  OBVIOUS
<1>1. TypeOK /\ Current = 1
  <2>1. [text |-> [c \in Clauses |-> 1], source |-> "written"] \in Version
    BY DEF Version, Text
  <2>2. versions \in Seq(Version) /\ Current = 1
    BY <2>1 DEF Init, Current
  <2>3. edit \in [Edits -> Edit]
    BY DEF Init, Edit
  <2>4. QED BY <2>2, <2>3 DEF Init, TypeOK
<1>2. Sound
  BY DEF Init, Sound, OneLocks, Read, Based, AcceptedApart
<1>3. NothingLeftOut /\ RedlineIsExact
  BY <1>1 DEF Init, NothingLeftOut, RedlineIsExact, With
<1>4. QED BY <1>1, <1>2, <1>3 DEF Inv

-----------------------------------------------------------------------------
\* Lengths and elements of a sequence that grew by one.
LEMMA Grown ==
  ASSUME NEW S, NEW q \in Seq(S), NEW x \in S
  PROVE  /\ Append(q, x) \in Seq(S)
         /\ Len(Append(q, x)) = Len(q) + 1
         /\ Append(q, x)[Len(q) + 1] = x
         /\ \A i \in 1..Len(q) : Append(q, x)[i] = q[i]
OBVIOUS

LEMMA VersionType ==
  ASSUME TypeOK, NEW v \in 1..Current
  PROVE  versions[v] \in Version /\ versions[v].text \in Text
<1>1. versions \in Seq(Version) /\ v \in 1..Len(versions)
  BY DEF TypeOK, Current
<1>2. versions[v] \in Version
  BY <1>1
<1>3. QED BY <1>2 DEF Version

\* Whichever text comes from outside, it is a text and is promoted.
LEMMA WrittenPromotes ==
  ASSUME TypeOK, Current >= 1, Written
  PROVE  \E text \in Text : Promotes(text)
<1>1. CASE \E v \in 1..Current, C \in Rewritten : SaveText(v, C)
  <2> PICK v \in 1..Current, C \in Rewritten : SaveText(v, C)
    BY <1>1
  <2>1. versions[v].text \in Text
    BY VersionType
  <2>2. [c \in Clauses |-> IF c \in C THEN Current + 1 ELSE versions[v].text[c]] \in Text
    BY <2>1 DEF Text, Current, TypeOK
  <2>3. QED BY <2>2 DEF SaveText
<1>2. CASE \E v \in 1..Current : Restore(v)
  BY <1>2, VersionType DEF Restore
<1>3. CASE Upload
  <2>1. [c \in Clauses |-> Current + 1] \in Text
    BY DEF Text, Current, TypeOK
  <2>2. QED BY <1>3, <2>1 DEF Upload
<1>4. QED BY <1>1, <1>2, <1>3 DEF Written

\* The steps by what they do to versions and changes.
LEMMA Steps ==
  ASSUME TypeOK, Current >= 1, [Next]_vars
  PROVE  \/ \E r \in Runs : Begins(r)
         \/ \E r \in Runs : Suggests(r)
         \/ \E text \in Text : Promotes(text)
         \/ \E i \in Issues : Settle(i)
         \/ Decides
         \/ \E s \in Requests : Commit(s)
         \/ \E s \in Requests : Fail(s)
         \/ UNCHANGED vars
BY WrittenPromotes DEF Next, Suggested, BeginReview, CommitReview, BeginFix, CommitFix

LEMMA AppliedType ==
  ASSUME TypeOK, Current >= 1, NEW d \in Decision
  PROVE  Applied(d) \in Seq(Version)
<1>1. Agreed(d) \in SUBSET Edits
  BY DEF Agreed, Decision
<1>2. versions[Current].text \in Text
  <2>1. Current \in 1..Current
    BY DEF Current, TypeOK
  <2>2. QED BY <2>1, VersionType
<1>3. [text |-> TextWith(versions[Current].text, Agreed(d)), source |-> "redline"] \in Version
  BY <1>1, <1>2, TextType DEF Version
<1>4. QED BY <1>3, Grown DEF Applied, TypeOK

LEMMA TypeStep ==
  ASSUME TypeOK, Current >= 1, [Next]_vars
  PROVE  TypeOK'
<1>1. CASE \E r \in Runs : Begins(r)
  BY <1>1 DEF Begins, TypeOK, Edit, Current
<1>2. CASE \E r \in Runs : CommitReview(r) \/ CommitFix(r)
  BY <1>2 DEF CommitReview, CommitFix, Suggests, TypeOK, Edit
<1>3. CASE \E text \in Text : Promotes(text)
  BY <1>3, Grown DEF Promotes, TypeOK, Version
<1>4. CASE \E i \in Issues : Settle(i)
  BY <1>4 DEF Settle, TypeOK
<1>5. CASE Decides
  <2> PICK s \in Requests, e \in Edits, verdict \in Verdicts, closes \in BOOLEAN :
        Decide(s, e, verdict, closes)
    BY <1>5 DEF Decides
  <2>1. [edit |-> e, verdict |-> verdict, closes |-> closes,
         undecided |-> With("proposed", edit[e].base) \ {e},
         agreed |-> With("accepted", edit[e].base)] \in Decision
    BY DEF Decision, With
  <2>2. QED BY <2>1 DEF Decide, TypeOK
<1>6. CASE \E s \in Requests : Commit(s)
  <2> PICK s \in Requests : Commit(s)
    BY <1>6
  <2>1. deciding[s] \in Decision /\ deciding[s].edit \in Edits
    BY LockedDecision DEF Commit
  <2>2. versions' \in Seq(Version)
    BY <2>1, AppliedType DEF Commit
  <2>3. edit' \in [Edits -> Edit]
    BY <2>1 DEF Commit, TypeOK, Edit, Decision, Verdicts
  <2>4. QED BY <2>1, <2>2, <2>3 DEF Commit, TypeOK
<1>7. CASE \E s \in Requests : Fail(s)
  BY <1>7 DEF Fail, TypeOK
<1>8. CASE UNCHANGED vars
  BY <1>8 DEF vars, TypeOK
<1>9. QED
  BY <1>1, <1>2, <1>3, <1>4, <1>5, <1>6, <1>7, <1>8, WrittenPromotes
  DEF Next, Suggested, BeginReview, BeginFix

-----------------------------------------------------------------------------
\* What a commit does to what is suggested on each version.
LEMMA CommitSuggested ==
  ASSUME Inv, NEW s \in Requests, Commit(s),
         NEW b, b = edit[deciding[s].edit].base
  PROVE  LET d == deciding[s] IN
         /\ d.edit \in Edits /\ d \in Decision /\ b \in 1..Current
         /\ \A status \in {"proposed", "accepted"}, v \in Nat \ {b} :
              With(status, v)' = With(status, v)
         /\ With("proposed", b)' = d.undecided
         /\ With("accepted", b)' = Agreed(d)
         /\ \A e, f \in Agreed(d) : e # f => Apart(e, f)
<1> DEFINE d == deciding[s]
<1>1. d \in Decision /\ d.edit \in Edits /\ ReadBy(s)
  BY LockedDecision DEF Commit, Inv, Sound, Read
<1>2. /\ edit' = [edit EXCEPT ![d.edit].status = d.verdict]
      /\ d.verdict \in Verdicts
      /\ edit[d.edit].status = "proposed"
  BY <1>1 DEF Commit, ReadBy, Decision
<1>3. edit \in [Edits -> Edit]
  BY DEF Inv, TypeOK
<1>4. b \in 1..Current
  BY <1>1, <1>2 DEF Inv, Sound, Based
<1>5. /\ \A e \in Edits \ {d.edit} : edit'[e] = edit[e]
      /\ edit'[d.edit].status = d.verdict /\ edit'[d.edit].base = b
  BY <1>1, <1>2, <1>3 DEF Edit
<1>6. \A status \in {"proposed", "accepted"}, v \in Nat \ {b} :
        With(status, v)' = With(status, v)
  BY <1>5 DEF With
<1>7. With("proposed", b)' = With("proposed", b) \ {d.edit}
  BY <1>1, <1>2, <1>5 DEF With, Verdicts
<1>8. With("accepted", b)' = IF d.verdict = "accepted"
                             THEN With("accepted", b) \cup {d.edit} ELSE With("accepted", b)
  BY <1>1, <1>2, <1>5 DEF With, Verdicts
<1>9. d.undecided = With("proposed", b) \ {d.edit} /\ d.agreed = With("accepted", b)
  BY <1>1 DEF ReadBy
<1>10. ASSUME NEW e \in Agreed(d), NEW f \in Agreed(d), e # f
       PROVE  Apart(e, f)
  <2>1. CASE e \in d.agreed /\ f \in d.agreed
    BY <1>9, <1>10, <2>1 DEF Inv, Sound, AcceptedApart, With
  <2>2. CASE e = d.edit \/ f = d.edit
    <3>1. d.verdict = "accepted"
      BY <1>2, <1>9, <1>10, <2>2 DEF Agreed, With
    <3>2. \A g \in d.agreed : Apart(d.edit, g)
      BY <1>1, <3>1 DEF ReadBy
    <3>3. QED BY <1>10, <2>2, <3>1, <3>2 DEF Agreed, Apart
  <2>3. QED BY <1>10, <2>1, <2>2 DEF Agreed
<1>11. QED
  BY <1>1, <1>4, <1>6, <1>7, <1>8, <1>9, <1>10 DEF Agreed

\* A version made from a redline has what was accepted, and the rest as it was.
LEMMA AppliedIsExact ==
  ASSUME NEW text \in Text, NEW S \in SUBSET Edits,
         \A e, f \in S : e # f => Apart(e, f)
  PROVE  /\ \A e \in S : \A c \in Span[e] : TextWith(text, S)[c] = e
         /\ \A c \in Clauses \ UNION {Span[e] : e \in S} : TextWith(text, S)[c] = text[c]
<1>1. ASSUME NEW e \in S, NEW c \in Span[e]
      PROVE  TextWith(text, S)[c] = e
  <2>1. c \in Clauses
    BY RedlineAssumption
  <2>2. \A f \in S : c \in Span[f] => f = e
    BY <1>1 DEF Apart
  <2>3. (CHOOSE f \in S : c \in Span[f]) = e
    BY <1>1, <2>2
  <2>4. QED BY <2>1, <2>3 DEF TextWith
<1>2. QED BY <1>1 DEF TextWith

\* Versions are only added, and those there were keep their text.
LEMMA VersionsGrow ==
  ASSUME Inv, [Next]_vars
  PROVE  /\ Current' >= Current
         /\ \A v \in 1..Current : versions'[v] = versions[v]
<1>1. CASE \E text \in Text : Promotes(text)
  BY <1>1 DEF Promotes, Current, Inv, TypeOK
<1>2. CASE \E s \in Requests : Commit(s)
  BY <1>2 DEF Commit, Applied, Current, Inv, TypeOK
<1>3. CASE versions' = versions
  BY <1>3 DEF Current, Inv, TypeOK
<1>4. QED
  BY <1>1, <1>2, <1>3, Steps DEF Inv, Begins, Suggests, Settle, Decides, Decide, Fail, vars

LEMMA SoundStep ==
  ASSUME Inv, [Next]_vars
  PROVE  Sound'
<1> USE DEF Inv
<1>t. TypeOK' /\ edit \in [Edits -> Edit]
  BY TypeStep DEF TypeOK
<1>g. Current' >= Current /\ Current \in Nat /\ Current' \in Nat
  BY VersionsGrow, <1>t DEF Current, TypeOK
<1>1. CASE \E r \in Runs : Begins(r)
  <2> PICK r \in Runs : Begins(r)
    BY <1>1
  <2>1. \A e \in Edits : \/ edit'[e] = edit[e]
                         \/ /\ edit[e].status = "none"
                            /\ edit'[e] = [status |-> "coming", base |-> Current]
    BY DEF Begins, Of, TypeOK
  <2>2. \A v \in Nat : /\ With("proposed", v)' = With("proposed", v)
                       /\ With("accepted", v)' = With("accepted", v)
    BY <2>1 DEF With
  <2>3. deciding' = deciding /\ Current' = Current
    BY DEF Begins, Current
  <2>4. OneLocks'
    BY <2>3 DEF Sound, OneLocks
  <2>5. ASSUME NEW s \in Requests, deciding[s] # NoDecision
        PROVE  ReadBy(s)'
    <3>1. ReadBy(s) /\ deciding[s].edit \in Edits
      BY <2>5, LockedDecision DEF Sound, Read
    <3>2. edit'[deciding[s].edit] = edit[deciding[s].edit]
      BY <2>1, <3>1 DEF ReadBy
    <3>3. edit[deciding[s].edit].base \in Nat
      BY <3>1, <1>t DEF Edit
    <3>4. QED BY <2>2, <2>3, <3>1, <3>2, <3>3 DEF ReadBy
  <2>6. Read'
    BY <2>3, <2>5 DEF Read
  <2>7. Based' /\ AcceptedApart'
    BY <2>1, <2>3, <1>g DEF Sound, Based, AcceptedApart
  <2>8. QED BY <2>4, <2>6, <2>7 DEF Sound
<1>2. CASE \E r \in Runs : Suggests(r)
  <2> PICK r \in Runs : Suggests(r)
    BY <1>2
  <2>1. \A s \in Requests : deciding'[s] = NoDecision
    BY DEF Suggests, Locked
  <2>2. ASSUME NEW e \in Edits
        PROVE  /\ edit'[e].base = edit[e].base
               /\ edit'[e].status # "none" => edit[e].status # "none"
               /\ edit'[e].status = "accepted" => edit[e].status = "accepted"
    <3>1. CASE RunOf[e] = r
      <4>1. edit[e].status = "coming"
        BY <3>1 DEF Suggests, Of
      <4>2. edit'[e] = [edit[e] EXCEPT !.status = "proposed"]
        BY <3>1 DEF Suggests
      <4>3. edit[e] \in Edit
        BY <1>t
      <4>4. QED BY <4>1, <4>2, <4>3 DEF Edit
    <3>2. CASE RunOf[e] # r
      BY <3>2 DEF Suggests
    <3>3. QED BY <3>1, <3>2
  <2>3. \A e \in Edits :
          /\ edit'[e].base = edit[e].base
          /\ edit'[e].status # "none" => edit[e].status # "none"
          /\ edit'[e].status = "accepted" => edit[e].status = "accepted"
    BY <2>2
  <2>4. versions' = versions
    BY DEF Suggests
  <2>5. Based'
    BY <2>3, <2>4 DEF Sound, Based, Current
  <2>6. AcceptedApart'
    BY <2>3 DEF Sound, AcceptedApart, Apart
  <2>7. QED BY <2>1, <2>5, <2>6 DEF Sound, OneLocks, Read
<1>3. CASE \E text \in Text : Promotes(text)
  <2>1. edit' = edit /\ \A s \in Requests : deciding'[s] = NoDecision
    BY <1>3 DEF Promotes, Locked
  <2>2. QED BY <2>1, <1>g DEF Sound, OneLocks, Read, Based, AcceptedApart
<1>4. CASE \E i \in Issues : Settle(i)
  BY <1>4 DEF Settle, Sound, OneLocks, Read, ReadBy, Based, AcceptedApart, With, Current
<1>5. CASE Decides
  <2> PICK s \in Requests, e \in Edits, verdict \in Verdicts, closes \in BOOLEAN :
        Decide(s, e, verdict, closes)
    BY <1>5 DEF Decides
  <2>1. \A t \in Requests \ {s} : deciding'[t] = NoDecision
    BY DEF Decide, Locked, TypeOK
  <2>2. deciding'[s] = [edit |-> e, verdict |-> verdict, closes |-> closes,
                        undecided |-> With("proposed", edit[e].base) \ {e},
                        agreed |-> With("accepted", edit[e].base)]
    BY DEF Decide, TypeOK
  <2>3. edit' = edit /\ versions' = versions
    BY DEF Decide
  <2>4. ReadBy(s)'
    BY <2>2, <2>3 DEF Decide, CanAccept, ReadBy, With, Current
  <2>5. OneLocks' /\ Read'
    BY <2>1, <2>4 DEF OneLocks, Read
  <2>6. QED BY <2>3, <2>5 DEF Sound, Based, AcceptedApart, Current
<1>6. CASE \E s \in Requests : Commit(s)
  <2> PICK s \in Requests : Commit(s)
    BY <1>6
  <2> PICK d : d = deciding[s]
    OBVIOUS
  <2> PICK b : b = edit[d.edit].base
    OBVIOUS
  <2>1. \A t \in Requests : deciding'[t] = NoDecision
    BY DEF Commit, Sound, OneLocks, TypeOK
  <2>2. d.edit \in Edits /\ d \in Decision /\ b \in 1..Current
    BY CommitSuggested
  <2>a. /\ With("accepted", b)' = Agreed(d)
        /\ \A e, f \in Agreed(d) : e # f => Apart(e, f)
    BY CommitSuggested
  <2>3. \A e \in Edits : /\ edit'[e].base = edit[e].base
                         /\ e # d.edit => edit'[e].status = edit[e].status
    BY <2>2, <1>t DEF Commit, Edit
  <2>4. Based'
    <3>1. ASSUME NEW e \in Edits, edit'[e].status # "none"
          PROVE  edit[e].base \in 1..Current
      <4>1. CASE e = d.edit
        BY <2>2, <4>1
      <4>2. CASE e # d.edit
        BY <2>3, <3>1, <4>2 DEF Sound, Based
      <4>3. QED BY <4>1, <4>2
    <3>2. QED BY <2>3, <3>1, <1>g DEF Based
  <2>5. ASSUME NEW e \in Edits, NEW f \in Edits, e # f,
               edit'[e].status = "accepted", edit'[f].status = "accepted",
               edit'[e].base = edit'[f].base
        PROVE  Apart(e, f)
    <3>1. CASE edit'[e].base = b
      <4>1. e \in With("accepted", b)' /\ f \in With("accepted", b)'
        BY <2>5, <3>1 DEF With
      <4>2. QED BY <2>a, <2>5, <4>1
    <3>2. CASE edit'[e].base # b
      <4>1. e # d.edit /\ f # d.edit
        BY <2>2, <2>3, <2>5, <3>2
      <4>2. QED BY <2>3, <2>5, <4>1 DEF Sound, AcceptedApart
    <3>3. QED BY <3>1, <3>2
  <2>6. AcceptedApart'
    BY <2>5 DEF AcceptedApart, Apart
  <2>7. QED BY <2>1, <2>4, <2>6 DEF Sound, OneLocks, Read
<1>7. CASE \E s \in Requests : Fail(s)
  <2> PICK s \in Requests : Fail(s)
    BY <1>7
  <2>1. \A t \in Requests : deciding'[t] \in {deciding[t], NoDecision}
    BY DEF Fail, TypeOK
  <2>2. edit' = edit /\ versions' = versions
    BY DEF Fail
  <2>3. QED BY <2>1, <2>2 DEF Sound, OneLocks, Read, ReadBy, Based, AcceptedApart, With, Current
<1>8. CASE UNCHANGED vars
  BY <1>8 DEF vars, Sound, OneLocks, Read, ReadBy, Based, AcceptedApart, With, Current
<1>9. QED BY <1>1, <1>2, <1>3, <1>4, <1>5, <1>6, <1>7, <1>8, Steps

-----------------------------------------------------------------------------
\* What is suggested on a version there is not yet: nothing.
LEMMA NothingAhead ==
  ASSUME Inv, NEW v \in Nat, v > Current
  PROVE  With("accepted", v) = {}
BY DEF Inv, Sound, Based, With, Current, TypeOK

\* Only a decision accepts, and only on the current version.
LEMMA AcceptedKept ==
  ASSUME Inv, [Next]_vars, NEW v \in Nat, v # Current
  PROVE  With("accepted", v)' = With("accepted", v)
<1>1. CASE \E s \in Requests : Commit(s)
  <2> PICK s \in Requests : Commit(s)
    BY <1>1
  <2> PICK d : d = deciding[s]
    OBVIOUS
  <2> PICK b : b = edit[d.edit].base
    OBVIOUS
  <2>1. CASE v # b
    BY <2>1, CommitSuggested
  <2>2. CASE v = b
    <3>1. With("accepted", b)' = Agreed(d) /\ ReadBy(s)
      BY CommitSuggested DEF Inv, Sound, Read, Commit
    <3>2. d.verdict # "accepted" /\ d.agreed = With("accepted", b)
      BY <2>2, <3>1 DEF ReadBy
    <3>3. QED BY <2>2, <3>1, <3>2 DEF Agreed
  <2>3. QED BY <2>1, <2>2
<1>2. CASE ~\E s \in Requests : Commit(s)
  <2>1. ASSUME NEW e \in Edits
        PROVE  \/ edit'[e] = edit[e]
               \/ edit[e].status # "accepted" /\ edit'[e].status # "accepted"
    <3>1. edit \in [Edits -> Edit]
      BY DEF Inv, TypeOK
    <3>2. CASE \E r \in Runs : Begins(r)
      BY <3>1, <3>2 DEF Begins, Of, Edit
    <3>3. CASE \E r \in Runs : Suggests(r)
      BY <3>1, <3>3 DEF Suggests, Of, Edit
    <3>4. CASE edit' = edit
      BY <3>4
    <3>5. QED
      BY <1>2, <3>2, <3>3, <3>4, Steps DEF Inv, Promotes, Settle, Decides, Decide, Fail, vars
  <2>2. QED BY <2>1 DEF With
<1>3. QED BY <1>1, <1>2

LEMMA LeftOutStep ==
  ASSUME Inv, [Next]_vars
  PROVE  NothingLeftOut'
<1>0. Current \in Nat /\ Current >= 1
  BY DEF Inv, TypeOK, Current
<1>1. CASE \E s \in Requests : Commit(s)
  <2> PICK s \in Requests : Commit(s)
    BY <1>1
  <2> PICK d : d = deciding[s]
    OBVIOUS
  <2> PICK b : b = edit[d.edit].base
    OBVIOUS
  <2> PICK n : n = Current
    OBVIOUS
  <2>1. CASE Applied(d) = versions
    <3>1. Current' = n
      BY <2>1 DEF Commit, Current
    <3>2. CASE b = n
      <4>1. With("proposed", b)' = d.undecided /\ With("accepted", b)' = Agreed(d)
        BY CommitSuggested
      <4>2. Append(versions, [text |-> TextWith(versions[Current].text, Agreed(d)),
                              source |-> "redline"]) # versions
        BY DEF Inv, TypeOK
      <4>3. d.undecided # {} \/ Agreed(d) = {}
        BY <2>1, <3>2, <4>2 DEF Applied
      <4>4. QED BY <3>1, <3>2, <4>1, <4>3 DEF NothingLeftOut
    <3>3. CASE b # n
      <4>1. /\ With("proposed", n)' = With("proposed", n)
            /\ With("accepted", n)' = With("accepted", n)
        BY <1>0, <3>3, CommitSuggested
      <4>2. With("accepted", n) # {} => With("proposed", n) # {}
        BY DEF Inv, NothingLeftOut
      <4>3. QED BY <3>1, <4>1, <4>2 DEF NothingLeftOut
    <3>4. QED BY <3>2, <3>3
  <2>2. CASE Applied(d) # versions
    <3>1. Current' = n + 1
      BY <2>2 DEF Commit, Applied, Current, Inv, TypeOK
    <3>2. With("accepted", n + 1)' = With("accepted", n + 1)
      BY <1>0, AcceptedKept
    <3>3. With("accepted", n + 1) = {}
      BY <1>0, NothingAhead
    <3>4. QED BY <3>1, <3>2, <3>3 DEF NothingLeftOut
  <2>3. QED BY <2>1, <2>2
<1>2. CASE \E text \in Text : Promotes(text)
  <2> PICK n : n = Current
    OBVIOUS
  <2>1. edit' = edit /\ Current' = n + 1
    BY <1>2 DEF Promotes, Current, Inv, TypeOK
  <2>2. With("accepted", n + 1) = {}
    BY <1>0, NothingAhead
  <2>3. QED BY <2>1, <2>2 DEF NothingLeftOut, With
<1>3. CASE \E r \in Runs : Suggests(r)
  <2>1. \A e \in Edits : \/ edit'[e] = edit[e]
                         \/ edit[e].status = "coming" /\ edit'[e].status = "proposed"
    BY <1>3 DEF Suggests, Of, Inv, TypeOK, Edit
  <2>2. versions' = versions
    BY <1>3 DEF Suggests
  <2>3. QED BY <2>1, <2>2 DEF Inv, NothingLeftOut, With, Current
<1>4. CASE \E r \in Runs : Begins(r)
  <2>1. \A e \in Edits : \/ edit'[e] = edit[e]
                         \/ edit[e].status = "none" /\ edit'[e].status = "coming"
    BY <1>4 DEF Begins, Of, Inv, TypeOK, Edit
  <2>2. versions' = versions
    BY <1>4 DEF Begins
  <2>3. QED BY <2>1, <2>2 DEF Inv, NothingLeftOut, With, Current
<1>5. CASE UNCHANGED <<versions, edit>>
  BY <1>5 DEF Inv, NothingLeftOut, With, Current
<1>6. QED
  BY <1>1, <1>2, <1>3, <1>4, <1>5, Steps DEF Inv, Settle, Decides, Decide, Fail, vars

\* What redlines were made of stays as it was, and a new one is exact.
LEMMA ExactStep ==
  ASSUME Inv, [Next]_vars
  PROVE  RedlineIsExact'
<1>0. Current \in Nat /\ Current >= 1
  BY DEF Inv, TypeOK, Current
<1> DEFINE Exact(text, before, accepted) ==
             /\ \A e \in accepted : \A c \in Span[e] : text[c] = e
             /\ \A c \in Clauses \ UNION {Span[e] : e \in accepted} : text[c] = before[c]
<1>1. ASSUME NEW v \in 2..Current, versions'[v].source = "redline"
      PROVE  Exact(versions'[v].text, versions'[v - 1].text, With("accepted", v - 1)')
  <2>1. versions'[v] = versions[v] /\ versions'[v - 1] = versions[v - 1]
    BY <1>0, VersionsGrow
  <2>2. With("accepted", v - 1)' = With("accepted", v - 1)
    BY <1>0, AcceptedKept
  <2>3. Exact(versions[v].text, versions[v - 1].text, With("accepted", v - 1))
    BY <1>1, <2>1 DEF Inv, RedlineIsExact
  <2>4. QED BY <2>1, <2>2, <2>3
<1>2. ASSUME NEW v \in 2..Current', v \notin 2..Current, versions'[v].source = "redline"
      PROVE  Exact(versions'[v].text, versions'[v - 1].text, With("accepted", v - 1)')
  <2> PICK n : n = Current
    OBVIOUS
  <2>1. PICK s \in Requests : Commit(s) /\ versions' # versions
    <3>1. CASE \E new \in Text : Promotes(new)
      <4>1. Current' = n + 1 /\ versions'[n + 1].source = "written"
        BY <3>1 DEF Promotes, Current, Inv, TypeOK
      <4>2. v = n + 1
        BY <1>0, <1>2, <4>1
      <4>3. QED BY <1>2, <4>1, <4>2
    <3>2. CASE versions' = versions
      BY <1>2, <3>2 DEF Current
    <3>3. CASE \E s \in Requests : Commit(s)
      BY <3>2, <3>3
    <3>4. QED
      BY <3>1, <3>2, <3>3, Steps DEF Inv, Begins, Suggests, Settle, Decides, Decide, Fail, vars
  <2> PICK d : d = deciding[s]
    OBVIOUS
  <2> PICK b : b = edit[d.edit].base
    OBVIOUS
  <2> DEFINE text == TextWith(versions[Current].text, Agreed(d))
  <2>2. /\ b = n
        /\ versions' = Append(versions, [text |-> text, source |-> "redline"])
    BY <2>1 DEF Commit, Applied
  <2>3. /\ d \in Decision
        /\ With("accepted", b)' = Agreed(d)
        /\ \A e, f \in Agreed(d) : e # f => Apart(e, f)
    BY <2>1, CommitSuggested
  <2>4. /\ v = n + 1 /\ v - 1 = n
        /\ versions'[v].text = text
        /\ versions'[v - 1] = versions[Current]
    BY <1>0, <1>2, <2>2 DEF Current, Inv, TypeOK
  <2>5. Agreed(d) \in SUBSET Edits /\ versions[Current].text \in Text
    BY <1>0, <2>3, VersionType DEF Agreed, Decision, Inv
  <2>6. Exact(text, versions[Current].text, Agreed(d))
    BY <2>3, <2>5, AppliedIsExact
  <2>7. With("accepted", v - 1)' = Agreed(d)
    BY <2>2, <2>3, <2>4
  <2>8. QED BY <2>4, <2>6, <2>7
<1>3. QED BY <1>1, <1>2 DEF RedlineIsExact

LEMMA InvStep == Inv /\ [Next]_vars => Inv'
<1> SUFFICES ASSUME Inv, [Next]_vars PROVE Inv'
  OBVIOUS
<1>1. TypeOK' /\ Current' >= 1
  <2>1. Current' >= Current /\ TypeOK'
    BY VersionsGrow, TypeStep DEF Inv
  <2>2. Current \in Nat /\ Current' \in Nat
    BY <2>1 DEF Inv, TypeOK, Current
  <2>3. QED BY <2>1, <2>2 DEF Inv
<1>2. QED BY <1>1, SoundStep, LeftOutStep, ExactStep DEF Inv

LEMMA Invariance == Spec => []Inv
BY InitInv, InvStep, PTL DEF Spec

-----------------------------------------------------------------------------
\* Every version, change, issue and decision is in a state the code knows.
THEOREM TypeCorrect == Spec => []TypeOK
<1>1. Inv => TypeOK
  BY DEF Inv
<1>2. QED BY <1>1, Invariance, PTL

\* Whoever decides at once, a change accepted on the current text waits for
\* another one there: the last decision sees that it is the last.
THEOREM LastSeesIt == Spec => []NothingLeftOut
<1>1. Inv => NothingLeftOut
  BY DEF Inv
<1>2. QED BY <1>1, Invariance, PTL

\* Every version made from a redline is the version before it with exactly what
\* was ever accepted on that, in place of the clauses it spans.
THEOREM Exactness == Spec => []RedlineIsExact
<1>1. Inv => RedlineIsExact
  BY DEF Inv
<1>2. QED BY <1>1, Invariance, PTL

\* An issue is closed by a decision only when all that was suggested for it is
\* decided, and as what was decided.
THEOREM IssuesClosedRight == Spec => IssuesFollow
<1> DEFINE A == \A i \in Issues :
       LET on(status) == {e \in For(i) : edit'[e] = [status |-> status, base |-> Current]} IN
       issue'[i] \in {"fixed", "waived"} /\ issue'[i] # issue[i] =>
         /\ on("proposed") = {}
         /\ issue'[i] = "fixed" <=> on("accepted") # {}
         /\ issue'[i] = "waived" => i \notin Serious
<1>1. Inv /\ [Next]_vars => [A]_vars
  <2> SUFFICES ASSUME Inv, [Next]_vars, NEW i \in Issues,
                      issue'[i] \in {"fixed", "waived"}, issue'[i] # issue[i]
               PROVE  LET on(status) == {e \in For(i) : edit'[e] = [status |-> status, base |-> Current]} IN
                      /\ on("proposed") = {}
                      /\ issue'[i] = "fixed" <=> on("accepted") # {}
                      /\ issue'[i] = "waived" => i \notin Serious
    OBVIOUS
  <2>1. PICK s \in Requests : Commit(s)
    BY DEF Next, Suggested, Written, SaveText, Restore, Upload, Promotes, BeginReview, BeginFix,
           Begins, CommitReview, CommitFix, Settle, Decides, Decide, Fail, vars, Inv, TypeOK
  <2> PICK d : d = deciding[s]
    OBVIOUS
  <2> PICK n : n = Current
    OBVIOUS
  <2>2. Closed(d, i)
    BY <2>1 DEF Commit, Inv, TypeOK
  <2>3. issue'[i] = IF Agreed(d) \cap For(i) # {} THEN "fixed" ELSE "waived"
    BY <2>1, <2>2 DEF Commit
  <2>4. n = edit[d.edit].base
    BY <2>2 DEF Closed
  <2>5. With("proposed", n)' = d.undecided /\ With("accepted", n)' = Agreed(d)
    BY <2>1, <2>4, CommitSuggested
  <2>6. edit' \in [Edits -> Edit]
    BY TypeStep DEF Inv, TypeOK
  <2>7. ASSUME NEW status
        PROVE  {e \in For(i) : edit'[e] = [status |-> status, base |-> n]}
                 = With(status, n)' \cap For(i)
    BY <2>6 DEF With, For, Edit
  <2>8. QED BY <2>2, <2>3, <2>5, <2>7 DEF Closed
<1>2. QED BY <1>1, Invariance, PTL DEF Spec, IssuesFollow
=============================================================================
