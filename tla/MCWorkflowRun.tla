--------------------------- MODULE MCWorkflowRun ---------------------------
(* The workflows the runs follow: contracts drafted, negotiated and signed. *)
EXTENDS WorkflowRun

S(kind, stage, optional, next) ==
  [kind |-> kind, stage |-> stage, optional |-> optional, next |-> next]

\* Draft, review, negotiate, approve above a value, sign, activate.
Full == << S("draft", "drafting", FALSE, 2),
           S("human", "review", FALSE, 3),
           S("counterparty", "review", FALSE, 4),
           S("approval", "approval", TRUE, 5),
           S("signature", "signature", FALSE, 6),
           S("ai", "active", FALSE, 7) >>

\* Two reviews side by side, the second only sometimes.
Parallel == << S("human", "review", FALSE, 3),
               S("human", "review", TRUE, 3),
               S("approval", "approval", FALSE, 4),
               S("signature", "signature", FALSE, 5) >>

\* The AI reviews, and nobody has to.
Fast == << S("draft", "drafting", FALSE, 2),
           S("ai", "review", FALSE, 3),
           S("approval", "approval", FALSE, 4) >>

\* Somebody works beside the approvers.
Beside == << S("human", "review", FALSE, 2),
             S("human", "approval", FALSE, 4),
             S("approval", "approval", FALSE, 4) >>

MCGatesAlone == {Full, Parallel, Fast}
MCFlows == MCGatesAlone \cup {Beside}
=============================================================================
