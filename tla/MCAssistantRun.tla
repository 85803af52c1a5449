--------------------------- MODULE MCAssistantRun ---------------------------
(***************************************************************************)
(* Small instances of AssistantRun.                                        *)
(***************************************************************************)
EXTENDS AssistantRun, TLC

CONSTANTS w1, w2

MCWorkers == {w1, w2}

MCSymmetry == Permutations(MCWorkers)

\* Stop is pressed in one of the runs, one message is under way at a time, and
\* what a run does once it was ended under a worker is not followed.
MCBound ==
  /\ Cardinality(flag) <= 1
  /\ Cardinality(messages) <= 1
  /\ cut = {}
=============================================================================
