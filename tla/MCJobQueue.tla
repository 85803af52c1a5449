---------------------------- MODULE MCJobQueue ----------------------------
(***************************************************************************)
(* A small instance of JobQueue.                                            *)
(***************************************************************************)
EXTENDS JobQueue

CONSTANTS w1, w2, r1, r2

MCWorkers == {w1, w2}
MCTwoRequests == {r1, r2}
=============================================================================
