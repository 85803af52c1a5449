---------------------------- MODULE MCAutoReview ----------------------------
(***************************************************************************)
(* A small instance of AutoReview: two texts, one retry, two attempts.     *)
(***************************************************************************)
EXTENDS AutoReview
=============================================================================
