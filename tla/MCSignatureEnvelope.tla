------------------------ MODULE MCSignatureEnvelope ------------------------
(***************************************************************************)
(* A small instance of SignatureEnvelope.                                   *)
(***************************************************************************)
EXTENDS SignatureEnvelope

CONSTANT q1

MCOne == {q1}
=============================================================================
