---------------------------- MODULE MCAuditChain ----------------------------
(***************************************************************************)
(* Small instances of AuditChain: two handlers on one event loop, and      *)
(* somebody else.                                                          *)
(***************************************************************************)
EXTENDS AuditChain

CONSTANTS a, b, c, contract

MCRequests == {a, b, c}
MCOnLoop == {a, b}
MCRows == {contract}
MCIds == 1..3
=============================================================================
