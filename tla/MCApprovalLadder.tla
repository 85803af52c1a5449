-------------------------- MODULE MCApprovalLadder --------------------------
(***************************************************************************)
(* Small instances of ApprovalLadder.                                      *)
(***************************************************************************)
EXTENDS ApprovalLadder, TLC

CONSTANTS ann, bob, cal, one, two

MCUsers == {ann, bob, cal}
MCBob == {bob}
MCCal == {cal}
MCAnn == {ann}
MCDeciders == {bob, cal}
MCPair == {ann, bob}
MCNobody == {}
MCOneCall == {one}
MCTwoCalls == {one, two}
MCCallSymmetry == Permutations(MCTwoCalls)

\* The runs about versions ask one person, outside any team, and one session
\* at a time overrides.
MCAsksBob ==
  /\ team = {}
  /\ \A c, d \in Calls : session[c].override /\ session[d].override => c = d
  /\ \A c \in Calls : session[c].at = "asking" =>
       session[c].question.holder = [kind |-> "user", who |-> bob]
=============================================================================
