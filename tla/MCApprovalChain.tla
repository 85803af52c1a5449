-------------------------- MODULE MCApprovalChain --------------------------
(***************************************************************************)
(* Small instances of ApprovalChain: a definition of two steps and one of  *)
(* one step.                                                               *)
(***************************************************************************)
EXTENDS ApprovalChain

CONSTANTS main, other, legal, finance, ann

MCDefinitions == {main, other}
MCSteps == 1..3
MCDefinitionOf == [s \in MCSteps |-> IF s = 3 THEN other ELSE main]
MCRoles == {legal, finance}
MCPeople == {ann}
MCPlaces == 1..2
MCFirstSteps == {MCSteps, {2, 3}}

Ask(l, f) == [role \in MCRoles |-> IF role = legal THEN l ELSE f]
Rules(first, second) ==
  [k \in MCSteps \X MCRoles |-> IF k[1] = 1 THEN first[k[2]] ELSE second[k[2]]]
MCSetups == {Rules(Ask(1, 2), Ask(1, 0)), Rules(Ask(1, 0), Ask(1, 1)),
             Rules(Ask(1, 0), Ask(0, 0))}
=============================================================================
