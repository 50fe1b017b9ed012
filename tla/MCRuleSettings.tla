--------------------------- MODULE MCRuleSettings ---------------------------
(* Instances of RuleSettings for TLC.                                      *)
EXTENDS RuleSettings, TLC

CONSTANTS route, list, b1

Route    == [lane |-> route, ids |-> {}, cap |-> 0]
ById     == [lane |-> list, ids |-> {b1}, cap |-> 0]

MCLanes  == {route, list}
MCBooks  == {<<Route, ById>>, <<[Route EXCEPT !.cap = 1]>>}

UserSymmetry == Permutations(Users)
=============================================================================
