---------------------------- MODULE MCLegacyBudget ----------------------------
(***************************************************************************)
(* Instances of LegacyBudget for TLC: two campaigns compete in one window, *)
(* or one after the other.                                                 *)
(***************************************************************************)
EXTENDS LegacyBudget

CONSTANTS c1, c2, a1, a2

Costs       == [c \in Campaigns |-> 1]
TwoRankings == {<<{c1, c2}>>, <<{c1}, {c2}>>}
=============================================================================
