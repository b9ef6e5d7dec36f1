----------------------------- MODULE MCClickFlow -----------------------------
(***************************************************************************)
(* Instances of ClickFlow for TLC.                                         *)
(***************************************************************************)
EXTENDS ClickFlow, TLC

CONSTANTS a1, a2, p1, q1, q2, w1, w2

\* One visitor loads the same post twice.
SamePage == [a \in Auctions |-> p1]

HandlerSymmetry == Permutations(Viewers) \union Permutations(Clickers)
=============================================================================
