--------------------------- MODULE MCCampaignCredit ---------------------------
(***************************************************************************)
(* Instances of CampaignCredit for TLC.                                    *)
(***************************************************************************)
EXTENDS CampaignCredit, TLC

CONSTANTS c1, c2, r1, r2, r3, r4

Raise == [budget |-> 3, status |-> None, start |-> None]
Move  == [budget |-> 2, status |-> "PAUSED", start |-> "PENDING"]

NoEdit      == {}
RaiseOrMove == {Raise, Move}

CreditSymmetry == Permutations(Calls) \union Permutations(Campaigns \ Old)
=============================================================================
