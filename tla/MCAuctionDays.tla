---------------------------- MODULE MCAuctionDays ----------------------------
(***************************************************************************)
(* An instance of AuctionDays for TLC.                                     *)
(***************************************************************************)
EXTENDS AuctionDays, TLC

CONSTANTS a1, a2, a3, c1

\* One campaign, whose maxCpc was edited between two decisions.
OneCampaign == {<<[campaignId |-> c1, cpc |-> cpc]>> : cpc \in Costs}

DailyOf == [c \in Campaigns |-> 2]
TotalOfNone == [c \in Campaigns |-> NoLimit]

AuctionSymmetry == Permutations(Auctions)
=============================================================================
