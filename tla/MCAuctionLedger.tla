--------------------------- MODULE MCAuctionLedger ---------------------------
(***************************************************************************)
(* An instance of AuctionLedger for TLC.                                   *)
(***************************************************************************)
EXTENDS AuctionLedger

CONSTANTS a1, a2, c1

Bid(c, cpc) == [campaignId |-> c, cpc |-> cpc]

\* One campaign, whose maxCpc was edited between two decisions.
OneCampaign == {<<Bid(c1, 1)>>, <<Bid(c1, 2)>>}

\* The campaign can pay for one click of 2 and one of 1, a day and in all.
DailyOf == [c \in Campaigns |-> 3]
TotalOf3 == [c \in Campaigns |-> 3]
=============================================================================
