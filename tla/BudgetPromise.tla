---------------------------- MODULE BudgetPromise ----------------------------
(***************************************************************************)
(* What winner-only reservation promises an advertiser, without Redis,     *)
(* clocks or servers: an auction takes budget from at most one campaign,   *)
(* once; what it took is either billed or given back, once and for good;   *)
(* and a campaign with a total budget never has more than that budget      *)
(* billed and held together.                                               *)
(***************************************************************************)
EXTENDS HoldLedger

CONSTANTS TotalBudget,  \* totalBudget of each campaign, or NoLimit (null)
          NoLimit

VARIABLE ledger

Init == ledger = [a \in Auctions |-> Open]

Committed(c) == TotalOf(ledger, c, {"held"}) + TotalOf(ledger, c, {"billed"})

Affordable(c, cost) ==
    TotalBudget[c] = NoLimit \/ Committed(c) + cost <= TotalBudget[c]

(***************************************************************************)
(* The auction wins a hold of e.cost on e.campaign that the total budget   *)
(* can still carry.                                                        *)
(***************************************************************************)
Hold(a, e) ==
    /\ ledger[a] = Open
    /\ e \in Taken
    /\ e.fate = "held"
    /\ Affordable(e.campaign, e.cost)
    /\ ledger' = [ledger EXCEPT ![a] = e]

Settle(a, fate) ==
    /\ ledger[a].fate = "held"
    /\ ledger' = [ledger EXCEPT ![a] = WithFate(@, fate)]

Next == \E a \in Auctions :
            \/ Hold(a, ledger'[a])
            \/ Settle(a, "billed")
            \/ Settle(a, "freed")

Spec == Init /\ [][Next]_ledger
=============================================================================
