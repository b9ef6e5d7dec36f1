----------------------------- MODULE HoldLedger -----------------------------
(***************************************************************************)
(* What became of every auction, and how much money of a campaign it ties  *)
(* up.  A ledger maps each auction to one entry:                           *)
(*                                                                         *)
(*   open    no budget was ever taken for it                               *)
(*   held    a winner-only reservation is outstanding (RESERVED)           *)
(*   billed  the reservation was turned into spent budget (COMMITTED)      *)
(*   freed   the reservation was given back (RELEASED)                     *)
(*                                                                         *)
(* Redis keeps the same facts only in pieces: the auction:{id} key while   *)
(* the reservation lasts, a marker without amounts for half an hour after, *)
(* and the sums dailyReserved, totalReserved, dailySpent and totalSpent in *)
(* the campaign document.  The ledger is what those sums must agree with.  *)
(***************************************************************************)
EXTENDS Naturals, FiniteSets

CONSTANTS Auctions,   \* auction ids (randomUUID of runAuction)
          Campaigns,  \* campaign ids
          MaxCost     \* largest maxCpc a candidate carries

ASSUME LedgerAssumption ==
    /\ IsFiniteSet(Auctions)
    /\ MaxCost \in Nat \ {0}

Costs == 1..MaxCost

Open == [fate |-> "open"]

Taken == [fate     : {"held", "billed", "freed"},
          campaign : Campaigns,
          cost     : Costs,
          day      : Nat]

Entry == Taken \union {Open}

Ledger == [Auctions -> Entry]

WithFate(e, fate) ==
    [fate |-> fate, campaign |-> e.campaign, cost |-> e.cost, day |-> e.day]

(***************************************************************************)
(* An entry counts for campaign c, the fates F and the KST days D.         *)
(***************************************************************************)
Counts(e, c, F, D) == e.fate \in F \ {"open"} /\ e.campaign = c /\ e.day \in D

(***************************************************************************)
(* Sum of the costs of the entries that count, as the number of units of   *)
(* money they are made of: unit <<a, u>> is the u-th unit of auction a.    *)
(***************************************************************************)
Units(L, c, F, D) ==
    {x \in Auctions \X Costs : Counts(L[x[1]], c, F, D) /\ x[2] <= L[x[1]].cost}

Amount(L, c, F, D) == Cardinality(Units(L, c, F, D))

TotalOf(L, c, F)  == Amount(L, c, F, Nat)
DayOf(L, c, F, d) == Amount(L, c, F, {d})
=============================================================================
