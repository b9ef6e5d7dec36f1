------------------------- MODULE AuctionLedger_proofs -------------------------
(***************************************************************************)
(* Proofs about winner-only reservation, for every number of auctions,     *)
(* campaigns and callers, every ranking, budget and cost, and every        *)
(* setting of the clock.                                                   *)
(***************************************************************************)
EXTENDS AuctionDays, FiniteSetTheorems, TLAPS

-----------------------------------------------------------------------------
(***************************************************************************)
(* How the amounts of a ledger change when one entry changes.              *)
(***************************************************************************)

(***************************************************************************)
(* What one entry contributes to an amount.                                *)
(***************************************************************************)
Share(e, c, F, D) == IF Counts(e, c, F, D) THEN e.cost ELSE 0

(***************************************************************************)
(* The units of auction a alone, and those of all other auctions.          *)
(***************************************************************************)
Own(a, n) == {a} \X (1..n)
Others(L, a, c, F, D) == {x \in Units(L, c, F, D) : x[1] # a}

(***************************************************************************)
(* An amount is a natural number: only finitely many units exist.          *)
(***************************************************************************)
LEMMA AmountType ==
    ASSUME NEW L, NEW c, NEW F, NEW D
    PROVE  IsFiniteSet(Units(L, c, F, D)) /\ Amount(L, c, F, D) \in Nat
<1>1. IsFiniteSet(Costs)
  BY FS_Interval, LedgerAssumption DEF Costs
<1>2. IsFiniteSet(Auctions \X Costs)
  BY <1>1, FS_Product, LedgerAssumption
<1>3. Units(L, c, F, D) \in SUBSET (Auctions \X Costs)
  BY DEF Units
<1> QED
  BY <1>2, <1>3, FS_Subset, FS_CardinalityType DEF Amount

(***************************************************************************)
(* Auction a has as many units as its cost.                                *)
(***************************************************************************)
LEMMA OwnCardinality ==
    ASSUME NEW a, NEW n \in Nat
    PROVE  IsFiniteSet(Own(a, n)) /\ Cardinality(Own(a, n)) = n
<1>1. IsFiniteSet(1..n) /\ Cardinality(1..n) = n
  BY FS_Interval
<1>2. IsFiniteSet({a}) /\ Cardinality({a}) = 1
  BY FS_Singleton
<1> QED
  BY <1>1, <1>2, FS_Product DEF Own

LEMMA ShareType ==
    ASSUME NEW e \in Entry, NEW c, NEW F, NEW D
    PROVE  Share(e, c, F, D) \in Nat /\ Share(e, c, F, D) <= MaxCost
  BY LedgerAssumption DEF Share, Counts, Entry, Taken, Open, Costs

(***************************************************************************)
(* An amount splits into the share of one auction and the units of the     *)
(* others.                                                                 *)
(***************************************************************************)
LEMMA AmountSplit ==
    ASSUME NEW L \in Ledger, NEW a \in Auctions, NEW c, NEW F, NEW D
    PROVE  /\ Cardinality(Others(L, a, c, F, D)) \in Nat
           /\ Amount(L, c, F, D)
                = Cardinality(Others(L, a, c, F, D)) + Share(L[a], c, F, D)
<1> DEFINE U == Units(L, c, F, D)
           R == Others(L, a, c, F, D)
           n == Share(L[a], c, F, D)
           S == Own(a, n)
<1>1. L[a] \in Entry
  BY DEF Ledger
<1>2. n \in Nat /\ n <= MaxCost
  BY <1>1, ShareType
<1>3. IsFiniteSet(R)
  BY AmountType, FS_Subset DEF Others
<1>4. IsFiniteSet(S) /\ Cardinality(S) = n
  BY <1>2, OwnCardinality
<1>5. U = R \union S
  <2>1. ASSUME NEW x \in U PROVE x \in R \union S
    <3>1. CASE x[1] # a
      BY <3>1 DEF Others
    <3>2. CASE x[1] = a
      <4>1. x = <<a, x[2]>> /\ x[2] \in Costs
        BY <3>2 DEF Units
      <4>2. Counts(L[a], c, F, D) /\ x[2] <= L[a].cost
        BY <3>2 DEF Units
      <4>3. x[2] \in 1..n
        BY <4>1, <4>2, LedgerAssumption, <1>2 DEF Share, Costs
      <4> QED
        BY <4>1, <4>3 DEF Own
    <3> QED
      BY <3>1, <3>2
  <2>2. ASSUME NEW x \in S PROVE x \in U
    <3>1. x = <<a, x[2]>> /\ x[2] \in 1..n /\ x[1] = a
      BY DEF Own
    <3>2. Counts(L[a], c, F, D) /\ n = L[a].cost
      BY <3>1, <1>2 DEF Share
    <3>3. x \in Auctions \X Costs
      BY <3>1, <1>2, LedgerAssumption DEF Costs
    <3> QED
      BY <3>1, <3>2, <3>3, <1>2 DEF Units
  <2>3. R \subseteq U
    BY DEF Others
  <2> QED
    BY <2>1, <2>2, <2>3
<1>6. R \cap S = {}
  BY DEF Others, Own
<1>7. Cardinality(U) = Cardinality(R) + Cardinality(S) - Cardinality(R \cap S)
  BY <1>3, <1>4, <1>5, FS_Union
<1>8. Cardinality(R \cap S) = 0
  BY <1>6, FS_EmptySet
<1>9. Cardinality(R) \in Nat
  BY <1>3, FS_CardinalityType
<1> QED
  BY <1>2, <1>4, <1>7, <1>8, <1>9 DEF Amount

(***************************************************************************)
(* Replacing the entry of one auction changes an amount by the difference  *)
(* of the two shares.                                                      *)
(***************************************************************************)
LEMMA AmountUpdate ==
    ASSUME NEW L \in Ledger, NEW a \in Auctions, NEW e \in Entry,
           NEW c, NEW F, NEW D
    PROVE  Amount([L EXCEPT ![a] = e], c, F, D) + Share(L[a], c, F, D)
             = Amount(L, c, F, D) + Share(e, c, F, D)
<1> DEFINE M == [L EXCEPT ![a] = e]
<1>1. M \in Ledger /\ M[a] = e /\ L[a] \in Entry
  BY DEF Ledger
<1>2. Others(M, a, c, F, D) = Others(L, a, c, F, D)
  BY DEF Others, Units, Ledger
<1>3. /\ Cardinality(Others(L, a, c, F, D)) \in Nat
      /\ Amount(L, c, F, D)
           = Cardinality(Others(L, a, c, F, D)) + Share(L[a], c, F, D)
  BY AmountSplit
<1>4. Amount(M, c, F, D)
        = Cardinality(Others(M, a, c, F, D)) + Share(M[a], c, F, D)
  <2> HIDE DEF M
  <2> QED
    BY <1>1, AmountSplit
<1>5. Share(e, c, F, D) \in Nat /\ Share(L[a], c, F, D) \in Nat
  BY <1>1, ShareType
<1> QED
  BY <1>1, <1>2, <1>3, <1>4, <1>5

(***************************************************************************)
(* The amounts of the empty ledger are zero.                               *)
(***************************************************************************)
LEMMA AmountOpen ==
    ASSUME NEW c, NEW F, NEW D
    PROVE  Amount([a \in Auctions |-> Open], c, F, D) = 0
<1>1. Units([a \in Auctions |-> Open], c, F, D) = {}
  BY DEF Units, Counts, Open
<1> QED
  BY <1>1, FS_EmptySet DEF Amount

LEMMA TotalType ==
    ASSUME NEW L, NEW c, NEW F
    PROVE  TotalOf(L, c, F) \in Nat
  BY AmountType DEF TotalOf

(***************************************************************************)
(* A new hold adds its cost to what its campaign holds, and nothing else.  *)
(***************************************************************************)
CostFor(e, c) == IF e.campaign = c THEN e.cost ELSE 0

LEMMA TotalsOnHold ==
    ASSUME NEW L \in Ledger, NEW a \in Auctions, L[a] = Open,
           NEW e \in Taken, e.fate = "held", NEW c
    PROVE  /\ TotalOf([L EXCEPT ![a] = e], c, {"held"})
                = TotalOf(L, c, {"held"}) + CostFor(e, c)
           /\ TotalOf([L EXCEPT ![a] = e], c, {"billed"}) = TotalOf(L, c, {"billed"})
<1> DEFINE M == [L EXCEPT ![a] = e]
<1>1. e \in Entry
  BY DEF Entry
<1>2. /\ Share(Open, c, {"held"}, Nat) = 0 /\ Share(Open, c, {"billed"}, Nat) = 0
      /\ Share(e, c, {"held"}, Nat) = CostFor(e, c)
      /\ Share(e, c, {"billed"}, Nat) = 0
  BY DEF Share, Counts, Open, Taken, CostFor
<1>3. \A F : Amount(M, c, F, Nat) + Share(L[a], c, F, Nat)
               = Amount(L, c, F, Nat) + Share(e, c, F, Nat)
  BY <1>1, AmountUpdate
<1>4. \A F : Amount(M, c, F, Nat) \in Nat /\ Amount(L, c, F, Nat) \in Nat
  BY AmountType
<1>5. CostFor(e, c) \in Nat
  BY LedgerAssumption DEF CostFor, Taken, Costs
<1>6. /\ Amount(M, c, {"held"}, Nat) = Amount(L, c, {"held"}, Nat) + CostFor(e, c)
      /\ Amount(M, c, {"billed"}, Nat) = Amount(L, c, {"billed"}, Nat)
  <2> HIDE DEF M
  <2> QED
    BY <1>2, <1>3, <1>4, <1>5
<1> QED
  BY <1>6 DEF TotalOf

(***************************************************************************)
(* Settling a hold takes its cost out of what its campaign holds; billing  *)
(* it adds the same cost to what the campaign was billed.                  *)
(***************************************************************************)
LEMMA TotalsOnSettle ==
    ASSUME NEW L \in Ledger, NEW a \in Auctions, L[a] \in Taken, L[a].fate = "held",
           NEW fate \in {"billed", "freed"}, NEW c
    PROVE  /\ TotalOf([L EXCEPT ![a] = WithFate(L[a], fate)], c, {"held"})
                + CostFor(L[a], c) = TotalOf(L, c, {"held"})
           /\ TotalOf([L EXCEPT ![a] = WithFate(L[a], fate)], c, {"billed"})
                = TotalOf(L, c, {"billed"})
                    + (IF fate = "billed" THEN CostFor(L[a], c) ELSE 0)
<1> DEFINE e == WithFate(L[a], fate)
           M == [L EXCEPT ![a] = e]
<1>1. e \in Entry
  BY DEF WithFate, Entry, Taken
<1>2. /\ Share(L[a], c, {"held"}, Nat) = CostFor(L[a], c)
      /\ Share(L[a], c, {"billed"}, Nat) = 0
      /\ Share(e, c, {"held"}, Nat) = 0
      /\ Share(e, c, {"billed"}, Nat) = IF fate = "billed" THEN CostFor(L[a], c) ELSE 0
  BY DEF Share, Counts, Taken, CostFor, WithFate
<1> HIDE DEF e
<1>3. \A F : Amount(M, c, F, Nat) + Share(L[a], c, F, Nat)
               = Amount(L, c, F, Nat) + Share(e, c, F, Nat)
  BY <1>1, AmountUpdate
<1>4. \A F : Amount(M, c, F, Nat) \in Nat /\ Amount(L, c, F, Nat) \in Nat
  BY AmountType
<1>5. CostFor(L[a], c) \in Nat
  BY LedgerAssumption DEF CostFor, Taken, Costs
<1>6. /\ Amount(M, c, {"held"}, Nat) + CostFor(L[a], c) = Amount(L, c, {"held"}, Nat)
      /\ Amount(M, c, {"billed"}, Nat) = Amount(L, c, {"billed"}, Nat)
            + (IF fate = "billed" THEN CostFor(L[a], c) ELSE 0)
  <2> HIDE DEF M
  <2> QED
    BY <1>2, <1>3, <1>4, <1>5
<1> QED
  BY <1>6 DEF TotalOf, e

(***************************************************************************)
(* The same for one KST day: a hold and its settling change the sums of    *)
(* the hold's own day and of no other.                                     *)
(***************************************************************************)
CostOn(e, c, d) == IF e.campaign = c /\ e.day = d THEN e.cost ELSE 0

LEMMA DayType ==
    ASSUME NEW L, NEW c, NEW F, NEW d
    PROVE  DayOf(L, c, F, d) \in Nat
  BY AmountType DEF DayOf

LEMMA CostOnType ==
    ASSUME NEW e \in Taken, NEW c, NEW d
    PROVE  CostOn(e, c, d) \in Nat
  BY LedgerAssumption DEF CostOn, Taken, Costs

LEMMA DaysOnHold ==
    ASSUME NEW L \in Ledger, NEW a \in Auctions, L[a] = Open,
           NEW e \in Taken, e.fate = "held", NEW c, NEW d
    PROVE  /\ DayOf([L EXCEPT ![a] = e], c, {"held"}, d)
                = DayOf(L, c, {"held"}, d) + CostOn(e, c, d)
           /\ DayOf([L EXCEPT ![a] = e], c, {"billed"}, d) = DayOf(L, c, {"billed"}, d)
<1> DEFINE M == [L EXCEPT ![a] = e]
<1>1. e \in Entry
  BY DEF Entry
<1>2. /\ Share(Open, c, {"held"}, {d}) = 0 /\ Share(Open, c, {"billed"}, {d}) = 0
      /\ Share(e, c, {"held"}, {d}) = CostOn(e, c, d)
      /\ Share(e, c, {"billed"}, {d}) = 0
  BY DEF Share, Counts, Open, CostOn
<1>3. \A F : DayOf(M, c, F, d) + Share(L[a], c, F, {d})
               = DayOf(L, c, F, d) + Share(e, c, F, {d})
  BY <1>1, AmountUpdate DEF DayOf
<1>4. \A F : DayOf(M, c, F, d) \in Nat /\ DayOf(L, c, F, d) \in Nat
  BY DayType
<1>5. CostOn(e, c, d) \in Nat
  BY CostOnType
<1> HIDE DEF M
<1>6. /\ DayOf(M, c, {"held"}, d) = DayOf(L, c, {"held"}, d) + CostOn(e, c, d)
      /\ DayOf(M, c, {"billed"}, d) = DayOf(L, c, {"billed"}, d)
  BY <1>2, <1>3, <1>4, <1>5
<1> QED
  BY <1>6 DEF M

LEMMA DaysOnSettle ==
    ASSUME NEW L \in Ledger, NEW a \in Auctions, L[a] \in Taken, L[a].fate = "held",
           NEW e \in Taken, e.fate # "held", NEW c, NEW d,
           e.campaign = L[a].campaign, e.cost = L[a].cost, e.day = L[a].day
    PROVE  /\ DayOf([L EXCEPT ![a] = e], c, {"held"}, d) + CostOn(e, c, d)
                = DayOf(L, c, {"held"}, d)
           /\ e.fate = "billed" =>
                DayOf([L EXCEPT ![a] = e], c, {"billed"}, d)
                  = DayOf(L, c, {"billed"}, d) + CostOn(e, c, d)
           /\ e.fate # "billed" =>
                DayOf([L EXCEPT ![a] = e], c, {"billed"}, d) = DayOf(L, c, {"billed"}, d)
<1> DEFINE M == [L EXCEPT ![a] = e]
<1>1. e \in Entry
  BY DEF Entry
<1>2. /\ Share(L[a], c, {"held"}, {d}) = CostOn(e, c, d)
      /\ Share(L[a], c, {"billed"}, {d}) = 0
      /\ Share(e, c, {"held"}, {d}) = 0
      /\ Share(e, c, {"billed"}, {d}) = IF e.fate = "billed" THEN CostOn(e, c, d) ELSE 0
  BY DEF Share, Counts, CostOn
<1>3. \A F : DayOf(M, c, F, d) + Share(L[a], c, F, {d})
               = DayOf(L, c, F, d) + Share(e, c, F, {d})
  BY <1>1, AmountUpdate DEF DayOf
<1>4. \A F : DayOf(M, c, F, d) \in Nat /\ DayOf(L, c, F, d) \in Nat
  BY DayType
<1>5. CostOn(e, c, d) \in Nat
  BY CostOnType
<1> HIDE DEF M
<1>6. /\ DayOf(M, c, {"held"}, d) + CostOn(e, c, d) = DayOf(L, c, {"held"}, d)
      /\ DayOf(M, c, {"billed"}, d) = DayOf(L, c, {"billed"}, d)
            + (IF e.fate = "billed" THEN CostOn(e, c, d) ELSE 0)
  BY <1>2, <1>3, <1>4, <1>5
<1> QED
  BY <1>4, <1>6 DEF M

(***************************************************************************)
(* A day on which nothing was taken has nothing held and nothing billed.   *)
(***************************************************************************)
LEMMA EmptyDay ==
    ASSUME NEW L, NEW c, NEW F, NEW d,
           \A a \in Auctions : L[a] # Open => L[a].day # d,
           L \in Ledger
    PROVE  DayOf(L, c, F, d) = 0
<1>1. \A a \in Auctions : ~Counts(L[a], c, F, {d})
  BY DEF Counts, Open, Ledger, Entry
<1>2. Units(L, c, F, {d}) = {}
  BY <1>1 DEF Units
<1> QED
  BY <1>2, FS_EmptySet DEF DayOf, Amount

-----------------------------------------------------------------------------
(***************************************************************************)
(* Types.                                                                  *)
(***************************************************************************)
LEMMA DateType ==
    ASSUME NEW t \in Nat
    PROVE  KstDate(t) \in Nat /\ NextMidnight(t) \in Nat
<1>1. \A n \in Nat, m \in Nat \ {0} : n \div m \in Nat
  BY SMT
<1>2. \A n \in Nat, m \in Nat : (n + 1) * m \in Nat
  BY SMT
<1> QED
  BY <1>1, <1>2, AuctionAssumption DEF KstDate, NextMidnight

(***************************************************************************)
(* The status of a value tells which kind of value it is.                  *)
(***************************************************************************)
LEMMA AuctionKinds ==
    ASSUME TypeOK, NEW a \in Auctions
    PROVE  /\ auction[a].status = "RESERVED" => auction[a] \in Reservation
           /\ auction[a].status \in {"COMMITTED", "RELEASED"} => auction[a] \in Marker
           /\ \/ auction[a].status = "RESERVED"
              \/ auction[a].status \in {"COMMITTED", "RELEASED"}
              \/ auction[a] = NoAuction
           /\ NoAuction.status = "missing"
<1>1. auction[a] \in Reservation \union Marker \union {NoAuction}
  BY DEF TypeOK
<1> QED
  BY <1>1 DEF Reservation, Marker, NoAuction

LEMMA RequestKinds ==
    ASSUME TypeOK, NEW a \in Auctions
    PROVE  request[a].phase = "reserving" <=> request[a] \in InFlight
<1>1. request[a] \in Requests
  BY DEF TypeOK
<1> QED
  BY <1>1 DEF Requests, InFlight, Phase

LEMMA DocKinds ==
    ASSUME TypeOK, NEW c \in Campaigns
    PROVE  InCache(c) => doc[c] \in Doc
  BY DEF TypeOK, InCache

LEMMA PhaseTypes ==
    /\ Phase("idle") \in Requests
    /\ Phase("answered") \in Requests
    /\ Phase("failed") \in Requests
  BY DEF Requests

LEMMA WonType ==
    ASSUME TypeOK, NEW a \in Auctions
    PROVE  Won(a) \subseteq Requests
<1>1. request[a] \in Requests
  BY DEF TypeOK
<1> QED
  BY <1>1, PhaseTypes DEF Won

(***************************************************************************)
(* A window holds candidates.                                              *)
(***************************************************************************)
LEMMA WindowCandidate ==
    ASSUME NEW r \in InFlight, NEW i \in Window(r)
    PROVE  r.ranked[i] \in Candidates
<1>1. r.ranked \in Seq(Candidates)
  BY AuctionAssumption DEF InFlight
<1>2. i \in DOMAIN r.ranked
  BY DEF Window
<1> QED
  BY <1>1, <1>2

LEMMA TypeInit == Init => TypeOK
<1> SUFFICES ASSUME Init PROVE TypeOK
  OBVIOUS
<1>1. doc \in [Campaigns -> Doc \union {NoDoc}]
  BY DEF Init, Doc, Statuses
<1>2. ledger \in Ledger
  BY DEF Init, Ledger, Entry
<1>3. request \in [Auctions -> Requests]
  BY PhaseTypes DEF Init
<1> QED
  BY <1>1, <1>2, <1>3 DEF Init, TypeOK

(***************************************************************************)
(* The document updates of the scripts, field by field.                    *)
(***************************************************************************)
LEMMA MinusType == \A x, y \in Nat : Minus(x, y) \in Nat
  BY DEF Minus

LEMMA TakeHoldFields ==
    ASSUME NEW d \in Doc, NEW cost \in Nat, NEW date \in Nat
    PROVE  /\ TakeHold(d, cost, date) \in Doc
           /\ TakeHold(d, cost, date).totalReserved = d.totalReserved + cost
           /\ TakeHold(d, cost, date).totalSpent = d.totalSpent
<1>1. ReservedFor(d, date) \in Nat
  BY DEF ReservedFor, Doc
<1> QED
  BY <1>1 DEF TakeHold, Doc

LEMMA SettledFields ==
    ASSUME NEW d \in Doc, NEW r \in Reservation, NEW spent \in Nat
    PROVE  /\ Settled(d, r, spent) \in Doc
           /\ Settled(d, r, spent).totalReserved = Minus(d.totalReserved, r.cost)
           /\ Settled(d, r, spent).totalSpent = d.totalSpent + spent
<1>1. r.cost \in Nat
  BY LedgerAssumption DEF Reservation, Costs
<1>2. Minus(d.totalReserved, r.cost) \in Nat /\ Minus(d.dailyReserved, r.cost) \in Nat
  BY <1>1, MinusType DEF Doc
<1> QED
  BY <1>2 DEF Settled, Doc

LEMMA GiveBackFields ==
    ASSUME NEW d \in Doc, NEW r \in Reservation
    PROVE  /\ GiveBack(d, r) \in Doc
           /\ GiveBack(d, r).totalReserved = Minus(d.totalReserved, r.cost)
           /\ GiveBack(d, r).totalSpent = d.totalSpent
<1>1. d.totalSpent \in Nat
  BY DEF Doc
<1> QED
  BY <1>1, SettledFields DEF GiveBack

LEMMA BillFields ==
    ASSUME NEW d \in Doc, NEW r \in Reservation
    PROVE  /\ Bill(d, r) \in Doc
           /\ Bill(d, r).totalReserved = Minus(d.totalReserved, r.cost)
           /\ Bill(d, r).totalSpent = d.totalSpent + r.cost
<1>1. r.cost \in Nat
  BY LedgerAssumption DEF Reservation, Costs
<1> QED
  BY <1>1, SettledFields DEF Bill

LEMMA TakenHold ==
    ASSUME TypeOK, NEW a \in Auctions, ledger[a].fate = "held"
    PROVE  ledger[a] \in Taken /\ ledger[a] # Open
<1>1. ledger[a] \in Entry
  BY DEF TypeOK, Ledger
<1> QED
  BY <1>1 DEF Entry, Taken, Open

(***************************************************************************)
(* The invariant that carries the proofs.  TypeOK is not inductive by      *)
(* itself: settling an auction that holds nothing would leave a broken     *)
(* entry.  Linked ties the auction keys to the ledger.  OncePerRequest     *)
(* says why no auction id is ever reserved twice: while its request can    *)
(* still send the reserve script, either nothing was taken yet, or the     *)
(* auction key is there to stop the second reservation, because a terminal *)
(* marker outlives the request (RequestLife < MarkerTtl).                  *)
(***************************************************************************)
Linked ==
    \A a \in Auctions :
        /\ ledger[a].fate = "held" <=> auction[a].status = "RESERVED"
        /\ auction[a].status = "RESERVED" =>
              /\ ledger[a].campaign = auction[a].campaignId
              /\ ledger[a].cost = auction[a].cost

IsMarked(a) == auction[a].status \in {"COMMITTED", "RELEASED"}

OncePerRequest ==
    \A a \in Auctions :
        /\ ledger[a] = Open => auction[a] = NoAuction
        /\ request[a] = Phase("idle") => ledger[a] = Open
        /\ request[a].phase = "reserving" =>
              /\ request[a].stampedAt <= clock
              /\ ledger[a] # Open /\ auction[a] = NoAuction =>
                    request[a].stampedAt + MarkerTtl <= clock
              /\ IsMarked(a) => request[a].stampedAt + MarkerTtl <= auction[a].ttlEnd

Core ==
    /\ TypeOK
    /\ Linked
    /\ OncePerRequest
    /\ HoldsAreQueued

LEMMA CoreInit == Init => Core
<1> SUFFICES ASSUME Init PROVE Core
  OBVIOUS
<1>1. Linked
  BY DEF Init, Linked, Open, NoAuction
<1>2. OncePerRequest
  BY DEF Init, OncePerRequest, Open, NoAuction, Phase, IsMarked
<1>3. HoldsAreQueued
  BY DEF Init, HoldsAreQueued, NoAuction
<1> QED
  BY <1>1, <1>2, <1>3, TypeInit DEF Core

(***************************************************************************)
(* Taking an auction without a hold out of the ZSET changes nothing.       *)
(***************************************************************************)
LEMMA UnqueuedSame ==
    ASSUME Core, NEW a \in Auctions, auction[a] = NoAuction
    PROVE  Unqueued(a) = expirations
  BY DEF Core, HoldsAreQueued, Unqueued, NoAuction

(***************************************************************************)
(* Steps that leave the auction keys, the ZSET, the ledger and the clock   *)
(* alone keep everything but the types and the requests for free.          *)
(***************************************************************************)
LEMMA QuietStep ==
    ASSUME Core, UNCHANGED <<clock, auction, expirations, ledger>>,
           doc' \in [Campaigns -> Doc \union {NoDoc}],
           request' \in [Auctions -> Requests],
           call' \in [Callers \X Auctions -> PendingCall \union {NoCall}],
           \A a \in Auctions :
              /\ request'[a] = Phase("idle") => request[a] = Phase("idle")
              /\ request'[a].phase = "reserving" =>
                    \/ /\ request[a].phase = "reserving"
                       /\ request'[a].stampedAt = request[a].stampedAt
                    \/ /\ request[a] = Phase("idle")
                       /\ request'[a].stampedAt = clock
    PROVE  Core'
<1>1. TypeOK'
  BY DEF Core, TypeOK
<1>2. Linked'
  BY DEF Core, Linked
<1>3. HoldsAreQueued'
  BY DEF Core, HoldsAreQueued
<1>4. OncePerRequest'
  <2> SUFFICES ASSUME NEW a \in Auctions
               PROVE  /\ ledger[a] = Open => auction[a] = NoAuction
                      /\ request'[a] = Phase("idle") => ledger[a] = Open
                      /\ request'[a].phase = "reserving" =>
                           /\ request'[a].stampedAt <= clock
                           /\ ledger[a] # Open /\ auction[a] = NoAuction =>
                                request'[a].stampedAt + MarkerTtl <= clock
                           /\ IsMarked(a) =>
                                request'[a].stampedAt + MarkerTtl <= auction[a].ttlEnd
    BY DEF OncePerRequest, IsMarked
  <2>1. clock \in Nat
    BY DEF Core, TypeOK
  <2>2. IsMarked(a) => auction[a] # NoAuction
    BY DEF IsMarked, NoAuction
  <2> QED
    BY <2>1, <2>2 DEF Core, OncePerRequest
<1> QED
  BY <1>1, <1>2, <1>3, <1>4 DEF Core

LEMMA StartDecisionStep ==
    ASSUME Core, NEW a \in Auctions, NEW ranked \in Rankings, StartDecision(a, ranked)
    PROVE  Core'
<1> DEFINE r == [phase      |-> "reserving",
                 ranked     |-> ranked,
                 start      |-> 1,
                 stampedAt  |-> clock,
                 budgetDate |-> Today,
                 expiresAt  |-> Smaller(clock + HoldTtl, NextMidnight(clock))]
<1>1. TypeOK /\ clock \in Nat /\ HoldTtl \in Nat
  BY AuctionAssumption DEF Core, TypeOK
<1>2. Today \in Nat /\ NextMidnight(clock) \in Nat
  BY <1>1, DateType DEF Today
<1>3. Smaller(clock + HoldTtl, NextMidnight(clock)) \in Nat
  BY <1>1, <1>2 DEF Smaller
<1>4. r \in InFlight
  BY <1>1, <1>2, <1>3 DEF InFlight
<1>5. request' = [request EXCEPT ![a] = r] /\ request[a] = Phase("idle")
  BY DEF StartDecision
<1>6. r.phase = "reserving" /\ r.stampedAt = clock /\ r # Phase("idle")
  BY DEF Phase
<1> HIDE DEF r
<1>7. request' \in [Auctions -> Requests]
  BY <1>1, <1>4, <1>5 DEF TypeOK, Requests
<1>8. request'[a] = r /\ \A b \in Auctions \ {a} : request'[b] = request[b]
  BY <1>1, <1>5 DEF TypeOK
<1> QED
  BY <1>1, <1>5, <1>6, <1>7, <1>8, QuietStep DEF StartDecision, TypeOK

(***************************************************************************)
(* A request that does not go back to idle and keeps its stamp.            *)
(***************************************************************************)
Follows(next, a) ==
    \/ next \in {Phase("answered"), Phase("failed")}
    \/ next \in InFlight /\ next.stampedAt = request[a].stampedAt

LEMMA FollowingRequest ==
    ASSUME TypeOK, NEW a \in Auctions, request[a].phase = "reserving",
           NEW next, Follows(next, a), request' = [request EXCEPT ![a] = next]
    PROVE  /\ request' \in [Auctions -> Requests]
           /\ \A b \in Auctions :
                /\ request'[b] = Phase("idle") => request[b] = Phase("idle")
                /\ request'[b].phase = "reserving" =>
                     /\ request[b].phase = "reserving"
                     /\ request'[b].stampedAt = request[b].stampedAt
<1>1. next \in Requests
  BY PhaseTypes DEF Follows, Requests
<1>2. next # Phase("idle") /\ (next.phase = "reserving" => next \in InFlight)
  BY DEF Follows, Phase, InFlight
<1>3. request'[a] = next /\ \A b \in Auctions \ {a} : request'[b] = request[b]
  BY DEF TypeOK
<1>4. request' \in [Auctions -> Requests]
  BY <1>1 DEF TypeOK
<1>5. next.phase = "reserving" => next.stampedAt = request[a].stampedAt
  BY DEF Follows, Phase
<1> QED
  BY <1>2, <1>3, <1>4, <1>5

LEMMA WonFollows ==
    ASSUME TypeOK, NEW a \in Auctions, request[a].phase = "reserving",
           NEW next \in Won(a)
    PROVE  Follows(next, a)
  BY RequestKinds DEF Won, Follows

LEMMA NextWindow ==
    ASSUME NEW r \in InFlight, NEW n \in Nat
    PROVE  /\ [r EXCEPT !.start = n] \in InFlight
           /\ [r EXCEPT !.start = n].stampedAt = r.stampedAt
  BY DEF InFlight

LEMMA RequestStep ==
    ASSUME Core, NEW a \in Auctions,
           ReserveFindsExisting(a) \/ ReserveExhausted(a) \/ AbandonDecision(a)
    PROVE  Core'
<1>1. TypeOK /\ UNCHANGED <<clock, doc, auction, expirations, call, ledger>>
  BY DEF Core, ReserveFindsExisting, ReserveExhausted, AbandonDecision
<1>2. request[a].phase = "reserving"
  BY DEF ReserveFindsExisting, ReserveExhausted, AbandonDecision, Reserving
<1>3. PICK next : Follows(next, a) /\ request' = [request EXCEPT ![a] = next]
  <2>1. CASE ReserveFindsExisting(a)
    BY <1>1, <1>2, <2>1, WonFollows DEF ReserveFindsExisting, Follows
  <2>2. CASE ReserveExhausted(a)
    <3> DEFINE moved == [request[a] EXCEPT !.start = @ + TopK]
    <3>1. request[a] \in InFlight
      BY <1>1, <1>2, RequestKinds
    <3>2. request[a].start + TopK \in Nat
      BY <3>1, AuctionAssumption DEF InFlight
    <3>3. moved \in InFlight /\ moved.stampedAt = request[a].stampedAt
      BY <3>1, <3>2, NextWindow
    <3> QED
      BY <2>2, <3>3 DEF ReserveExhausted, Follows
  <2>3. CASE AbandonDecision(a)
    BY <2>3 DEF AbandonDecision, Follows
  <2> QED
    BY <2>1, <2>2, <2>3
<1> QED
  BY <1>1, <1>2, <1>3, FollowingRequest, QuietStep DEF TypeOK

(***************************************************************************)
(* Steps of the campaign documents, and the start of a call.               *)
(***************************************************************************)
LEMMA MaintainStep ==
    ASSUME Core, NEW c \in Campaigns, Maintain(c)
    PROVE  Core'
<1>1. TypeOK /\ UNCHANGED <<clock, auction, expirations, request, call, ledger>>
  BY DEF Core, Maintain, UpdateStatus, DeleteCampaign, ResetDaily
<1>2. InCache(c) => doc[c] \in Doc
  BY <1>1, DocKinds
<1>3. doc' \in [Campaigns -> Doc \union {NoDoc}]
  <2>1. ASSUME NEW status \in Statuses, UpdateStatus(c, status)
        PROVE  doc' \in [Campaigns -> Doc \union {NoDoc}]
    <3>1. [doc[c] EXCEPT !.status = status] \in Doc
      BY <1>2, <2>1 DEF UpdateStatus, Doc
    <3> QED
      BY <1>1, <2>1, <3>1 DEF UpdateStatus, TypeOK
  <2>2. CASE DeleteCampaign(c)
    BY <1>1, <2>2 DEF DeleteCampaign, TypeOK
  <2>3. CASE ResetDaily(c)
    <3> DEFINE d == [status            |-> doc[c].status,
                     dailySpent        |-> 0,
                     totalSpent        |-> doc[c].totalSpent,
                     dailyReserved     |-> 0,
                     totalReserved     |-> doc[c].totalReserved,
                     dailyReservedDate |-> Today,
                     lastResetDate     |-> Today]
    <3>1. Today \in Nat
      BY <1>1, DateType DEF TypeOK, Today
    <3>2. d \in Doc
      BY <1>2, <2>3, <3>1 DEF ResetDaily, Doc
    <3>3. doc' = [doc EXCEPT ![c] = d]
      BY <2>3 DEF ResetDaily
    <3> QED
      BY <1>1, <3>2, <3>3 DEF TypeOK
  <2> QED
    BY <2>1, <2>2, <2>3 DEF Maintain
<1> QED
  BY <1>1, <1>3, QuietStep DEF TypeOK

LEMMA BeginStep ==
    ASSUME Core, NEW k \in Callers, NEW a \in Auctions,
           BeginTransition(k, a) \/ BeginFindsNothing(k, a)
    PROVE  Core'
<1>1. TypeOK
  BY DEF Core
<1>2. CASE BeginTransition(k, a)
  <2> DEFINE p == [status |-> "pending", budgetDate |-> Today, at |-> clock]
  <2>1. p \in PendingCall
    BY <1>1, DateType DEF TypeOK, Today, PendingCall
  <2>2. call' = [call EXCEPT ![<<k, a>>] = p]
    BY <1>2 DEF BeginTransition
  <2>3. call' \in [Callers \X Auctions -> PendingCall \union {NoCall}]
    BY <1>1, <2>1, <2>2 DEF TypeOK
  <2> QED
    BY <1>1, <1>2, <2>3, QuietStep DEF BeginTransition, TypeOK
<1>3. CASE BeginFindsNothing(k, a)
  <2>1. UNCHANGED vars
    BY <1>3, UnqueuedSame DEF BeginFindsNothing, vars
  <2> QED
    BY <1>1, <2>1, QuietStep DEF vars, TypeOK
<1> QED
  BY <1>2, <1>3

(***************************************************************************)
(* Time only removes markers, and only those whose TTL is over.            *)
(***************************************************************************)
LEMMA TickStep ==
    ASSUME Core, Tick
    PROVE  Core'
<1>1. /\ TypeOK /\ clock \in Nat /\ clock' = clock + 1
      /\ UNCHANGED <<doc, expirations, request, call, ledger>>
  BY DEF Core, TypeOK, Tick
<1>2. ASSUME NEW a \in Auctions
      PROVE  /\ auction'[a] = auction[a] \/ auction'[a] = NoAuction
             /\ auction'[a] # auction[a] => IsMarked(a) /\ auction[a].ttlEnd <= clock + 1
  BY DEF Tick, IsMarked
<1>3. TypeOK'
  BY <1>1, <1>2 DEF Tick, TypeOK
<1>4. ASSUME NEW a \in Auctions
      PROVE  /\ auction'[a].status = "RESERVED" <=> auction[a].status = "RESERVED"
             /\ auction[a].status = "RESERVED" => auction'[a] = auction[a]
  BY <1>2 DEF IsMarked, NoAuction
<1>5. Linked'
  BY <1>1, <1>4 DEF Core, Linked
<1>6. HoldsAreQueued'
  BY <1>1, <1>4 DEF Core, HoldsAreQueued
<1>7. OncePerRequest'
  <2> SUFFICES ASSUME NEW a \in Auctions
               PROVE  /\ ledger[a] = Open => auction'[a] = NoAuction
                      /\ request[a] = Phase("idle") => ledger[a] = Open
                      /\ request[a].phase = "reserving" =>
                           /\ request[a].stampedAt <= clock + 1
                           /\ ledger[a] # Open /\ auction'[a] = NoAuction =>
                                request[a].stampedAt + MarkerTtl <= clock + 1
                           /\ auction'[a].status \in {"COMMITTED", "RELEASED"} =>
                                request[a].stampedAt + MarkerTtl <= auction'[a].ttlEnd
    BY <1>1 DEF OncePerRequest, IsMarked
  <2>1. /\ ledger[a] = Open => auction[a] = NoAuction
        /\ request[a] = Phase("idle") => ledger[a] = Open
    BY DEF Core, OncePerRequest
  <2>2. CASE request[a].phase # "reserving"
    BY <2>1, <2>2, <1>2
  <2>3. CASE request[a].phase = "reserving"
    <3>1. request[a].stampedAt \in Nat /\ MarkerTtl \in Nat
      BY <1>1, <2>3, RequestKinds, AuctionAssumption DEF InFlight
    <3>2. IsMarked(a) => auction[a].ttlEnd \in Nat
      BY <1>1, AuctionKinds DEF IsMarked, Marker
    <3>3. /\ request[a].stampedAt <= clock
          /\ ledger[a] # Open /\ auction[a] = NoAuction =>
                request[a].stampedAt + MarkerTtl <= clock
          /\ IsMarked(a) => request[a].stampedAt + MarkerTtl <= auction[a].ttlEnd
      BY <2>3 DEF Core, OncePerRequest
    <3>4. NoAuction.status \notin {"COMMITTED", "RELEASED"}
      BY DEF NoAuction
    <3> QED
      BY <1>1, <1>2, <2>1, <3>1, <3>2, <3>3, <3>4 DEF IsMarked
  <2> QED
    BY <2>2, <2>3
<1> QED
  BY <1>3, <1>5, <1>6, <1>7 DEF Core

(***************************************************************************)
(* A successful reservation: auction a, which never held anything, takes a *)
(* hold of x.cpc on the eligible campaign x.campaignId.                    *)
(***************************************************************************)
HoldOf(a, x) == [status |-> "RESERVED", campaignId |-> x.campaignId, cost |-> x.cpc,
                 budgetDate |-> request[a].budgetDate, expiresAt |-> request[a].expiresAt]

EntryOf(a, x) == [fate |-> "held", campaign |-> x.campaignId, cost |-> x.cpc,
                  day |-> request[a].budgetDate]

Wins(a, x) ==
    /\ Eligible(x, request[a].budgetDate)
    /\ doc' = [doc EXCEPT ![x.campaignId] = TakeHold(@, x.cpc, request[a].budgetDate)]
    /\ auction' = [auction EXCEPT ![a] = HoldOf(a, x)]
    /\ expirations' = Unqueued(a) \union {[id |-> a, score |-> request[a].expiresAt]}
    /\ ledger' = [ledger EXCEPT ![a] = EntryOf(a, x)]

LEMMA ReserveWinsFacts ==
    ASSUME Core, NEW a \in Auctions, ReserveWins(a)
    PROVE  /\ request[a] \in InFlight
           /\ auction[a] = NoAuction
           /\ ledger[a] = Open
           /\ UNCHANGED <<clock, call>>
           /\ \E x \in Candidates : Wins(a, x)
           /\ \E next : Follows(next, a) /\ request' = [request EXCEPT ![a] = next]
<1>1. /\ TypeOK
      /\ request[a].phase = "reserving"
      /\ clock <= request[a].stampedAt + RequestLife
      /\ auction[a] = NoAuction
      /\ UNCHANGED <<clock, call>>
  BY DEF Core, ReserveWins, Reserving
<1>2. request[a] \in InFlight
  BY <1>1, RequestKinds
<1>3. ledger[a] = Open
  <2>1. request[a].stampedAt \in Nat /\ clock \in Nat
    BY <1>1, <1>2 DEF InFlight, TypeOK
  <2>2. ~(request[a].stampedAt + MarkerTtl <= clock)
    BY <1>1, <2>1, AuctionAssumption
  <2> QED
    BY <1>1, <2>2 DEF Core, OncePerRequest
<1>4. \E x \in Candidates : Wins(a, x)
  <2>1. PICK i \in Reservable(request[a]) :
          LET c    == request[a].ranked[i].campaignId
              cost == request[a].ranked[i].cpc
          IN  /\ doc' = [doc EXCEPT ![c] = TakeHold(@, cost, request[a].budgetDate)]
              /\ auction' = [auction EXCEPT ![a] =
                    [status |-> "RESERVED", campaignId |-> c, cost |-> cost,
                     budgetDate |-> request[a].budgetDate,
                     expiresAt |-> request[a].expiresAt]]
              /\ expirations' =
                    Unqueued(a) \union {[id |-> a, score |-> request[a].expiresAt]}
              /\ ledger' = [ledger EXCEPT ![a] =
                    [fate |-> "held", campaign |-> c, cost |-> cost,
                     day |-> request[a].budgetDate]]
    BY DEF ReserveWins
  <2>2. i \in Window(request[a]) /\ Eligible(request[a].ranked[i], request[a].budgetDate)
    BY DEF Reservable
  <2>3. request[a].ranked[i] \in Candidates
    BY <1>2, <2>2, WindowCandidate
  <2> QED
    BY <2>1, <2>2, <2>3 DEF Wins, HoldOf, EntryOf
<1>5. \E next : Follows(next, a) /\ request' = [request EXCEPT ![a] = next]
  BY <1>1, WonFollows DEF ReserveWins
<1> QED
  BY <1>1, <1>2, <1>3, <1>4, <1>5

LEMMA ReserveWinsStep ==
    ASSUME Core, NEW a \in Auctions, ReserveWins(a)
    PROVE  Core'
<1>1. /\ TypeOK
      /\ request[a] \in InFlight
      /\ auction[a] = NoAuction
      /\ UNCHANGED <<clock, call>>
  BY ReserveWinsFacts DEF Core
<1>2. PICK x \in Candidates : Wins(a, x)
  BY ReserveWinsFacts
<1>3. PICK next : Follows(next, a) /\ request' = [request EXCEPT ![a] = next]
  BY ReserveWinsFacts
<1>4. /\ x.campaignId \in Campaigns
      /\ x.cpc \in Costs
      /\ x.cpc \in Nat
      /\ request[a].budgetDate \in Nat
      /\ request[a].expiresAt \in Nat
      /\ request[a].phase = "reserving"
  BY <1>1, LedgerAssumption DEF Candidates, Costs, InFlight
<1>5. HoldOf(a, x) \in Reservation /\ EntryOf(a, x) \in Taken /\ EntryOf(a, x) # Open
  BY <1>4 DEF HoldOf, EntryOf, Reservation, Taken, Open
<1>6. /\ auction'[a] = HoldOf(a, x) /\ ledger'[a] = EntryOf(a, x)
      /\ \A b \in Auctions \ {a} : auction'[b] = auction[b] /\ ledger'[b] = ledger[b]
  BY <1>1, <1>2 DEF Wins, TypeOK, Ledger
<1>7. /\ request' \in [Auctions -> Requests]
      /\ \A b \in Auctions :
           /\ request'[b] = Phase("idle") => request[b] = Phase("idle")
           /\ request'[b].phase = "reserving" =>
                /\ request[b].phase = "reserving"
                /\ request'[b].stampedAt = request[b].stampedAt
  BY <1>1, <1>3, <1>4, FollowingRequest
<1>8. TypeOK'
  <2>1. TakeHold(doc[x.campaignId], x.cpc, request[a].budgetDate) \in Doc
    BY <1>1, <1>2, <1>4, DocKinds, TakeHoldFields DEF Wins, Eligible
  <2>2. doc' \in [Campaigns -> Doc \union {NoDoc}]
    BY <1>1, <1>2, <2>1 DEF Wins, TypeOK
  <2>3. auction' \in [Auctions -> Reservation \union Marker \union {NoAuction}]
    BY <1>1, <1>2, <1>5 DEF Wins, TypeOK
  <2>4. expirations' \subseteq [id : Auctions, score : Nat]
    BY <1>1, <1>2, <1>4 DEF Wins, TypeOK, Unqueued
  <2>5. ledger' \in Ledger
    BY <1>1, <1>2, <1>5 DEF Wins, TypeOK, Ledger, Entry
  <2> QED
    BY <1>1, <1>7, <2>2, <2>3, <2>4, <2>5 DEF TypeOK
<1>9. Linked'
  <2>1. /\ auction'[a].status = "RESERVED" /\ ledger'[a].fate = "held"
        /\ ledger'[a].campaign = auction'[a].campaignId
        /\ ledger'[a].cost = auction'[a].cost
    BY <1>6 DEF HoldOf, EntryOf
  <2> QED
    BY <1>6, <2>1 DEF Core, Linked
<1>10. HoldsAreQueued'
  <2>1. auction'[a].status = "RESERVED" /\ auction'[a].expiresAt = request[a].expiresAt
    BY <1>6 DEF HoldOf
  <2>2. Unqueued(a) = expirations
    BY <1>1, UnqueuedSame
  <2>3. NoAuction.status # "RESERVED"
    BY DEF NoAuction
  <2> QED
    BY <1>1, <1>2, <1>6, <2>1, <2>2, <2>3 DEF Core, HoldsAreQueued, Wins
<1>11. OncePerRequest'
  <2>1. ASSUME NEW b \in Auctions
        PROVE  /\ ledger'[b] = Open => auction'[b] = NoAuction
               /\ request'[b] = Phase("idle") => ledger'[b] = Open
               /\ request'[b].phase = "reserving" =>
                    /\ request'[b].stampedAt <= clock
                    /\ ledger'[b] # Open /\ auction'[b] = NoAuction =>
                         request'[b].stampedAt + MarkerTtl <= clock
                    /\ auction'[b].status \in {"COMMITTED", "RELEASED"} =>
                         request'[b].stampedAt + MarkerTtl <= auction'[b].ttlEnd
    <3>1. CASE b = a
      <4>1. auction'[a].status = "RESERVED" /\ auction'[a] # NoAuction
        BY <1>6 DEF HoldOf, NoAuction
      <4>2. request[a] # Phase("idle")
        BY <1>4 DEF Phase
      <4> QED
        BY <1>4, <1>5, <1>6, <1>7, <3>1, <4>1, <4>2 DEF Core, OncePerRequest
    <3>2. CASE b # a
      BY <1>6, <1>7, <3>2 DEF Core, OncePerRequest, IsMarked
    <3> QED
      BY <3>1, <3>2
  <2> QED
    BY <1>1, <2>1 DEF OncePerRequest, IsMarked
<1> QED
  BY <1>8, <1>9, <1>10, <1>11 DEF Core

(***************************************************************************)
(* Ending a hold, whether it is billed or given back.                      *)
(***************************************************************************)
LEMMA SettleStep ==
    ASSUME Core, NEW a \in Auctions, auction[a].status = "RESERVED",
           NEW status \in {"COMMITTED", "RELEASED"}, Mark(a, status),
           NEW fate \in {"billed", "freed"}, Settle(a, fate),
           doc' \in [Campaigns -> Doc \union {NoDoc}],
           call' \in [Callers \X Auctions -> PendingCall \union {NoCall}],
           UNCHANGED <<clock, request>>
    PROVE  Core'
<1> DEFINE m == [status |-> status, ttlEnd |-> clock + MarkerTtl]
           e == WithFate(ledger[a], fate)
<1>1. TypeOK /\ clock \in Nat /\ MarkerTtl \in Nat
  BY AuctionAssumption DEF Core, TypeOK
<1>2. ledger[a].fate = "held" /\ ledger[a] \in Taken
  BY <1>1, TakenHold DEF Core, Linked
<1>3. m \in Marker /\ m.status = status /\ m.ttlEnd = clock + MarkerTtl /\ m # NoAuction
  BY <1>1 DEF Marker, NoAuction
<1>4. e \in Taken /\ e # Open /\ e.fate = fate
  BY <1>2 DEF WithFate, Taken, Open
<1>5. auction' = [auction EXCEPT ![a] = m] /\ expirations' = Unqueued(a)
  BY DEF Mark
<1>6. ledger' = [ledger EXCEPT ![a] = e]
  BY DEF Settle
<1> HIDE DEF m, e
<1>7. /\ auction'[a] = m /\ ledger'[a] = e
      /\ \A b \in Auctions \ {a} : auction'[b] = auction[b] /\ ledger'[b] = ledger[b]
  BY <1>1, <1>5, <1>6 DEF TypeOK, Ledger
<1>8. TypeOK'
  <2>1. auction' \in [Auctions -> Reservation \union Marker \union {NoAuction}]
    BY <1>1, <1>3, <1>5 DEF TypeOK
  <2>2. expirations' \subseteq [id : Auctions, score : Nat]
    BY <1>1, <1>5 DEF TypeOK, Unqueued
  <2>3. ledger' \in Ledger
    BY <1>1, <1>4, <1>6 DEF TypeOK, Ledger, Entry
  <2> QED
    BY <1>1, <2>1, <2>2, <2>3 DEF TypeOK
<1>9. Linked'
  BY <1>3, <1>4, <1>7 DEF Core, Linked
<1>10. HoldsAreQueued'
  BY <1>3, <1>5, <1>7 DEF Core, HoldsAreQueued, Unqueued
<1>11. OncePerRequest'
  <2>1. ASSUME NEW b \in Auctions
        PROVE  /\ ledger'[b] = Open => auction'[b] = NoAuction
               /\ request[b] = Phase("idle") => ledger'[b] = Open
               /\ request[b].phase = "reserving" =>
                    /\ request[b].stampedAt <= clock
                    /\ ledger'[b] # Open /\ auction'[b] = NoAuction =>
                         request[b].stampedAt + MarkerTtl <= clock
                    /\ auction'[b].status \in {"COMMITTED", "RELEASED"} =>
                         request[b].stampedAt + MarkerTtl <= auction'[b].ttlEnd
    <3>1. CASE b = a
      <4>1. ledger[a] # Open
        BY <1>1, <1>2, TakenHold
      <4>2. request[a].phase = "reserving" =>
              request[a].stampedAt \in Nat /\ request[a].stampedAt <= clock
        BY <1>1, RequestKinds DEF Core, OncePerRequest, InFlight
      <4>3. request[a].phase = "reserving" =>
              request[a].stampedAt + MarkerTtl <= clock + MarkerTtl
        BY <1>1, <4>2
      <4> QED
        BY <1>3, <1>4, <1>7, <3>1, <4>1, <4>2, <4>3 DEF Core, OncePerRequest
    <3>2. CASE b # a
      BY <1>7, <3>2 DEF Core, OncePerRequest, IsMarked
    <3> QED
      BY <3>1, <3>2
  <2> QED
    BY <2>1 DEF OncePerRequest, IsMarked
<1> QED
  BY <1>8, <1>9, <1>10, <1>11 DEF Core

(***************************************************************************)
(* What a commit or release script does: it ends a hold, or it changes     *)
(* nothing but the call.                                                   *)
(***************************************************************************)
RunsScript(k, a) ==
    \/ k \in Clickers /\ CommitScript(k, a)
    \/ k \notin Clickers /\ ReleaseScript(k, a)

LEMMA ScriptFacts ==
    ASSUME Core, NEW k \in Callers, NEW a \in Auctions, RunsScript(k, a)
    PROVE  /\ UNCHANGED <<clock, request>>
           /\ call' \in [Callers \X Auctions -> PendingCall \union {NoCall}]
           /\ \/ auction[a].status = "RESERVED" /\ Release(a)
              \/ /\ auction[a].status = "RESERVED"
                 /\ InCache(auction[a].campaignId)
                 /\ Commit(a)
              \/ UNCHANGED <<doc, auction, expirations, ledger>>
<1>1. TypeOK /\ Replied(k, a) /\ UNCHANGED <<clock, request>>
  BY DEF Core, RunsScript, CommitScript, ReleaseScript
<1>2. call' \in [Callers \X Auctions -> PendingCall \union {NoCall}]
  BY <1>1 DEF TypeOK, Replied
<1>3. CASE auction[a].status = "RESERVED"
  <2>1. Release(a) \/ (InCache(auction[a].campaignId) /\ Commit(a))
    BY <1>3 DEF RunsScript, CommitScript, ReleaseScript
  <2> QED
    BY <1>1, <1>2, <1>3, <2>1
<1>4. CASE auction[a].status # "RESERVED"
  <2>1. /\ UNCHANGED <<doc, auction, ledger>>
        /\ expirations' = IF auction[a] = NoAuction THEN Unqueued(a) ELSE expirations
    BY <1>4 DEF RunsScript, CommitScript, ReleaseScript
  <2> QED
    BY <1>1, <1>2, <2>1, UnqueuedSame
<1> QED
  BY <1>3, <1>4

LEMMA ScriptStep ==
    ASSUME Core, NEW k \in Callers, NEW a \in Auctions, RunsScript(k, a)
    PROVE  Core'
<1> DEFINE r == auction[a]
           c == r.campaignId
<1>1. /\ TypeOK
      /\ UNCHANGED <<clock, request>>
      /\ call' \in [Callers \X Auctions -> PendingCall \union {NoCall}]
  BY ScriptFacts DEF Core
<1>2. r.status = "RESERVED" => r \in Reservation /\ c \in Campaigns
  BY <1>1, AuctionKinds DEF Reservation
<1>3. CASE r.status = "RESERVED" /\ Release(a)
  <2>1. doc' \in [Campaigns -> Doc \union {NoDoc}]
    <3>1. CASE ~InCache(c)
      BY <1>1, <1>3, <3>1 DEF Release, TypeOK
    <3>2. CASE InCache(c)
      <4>1. GiveBack(doc[c], r) \in Doc
        BY <1>1, <1>2, <1>3, <3>2, DocKinds, GiveBackFields
      <4> QED
        BY <1>1, <1>3, <3>2, <4>1 DEF Release, TypeOK
    <3> QED
      BY <3>1, <3>2
  <2>2. Mark(a, "RELEASED") /\ Settle(a, "freed")
    BY <1>3 DEF Release
  <2> QED
    BY <1>1, <1>3, <2>1, <2>2, SettleStep
<1>4. CASE r.status = "RESERVED" /\ InCache(c) /\ Commit(a)
  <2>1. Bill(doc[c], r) \in Doc
    BY <1>1, <1>2, <1>4, DocKinds, BillFields
  <2>2. doc' \in [Campaigns -> Doc \union {NoDoc}]
    BY <1>1, <1>4, <2>1 DEF Commit, TypeOK
  <2>3. Mark(a, "COMMITTED") /\ Settle(a, "billed")
    BY <1>4 DEF Commit
  <2> QED
    BY <1>1, <1>4, <2>2, <2>3, SettleStep
<1>5. CASE UNCHANGED <<doc, auction, expirations, ledger>>
  BY <1>1, <1>5, QuietStep DEF TypeOK
<1> QED
  BY <1>3, <1>4, <1>5, ScriptFacts

(***************************************************************************)
(* Every step keeps the invariant.                                         *)
(***************************************************************************)
LEMMA CoreNext == Core /\ [Next]_vars => Core'
<1> SUFFICES ASSUME Core, [Next]_vars PROVE Core'
  OBVIOUS
<1>1. ASSUME NEW a \in Auctions, Decide(a) PROVE Core'
  BY <1>1, StartDecisionStep, ReserveWinsStep, RequestStep DEF Decide
<1>2. ASSUME NEW k \in Callers, NEW a \in Auctions, Transit(k, a) PROVE Core'
  BY <1>2, BeginStep, ScriptStep DEF Transit, RunsScript
<1>3. ASSUME NEW c \in Campaigns, Maintain(c) PROVE Core'
  BY <1>3, MaintainStep
<1>4. CASE Tick
  BY <1>4, TickStep
<1>5. CASE UNCHANGED vars
  BY <1>5, QuietStep DEF vars, Core, TypeOK
<1> QED
  BY <1>1, <1>2, <1>3, <1>4, <1>5 DEF Next

(***************************************************************************)
(* Every reachable state has the declared types.                           *)
(***************************************************************************)
THEOREM TypeCorrect == Spec => []TypeOK
<1>1. Init => Core
  BY CoreInit
<1>2. Core /\ [Next]_vars => Core'
  BY CoreNext
<1>3. Core => TypeOK
  BY DEF Core
<1> QED
  BY <1>1, <1>2, <1>3, PTL DEF Spec

(***************************************************************************)
(* The expiration ZSET holds exactly the outstanding reservations: the     *)
(* sweep can find every hold, and no ended one takes a place in its batch. *)
(***************************************************************************)
THEOREM HoldsQueued == Spec => []HoldsAreQueued
<1>1. Init => Core
  BY CoreInit
<1>2. Core /\ [Next]_vars => Core'
  BY CoreNext
<1>3. Core => HoldsAreQueued
  BY DEF Core
<1> QED
  BY <1>1, <1>2, <1>3, PTL DEF Spec

(***************************************************************************)
(* Accounts: the documents' totals agree with the ledger, and the ledger   *)
(* stays within the total budget.                                          *)
(***************************************************************************)
Accounts == Core /\ TotalsMatchLedger /\ TotalBudgetKept

\* TotalsMatchLedger and TotalBudgetKept, for one campaign
Agree(d, L, c) ==
    d # NoDoc =>
        /\ d.totalReserved = TotalOf(L, c, {"held"})
        /\ d.totalSpent = TotalOf(L, c, {"billed"})

Kept(L, c) ==
    TotalBudget[c] # NoLimit =>
        TotalOf(L, c, {"held"}) + TotalOf(L, c, {"billed"}) <= TotalBudget[c]

LEMMA AccountsInit == Init => Accounts
<1> SUFFICES ASSUME Init PROVE Accounts
  OBVIOUS
<1>1. \A c, F : TotalOf(ledger, c, F) = 0
  BY AmountOpen DEF Init, TotalOf
<1>2. TotalsMatchLedger
  BY <1>1 DEF TotalsMatchLedger, Init
<1>3. TotalBudgetKept
  BY <1>1, AuctionAssumption DEF TotalBudgetKept
<1> QED
  BY <1>2, <1>3, CoreInit DEF Accounts

(***************************************************************************)
(* Steps that change neither the ledger nor a total.                       *)
(***************************************************************************)
LEMMA TotalsUntouched ==
    ASSUME Accounts, UNCHANGED ledger,
           \A c \in Campaigns : doc'[c] # NoDoc =>
              /\ doc[c] # NoDoc
              /\ doc'[c].totalReserved = doc[c].totalReserved
              /\ doc'[c].totalSpent = doc[c].totalSpent
    PROVE  TotalsMatchLedger' /\ TotalBudgetKept'
<1>1. TotalsMatchLedger'
  BY DEF Accounts, TotalsMatchLedger, InCache
<1>2. TotalBudgetKept'
  BY DEF Accounts, TotalBudgetKept
<1> QED
  BY <1>1, <1>2

LEMMA MaintainKeepsTotals ==
    ASSUME Accounts, NEW c \in Campaigns, Maintain(c)
    PROVE  TotalsMatchLedger' /\ TotalBudgetKept'
<1>1. TypeOK /\ UNCHANGED ledger
  BY DEF Accounts, Core, Maintain, UpdateStatus, DeleteCampaign, ResetDaily
<1>2. InCache(c) /\ doc[c] \in Doc
  BY <1>1, DocKinds DEF Maintain, UpdateStatus, DeleteCampaign, ResetDaily
<1>3. \E new : /\ doc' = [doc EXCEPT ![c] = new]
               /\ new # NoDoc => /\ new.totalReserved = doc[c].totalReserved
                                 /\ new.totalSpent = doc[c].totalSpent
  <2>1. ASSUME NEW status \in Statuses, UpdateStatus(c, status)
        PROVE  \E new : /\ doc' = [doc EXCEPT ![c] = new]
                        /\ new # NoDoc => /\ new.totalReserved = doc[c].totalReserved
                                          /\ new.totalSpent = doc[c].totalSpent
    <3> DEFINE new == [doc[c] EXCEPT !.status = status]
    <3>1. doc' = [doc EXCEPT ![c] = new]
      BY <2>1 DEF UpdateStatus
    <3>2. new.totalReserved = doc[c].totalReserved /\ new.totalSpent = doc[c].totalSpent
      BY <1>2 DEF Doc
    <3> HIDE DEF new
    <3> QED
      BY <3>1, <3>2
  <2>2. CASE DeleteCampaign(c)
    BY <2>2 DEF DeleteCampaign
  <2>3. CASE ResetDaily(c)
    <3> DEFINE new == [status            |-> doc[c].status,
                       dailySpent        |-> 0,
                       totalSpent        |-> doc[c].totalSpent,
                       dailyReserved     |-> 0,
                       totalReserved     |-> doc[c].totalReserved,
                       dailyReservedDate |-> Today,
                       lastResetDate     |-> Today]
    <3>1. doc' = [doc EXCEPT ![c] = new]
      BY <2>3 DEF ResetDaily
    <3>2. new.totalReserved = doc[c].totalReserved /\ new.totalSpent = doc[c].totalSpent
      OBVIOUS
    <3> HIDE DEF new
    <3> QED
      BY <3>1, <3>2
  <2> QED
    BY <2>1, <2>2, <2>3 DEF Maintain
<1> QED
  BY <1>1, <1>2, <1>3, TotalsUntouched DEF TypeOK, InCache

(***************************************************************************)
(* A reservation adds the same cost to the document and to the ledger, and *)
(* the eligibility test of the script leaves room for it.                  *)
(***************************************************************************)
LEMMA ReserveKeepsTotals ==
    ASSUME Accounts, NEW a \in Auctions, ReserveWins(a)
    PROVE  TotalsMatchLedger' /\ TotalBudgetKept'
<1>1. Core /\ TypeOK /\ ledger \in Ledger /\ ledger[a] = Open /\ request[a] \in InFlight
  BY ReserveWinsFacts DEF Accounts, Core, TypeOK
<1>2. PICK x \in Candidates : Wins(a, x)
  BY <1>1, ReserveWinsFacts
<1> DEFINE k == x.campaignId
           e == EntryOf(a, x)
<1>3. /\ k \in Campaigns /\ x.cpc \in Costs /\ x.cpc \in Nat
      /\ request[a].budgetDate \in Nat
  BY <1>1, LedgerAssumption DEF Candidates, Costs, InFlight
<1>4. /\ e \in Taken /\ e.fate = "held" /\ e.campaign = k /\ e.cost = x.cpc
      /\ ledger' = [ledger EXCEPT ![a] = e]
  BY <1>2, <1>3 DEF Wins, EntryOf, Taken
<1>5. /\ doc[k] \in Doc /\ doc[k] # NoDoc
      /\ doc'[k].totalReserved = doc[k].totalReserved + x.cpc
      /\ doc'[k].totalSpent = doc[k].totalSpent
      /\ \A c \in Campaigns \ {k} : doc'[c] = doc[c]
  <2>1. doc[k] \in Doc /\ InCache(k)
    BY <1>1, <1>2, <1>3, DocKinds DEF Wins, Eligible
  <2>2. doc'[k] = TakeHold(doc[k], x.cpc, request[a].budgetDate)
    BY <1>1, <1>2, <1>3 DEF Wins, TypeOK
  <2> QED
    BY <1>1, <1>2, <1>3, <2>1, <2>2, TakeHoldFields DEF Wins, TypeOK, InCache
<1>6. \A c : /\ TotalOf(ledger', c, {"held"}) = TotalOf(ledger, c, {"held"}) + CostFor(e, c)
             /\ TotalOf(ledger', c, {"billed"}) = TotalOf(ledger, c, {"billed"})
  <2> HIDE DEF e
  <2> QED
    BY <1>1, <1>4, TotalsOnHold
<1>7. \A c : CostFor(e, c) = IF c = k THEN x.cpc ELSE 0
  BY <1>4 DEF CostFor
<1>8. \A c, F : TotalOf(ledger, c, F) \in Nat
  BY TotalType
<1> HIDE DEF e
<1>9. \A c \in Campaigns : Agree(doc[c], ledger, c) /\ Kept(ledger, c)
  BY DEF Accounts, TotalsMatchLedger, TotalBudgetKept, InCache, Agree, Kept
<1>10. ASSUME NEW c \in Campaigns
       PROVE  Agree(doc'[c], ledger', c) /\ Kept(ledger', c)
  <2>1. CASE c # k
    <3>1. CostFor(e, c) = 0
      BY <1>7, <2>1
    <3>2. /\ TotalOf(ledger', c, {"held"}) = TotalOf(ledger, c, {"held"})
          /\ TotalOf(ledger', c, {"billed"}) = TotalOf(ledger, c, {"billed"})
      BY <1>6, <1>8, <3>1
    <3> QED
      BY <1>5, <1>9, <2>1, <3>2 DEF Agree, Kept
  <2>2. CASE c = k
    <3>1. /\ doc[k].totalReserved = TotalOf(ledger, k, {"held"})
          /\ doc[k].totalSpent = TotalOf(ledger, k, {"billed"})
      BY <1>3, <1>5, <1>9 DEF Agree
    <3>2. /\ TotalOf(ledger', k, {"held"}) = TotalOf(ledger, k, {"held"}) + x.cpc
          /\ TotalOf(ledger', k, {"billed"}) = TotalOf(ledger, k, {"billed"})
      BY <1>6, <1>7
    <3>3. Agree(doc'[k], ledger', k)
      BY <1>5, <3>1, <3>2 DEF Agree
    <3>4. TotalBudget[k] # NoLimit =>
             doc[k].totalSpent + doc[k].totalReserved + x.cpc <= TotalBudget[k]
      BY <1>2 DEF Wins, Eligible
    <3>5. TotalBudget[k] # NoLimit => TotalBudget[k] \in Nat
      BY <1>3, AuctionAssumption
    <3>6. Kept(ledger', k)
      BY <1>3, <1>8, <3>1, <3>2, <3>4, <3>5 DEF Kept
    <3> QED
      BY <2>2, <3>3, <3>6
  <2> QED
    BY <2>1, <2>2
<1> QED
  BY <1>10 DEF TotalsMatchLedger, TotalBudgetKept, InCache, Agree, Kept

(***************************************************************************)
(* Ending a hold takes its cost out of both, and billing adds it to both.  *)
(***************************************************************************)
LEMMA SettleKeepsTotals ==
    ASSUME Accounts, NEW a \in Auctions, auction[a].status = "RESERVED",
           NEW fate \in {"billed", "freed"}, Settle(a, fate),
           LET k == auction[a].campaignId
               r == auction[a]
               paid == IF fate = "billed" THEN r.cost ELSE 0
           IN  /\ \A c \in Campaigns \ {k} : doc'[c] = doc[c]
               /\ doc[k] = NoDoc => doc'[k] = NoDoc
               /\ doc[k] # NoDoc =>
                    /\ doc'[k].totalReserved = Minus(doc[k].totalReserved, r.cost)
                    /\ doc'[k].totalSpent = doc[k].totalSpent + paid
    PROVE  TotalsMatchLedger' /\ TotalBudgetKept'
<1> DEFINE r == auction[a]
           k == r.campaignId
           paid == IF fate = "billed" THEN r.cost ELSE 0
<1>1. /\ TypeOK /\ ledger \in Ledger /\ r \in Reservation
      /\ ledger[a] \in Taken /\ ledger[a].fate = "held"
      /\ ledger[a].campaign = k /\ ledger[a].cost = r.cost
  BY AuctionKinds, TakenHold DEF Accounts, Core, Linked, TypeOK
<1>2. k \in Campaigns /\ r.cost \in Nat /\ paid \in Nat
  BY <1>1, LedgerAssumption DEF Reservation, Costs
<1>3. ledger' = [ledger EXCEPT ![a] = WithFate(ledger[a], fate)]
  BY DEF Settle
<1>4. \A c : /\ TotalOf(ledger', c, {"held"}) + CostFor(ledger[a], c)
                  = TotalOf(ledger, c, {"held"})
             /\ TotalOf(ledger', c, {"billed"}) = TotalOf(ledger, c, {"billed"})
                  + (IF fate = "billed" THEN CostFor(ledger[a], c) ELSE 0)
  BY <1>1, <1>3, TotalsOnSettle
<1>5. \A c : CostFor(ledger[a], c) = IF c = k THEN r.cost ELSE 0
  BY <1>1 DEF CostFor
<1>6. \A c, F : TotalOf(ledger, c, F) \in Nat /\ TotalOf(ledger', c, F) \in Nat
  BY TotalType
<1>7. \A c \in Campaigns : Agree(doc[c], ledger, c) /\ Kept(ledger, c)
  BY DEF Accounts, TotalsMatchLedger, TotalBudgetKept, InCache, Agree, Kept
<1>8. /\ \A c \in Campaigns \ {k} : doc'[c] = doc[c]
      /\ doc[k] = NoDoc => doc'[k] = NoDoc
      /\ doc[k] # NoDoc => /\ doc'[k].totalReserved = Minus(doc[k].totalReserved, r.cost)
                           /\ doc'[k].totalSpent = doc[k].totalSpent + paid
  OBVIOUS
<1> HIDE DEF r, k
<1>9. ASSUME NEW c \in Campaigns
      PROVE  Agree(doc'[c], ledger', c) /\ Kept(ledger', c)
  <2>1. CASE c # k
    <3>1. CostFor(ledger[a], c) = 0
      BY <1>5, <2>1
    <3>2. /\ TotalOf(ledger', c, {"held"}) = TotalOf(ledger, c, {"held"})
          /\ TotalOf(ledger', c, {"billed"}) = TotalOf(ledger, c, {"billed"})
      BY <1>4, <1>6, <3>1
    <3> QED
      BY <1>7, <1>8, <2>1, <3>2 DEF Agree, Kept
  <2>2. CASE c = k
    <3>1. /\ TotalOf(ledger', k, {"held"}) + r.cost = TotalOf(ledger, k, {"held"})
          /\ TotalOf(ledger', k, {"billed"}) = TotalOf(ledger, k, {"billed"}) + paid
      BY <1>4, <1>5
    <3>2. TotalOf(ledger', k, {"held"}) = Minus(TotalOf(ledger, k, {"held"}), r.cost)
      BY <1>2, <1>6, <3>1 DEF Minus
    <3>3. Agree(doc'[k], ledger', k)
      BY <1>2, <1>7, <1>8, <3>1, <3>2 DEF Agree
    <3>4. TotalBudget[k] # NoLimit => TotalBudget[k] \in Nat
      BY <1>2, AuctionAssumption
    <3>5. TotalOf(ledger', k, {"held"}) + TotalOf(ledger', k, {"billed"})
            <= TotalOf(ledger, k, {"held"}) + TotalOf(ledger, k, {"billed"})
      BY <1>2, <1>6, <3>1
    <3>6. Kept(ledger, k)
      BY <1>2, <1>7
    <3>7. Kept(ledger', k)
      BY <1>6, <3>4, <3>5, <3>6 DEF Kept
    <3> QED
      BY <2>2, <3>3, <3>7
  <2> QED
    BY <2>1, <2>2
<1> QED
  BY <1>9 DEF TotalsMatchLedger, TotalBudgetKept, InCache, Agree, Kept

LEMMA ScriptKeepsTotals ==
    ASSUME Accounts, NEW k \in Callers, NEW a \in Auctions, RunsScript(k, a)
    PROVE  TotalsMatchLedger' /\ TotalBudgetKept'
<1> DEFINE r == auction[a]
           c == r.campaignId
<1>1. Core /\ TypeOK
  BY DEF Accounts, Core
<1>2. r.status = "RESERVED" => r \in Reservation /\ c \in Campaigns
  BY <1>1, AuctionKinds DEF Reservation
<1>3. CASE r.status = "RESERVED" /\ Release(a)
  <2>1. \A b \in Campaigns \ {c} : doc'[b] = doc[b]
    BY <1>1, <1>2, <1>3 DEF Release, TypeOK
  <2>2. doc[c] = NoDoc => doc'[c] = NoDoc
    BY <1>3 DEF Release, InCache
  <2>3. doc[c] # NoDoc =>
          /\ doc'[c].totalReserved = Minus(doc[c].totalReserved, r.cost)
          /\ doc'[c].totalSpent = doc[c].totalSpent + 0
    <3> SUFFICES ASSUME doc[c] # NoDoc
                 PROVE  /\ doc'[c].totalReserved = Minus(doc[c].totalReserved, r.cost)
                        /\ doc'[c].totalSpent = doc[c].totalSpent + 0
      OBVIOUS
    <3>1. doc[c] \in Doc /\ doc[c].totalSpent \in Nat
      BY <1>1, <1>2, <1>3, DocKinds DEF InCache, Doc
    <3>2. doc'[c] = GiveBack(doc[c], r)
      BY <1>1, <1>2, <1>3 DEF Release, InCache, TypeOK
    <3> QED
      BY <1>2, <1>3, <3>1, <3>2, GiveBackFields
  <2>4. Settle(a, "freed")
    BY <1>3 DEF Release
  <2> QED
    BY <1>3, <2>1, <2>2, <2>3, <2>4, SettleKeepsTotals
<1>4. CASE r.status = "RESERVED" /\ InCache(c) /\ Commit(a)
  <2>1. \A b \in Campaigns \ {c} : doc'[b] = doc[b]
    BY <1>1, <1>2, <1>4 DEF Commit, TypeOK
  <2>2. doc[c] # NoDoc
    BY <1>4 DEF InCache
  <2>3. /\ doc'[c].totalReserved = Minus(doc[c].totalReserved, r.cost)
        /\ doc'[c].totalSpent = doc[c].totalSpent + r.cost
    <3>1. doc[c] \in Doc
      BY <1>1, <1>2, <1>4, DocKinds
    <3>2. doc'[c] = Bill(doc[c], r)
      BY <1>1, <1>2, <1>4 DEF Commit, TypeOK
    <3> QED
      BY <1>2, <1>4, <3>1, <3>2, BillFields
  <2>4. Settle(a, "billed")
    BY <1>4 DEF Commit
  <2> QED
    BY <1>4, <2>1, <2>2, <2>3, <2>4, SettleKeepsTotals
<1>5. CASE UNCHANGED <<doc, auction, expirations, ledger>>
  BY <1>5, TotalsUntouched
<1> QED
  BY <1>1, <1>3, <1>4, <1>5, ScriptFacts

LEMMA AccountsNext == Accounts /\ [Next]_vars => Accounts'
<1> SUFFICES ASSUME Accounts, [Next]_vars PROVE Accounts'
  OBVIOUS
<1>1. Core'
  BY CoreNext DEF Accounts
<1>2. TotalsMatchLedger' /\ TotalBudgetKept'
  <2>1. ASSUME NEW a \in Auctions, Decide(a)
        PROVE  TotalsMatchLedger' /\ TotalBudgetKept'
    <3>1. CASE ReserveWins(a)
      BY <3>1, ReserveKeepsTotals
    <3>2. CASE ~ReserveWins(a)
      <4>1. UNCHANGED <<doc, ledger>>
        BY <2>1, <3>2 DEF Decide, StartDecision, ReserveFindsExisting,
                          ReserveExhausted, AbandonDecision
      <4> QED
        BY <4>1, TotalsUntouched
    <3> QED
      BY <3>1, <3>2
  <2>2. ASSUME NEW k \in Callers, NEW a \in Auctions, Transit(k, a)
        PROVE  TotalsMatchLedger' /\ TotalBudgetKept'
    <3>1. CASE RunsScript(k, a)
      BY <3>1, ScriptKeepsTotals
    <3>2. CASE ~RunsScript(k, a)
      <4>1. UNCHANGED <<doc, ledger>>
        BY <2>2, <3>2 DEF Transit, RunsScript, BeginTransition, BeginFindsNothing
      <4> QED
        BY <4>1, TotalsUntouched
    <3> QED
      BY <3>1, <3>2
  <2>3. ASSUME NEW c \in Campaigns, Maintain(c)
        PROVE  TotalsMatchLedger' /\ TotalBudgetKept'
    BY <2>3, MaintainKeepsTotals
  <2>4. CASE Tick \/ UNCHANGED vars
    BY <2>4, TotalsUntouched DEF Tick, vars
  <2> QED
    BY <2>1, <2>2, <2>3, <2>4 DEF Next
<1> QED
  BY <1>1, <1>2 DEF Accounts

(***************************************************************************)
(* The reserved and spent totals of every campaign document are the sums   *)
(* of its outstanding holds and of its billed clicks.                      *)
(***************************************************************************)
THEOREM TotalsMatch == Spec => []TotalsMatchLedger
<1>1. Accounts => TotalsMatchLedger
  BY DEF Accounts
<1> QED
  BY <1>1, AccountsInit, AccountsNext, PTL DEF Spec

(***************************************************************************)
(* Holds and clicks together never exceed a campaign's total budget.       *)
(***************************************************************************)
THEOREM BudgetKept == Spec => []TotalBudgetKept
<1>1. Accounts => TotalBudgetKept
  BY DEF Accounts
<1> QED
  BY <1>1, AccountsInit, AccountsNext, PTL DEF Spec

(***************************************************************************)
(* Only a reservation, or finding one that still stands, answers.          *)
(***************************************************************************)
LEMMA OtherDecisions ==
    ASSUME Core, NEW a \in Auctions, NEW b \in Auctions, Decide(a), Answers(b)
    PROVE  a = b /\ (ReserveWins(a) \/ ReserveFindsExisting(a))
<1>1. request \in [Auctions -> Requests]
  BY DEF Core, TypeOK
<1>2. CASE ReserveWins(a) \/ ReserveFindsExisting(a)
  BY <1>1, <1>2 DEF ReserveWins, ReserveFindsExisting, Answers
<1>3. ASSUME NEW ranked \in Rankings, StartDecision(a, ranked) PROVE FALSE
  <2>1. request'[a].phase = "reserving" /\ (b # a => request'[b] = request[b])
    BY <1>1, <1>3 DEF StartDecision
  <2> QED
    BY <2>1 DEF Answers, Phase
<1>4. CASE ReserveExhausted(a)
  <2> DEFINE moved == [request[a] EXCEPT !.start = @ + TopK]
  <2>1. request[a] \in InFlight
    BY <1>4, RequestKinds DEF ReserveExhausted, Reserving, Core
  <2>2. request[a].start + TopK \in Nat
    BY <2>1, AuctionAssumption DEF InFlight
  <2>3. moved \in InFlight
    BY <2>1, <2>2, NextWindow
  <2>4. moved # Phase("answered") /\ Phase("failed") # Phase("answered")
    BY <2>3 DEF InFlight, Phase
  <2>5. request' = [request EXCEPT ![a] = moved]
        \/ request' = [request EXCEPT ![a] = Phase("failed")]
    BY <1>4 DEF ReserveExhausted
  <2> HIDE DEF moved
  <2> QED
    BY <1>1, <2>4, <2>5 DEF Answers
<1>5. CASE AbandonDecision(a)
  <2>1. Phase("failed") # Phase("answered")
    BY DEF Phase
  <2> QED
    BY <1>1, <1>5, <2>1 DEF AbandonDecision, Answers
<1> QED
  BY <1>2, <1>3, <1>4, <1>5 DEF Decide

LEMMA AnswerNext ==
    ASSUME Core, [Next]_vars, NEW b \in Auctions, Answers(b)
    PROVE  ledger'[b].fate = "held"
<1>1. ASSUME NEW a \in Auctions, Decide(a) PROVE ledger'[b].fate = "held"
  <2>1. a = b /\ (ReserveWins(b) \/ ReserveFindsExisting(b))
    BY <1>1, OtherDecisions
  <2>2. CASE ReserveWins(b)
    <3>1. PICK x \in Candidates : Wins(b, x)
      BY <2>2, ReserveWinsFacts
    <3>2. ledger'[b] = EntryOf(b, x)
      BY <3>1 DEF Wins, Core, TypeOK, Ledger
    <3> QED
      BY <3>2 DEF EntryOf
  <2>3. CASE ReserveFindsExisting(b)
    <3>1. ledger' = ledger /\ (auction[b].status # "RESERVED" =>
                                 request' = [request EXCEPT ![b] = Phase("failed")])
      BY <2>3 DEF ReserveFindsExisting
    <3>2. Phase("failed") # Phase("answered")
      BY DEF Phase
    <3>3. auction[b].status = "RESERVED"
      BY <3>1, <3>2 DEF Answers, Core, TypeOK
    <3> QED
      BY <3>1, <3>3 DEF Core, Linked
  <2> QED
    BY <2>1, <2>2, <2>3
<1>2. ASSUME NEW k \in Callers, NEW a \in Auctions, Transit(k, a) PROVE FALSE
  BY <1>2 DEF Transit, BeginTransition, BeginFindsNothing, CommitScript, ReleaseScript,
              Answers
<1>3. CASE (\E c \in Campaigns : Maintain(c)) \/ Tick \/ UNCHANGED vars
  BY <1>3 DEF Maintain, UpdateStatus, DeleteCampaign, ResetDaily, Tick, vars, Answers
<1> QED
  BY <1>1, <1>2, <1>3 DEF Next

(***************************************************************************)
(* A visitor is answered only while a hold stands behind the answer.       *)
(***************************************************************************)
THEOREM AnswersAreHeld == Spec => AnswerHasHold
<1>1. Core /\ [Next]_vars => [\A a \in Auctions : Answers(a) => ledger'[a].fate = "held"]_vars
  BY AnswerNext
<1> QED
  BY <1>1, CoreInit, CoreNext, PTL DEF Spec, AnswerHasHold

(***************************************************************************)
(* The two modules mean the same ledger.                                   *)
(***************************************************************************)
LEMMA SameLedger ==
    /\ Promise!Open = Open
    /\ Promise!Taken = Taken
    /\ \A e, fate : Promise!WithFate(e, fate) = WithFate(e, fate)
    /\ \A c, F : Promise!TotalOf(ledger, c, F) = TotalOf(ledger, c, F)
<1>1. Promise!Open = Open /\ Promise!Taken = Taken
  BY DEF Promise!Open, Open, Promise!Taken, Taken, Promise!Costs, Costs
<1>2. \A e, fate : Promise!WithFate(e, fate) = WithFate(e, fate)
  BY DEF Promise!WithFate, WithFate
<1>3. \A S : Promise!Cardinality(S) = Cardinality(S)
  BY DEF Promise!Cardinality, Cardinality
<1>4. \A L, c, F, D : Promise!Units(L, c, F, D) = Units(L, c, F, D)
  BY DEF Promise!Units, Units, Promise!Counts, Counts, Promise!Costs, Costs
<1>5. \A c, F : Promise!TotalOf(ledger, c, F) = TotalOf(ledger, c, F)
  BY <1>3, <1>4 DEF Promise!TotalOf, TotalOf, Promise!Amount, Amount
<1> QED
  BY <1>1, <1>2, <1>5

(***************************************************************************)
(* Every step is a step of BudgetPromise or leaves the ledger alone.       *)
(***************************************************************************)
LEMMA PromiseNext ==
    ASSUME Accounts, [Next]_vars
    PROVE  [Promise!Next]_ledger
<1>1. ASSUME NEW a \in Auctions, ReserveWins(a) PROVE Promise!Next
  <2>1. PICK x \in Candidates : Wins(a, x)
    BY <1>1, ReserveWinsFacts DEF Accounts
  <2>2. /\ ledger \in Ledger /\ ledger[a] = Open
        /\ request[a] \in InFlight
        /\ x.campaignId \in Campaigns
    BY <1>1, ReserveWinsFacts DEF Accounts, Core, TypeOK, Candidates
  <2> DEFINE e == EntryOf(a, x)
  <2>3. e \in Taken /\ e.fate = "held" /\ e.campaign = x.campaignId /\ e.cost = x.cpc
    BY <2>2 DEF EntryOf, Taken, Candidates, InFlight
  <2>4. ledger' = [ledger EXCEPT ![a] = e] /\ ledger'[a] = e
    BY <2>1, <2>2 DEF Wins, Ledger
  <2>5. TotalBudget[x.campaignId] # NoLimit =>
          TotalOf(ledger, x.campaignId, {"held"}) + TotalOf(ledger, x.campaignId, {"billed"})
            + x.cpc <= TotalBudget[x.campaignId]
    <3>1. /\ InCache(x.campaignId)
          /\ TotalBudget[x.campaignId] # NoLimit =>
               doc[x.campaignId].totalSpent + doc[x.campaignId].totalReserved + x.cpc
                 <= TotalBudget[x.campaignId]
      BY <2>1 DEF Wins, Eligible
    <3>2. /\ doc[x.campaignId].totalReserved = TotalOf(ledger, x.campaignId, {"held"})
          /\ doc[x.campaignId].totalSpent = TotalOf(ledger, x.campaignId, {"billed"})
      BY <2>2, <3>1 DEF Accounts, TotalsMatchLedger
    <3>3. \A F : TotalOf(ledger, x.campaignId, F) \in Nat
      BY TotalType
    <3>4. x.cpc \in Nat
      BY LedgerAssumption DEF Candidates, Costs
    <3> QED
      BY <3>1, <3>2, <3>3, <3>4
  <2>6. Promise!Affordable(x.campaignId, x.cpc)
    BY <2>5, SameLedger DEF Promise!Affordable, Promise!Committed
  <2> HIDE DEF e
  <2>7. Promise!Affordable(e.campaign, e.cost)
    BY <2>3, <2>6
  <2>8. Promise!Hold(a, e)
    BY <2>2, <2>3, <2>4, <2>7, SameLedger DEF Promise!Hold
  <2> QED
    BY <2>4, <2>8 DEF Promise!Next
<1>2. ASSUME NEW a \in Auctions, Decide(a), ~ReserveWins(a) PROVE UNCHANGED ledger
  BY <1>2 DEF Decide, StartDecision, ReserveFindsExisting, ReserveExhausted,
              AbandonDecision
<1>3. ASSUME NEW k \in Callers, NEW a \in Auctions, Transit(k, a)
      PROVE  [Promise!Next]_ledger
  <2>1. CASE RunsScript(k, a)
    <3>1. CASE UNCHANGED ledger
      BY <3>1
    <3>2. CASE /\ auction[a].status = "RESERVED"
               /\ Settle(a, "billed") \/ Settle(a, "freed")
      <4>1. ledger[a].fate = "held"
        BY <3>2 DEF Accounts, Core, Linked
      <4>2. Promise!Settle(a, "billed") \/ Promise!Settle(a, "freed")
        BY <3>2, <4>1, SameLedger DEF Promise!Settle, Settle
      <4> QED
        BY <4>2 DEF Promise!Next
    <3> QED
      BY <2>1, <3>1, <3>2, ScriptFacts DEF Release, Commit, Accounts
  <2>2. CASE ~RunsScript(k, a)
    BY <1>3, <2>2 DEF Transit, RunsScript, BeginTransition, BeginFindsNothing
  <2> QED
    BY <2>1, <2>2
<1>4. CASE (\E c \in Campaigns : Maintain(c)) \/ Tick \/ UNCHANGED vars
  BY <1>4 DEF Maintain, UpdateStatus, DeleteCampaign, ResetDaily, Tick, vars
<1> QED
  BY <1>1, <1>2, <1>3, <1>4 DEF Next

(***************************************************************************)
(* Reservation through Redis implements BudgetPromise: whatever the        *)
(* interleaving, each auction is held at most once, on one campaign that   *)
(* can afford it, and billed or given back at most once.                   *)
(***************************************************************************)
THEOREM Implementation == Spec => KeepsPromise
<1>1. Init => Promise!Init
  BY SameLedger DEF Init, Promise!Init
<1>2. Accounts /\ [Next]_vars => [Promise!Next]_ledger
  BY PromiseNext
<1> QED
  BY <1>1, <1>2, AccountsInit, AccountsNext, PTL DEF Spec, KeepsPromise, Promise!Spec

(***************************************************************************)
(* The daily budget (AuctionDays).  dailySpent and dailyReserved need not  *)
(* be today's: dailySpent counts from the last reset, whenever that was,   *)
(* and a late script or click puts yesterday's money into them.  Near says *)
(* that they still cover what was sold today, except for one daily budget  *)
(* for each disturbance, and Within follows from it when the reserve       *)
(* script has tested them.                                                 *)
(***************************************************************************)

\* What the disturbances of a day allow on top of its budget.
Extra(z, c, n) == z[<<c, n>>] * DailyBudget[c]

SoldIn(L, c, n) == DayOf(L, c, {"held"}, n) + DayOf(L, c, {"billed"}, n)

Near(d, L, z, c, n) ==
    d # NoDoc =>
        /\ d.dailyReservedDate <= n
        /\ d.dailyReserved <= DailyBudget[c]
        /\ SoldIn(L, c, n) <= d.dailySpent + ReservedFor(d, n) + Extra(z, c, n)
        /\ z[<<c, n>>] = 0 => ReservedFor(d, n) = DayOf(L, c, {"held"}, n)

Within(L, z, c, n) == SoldIn(L, c, n) <= DailyBudget[c] + Extra(z, c, n)

Measured ==
    /\ \A c \in Campaigns : Near(doc[c], ledger, disturbed, c, Today)
    /\ \A c \in Campaigns, n \in 0..Today : Within(ledger, disturbed, c, n)

RequestsDated ==
    \A a \in Auctions : request[a].phase = "reserving" => request[a].budgetDate <= Today

\* No entry of the ledger is of a day to come, and a hold bears its entry's day.
HoldsDated ==
    \A a \in Auctions :
        /\ ledger[a] # Open => ledger[a].day <= Today
        /\ auction[a].status = "RESERVED" => auction[a].budgetDate = ledger[a].day

Dated == clock <= MaxClock /\ DaysType /\ RequestsDated /\ HoldsDated

Daily == Core /\ Dated /\ Measured

LEMMA TodayType ==
    ASSUME TypeOK
    PROVE  clock \in Nat /\ Today \in Nat
  BY DateType DEF TypeOK, Today

LEMMA DailyBudgetType ==
    ASSUME NEW c \in Campaigns
    PROVE  DailyBudget[c] \in Nat
  BY AuctionAssumption

LEMMA LaterDate ==
    ASSUME NEW t \in Nat, NEW u \in Nat, t <= u
    PROVE  KstDate(t) <= KstDate(u)
<1>1. \A i, j \in Nat, m \in Nat \ {0} : i <= j => i \div m <= j \div m
  BY SMT
<1> QED
  BY <1>1, AuctionAssumption DEF KstDate

LEMMA TodayIsADay ==
    ASSUME TypeOK, clock <= MaxClock
    PROVE  Today \in Days /\ 0..Today \subseteq Days
<1>1. clock \in Nat /\ Today \in Nat /\ MaxClock \in Nat
  BY TodayType, AuctionAssumption
<1>2. KstDate(MaxClock) \in Nat /\ Today <= KstDate(MaxClock)
  BY <1>1, LaterDate, DateType DEF Today
<1> QED
  BY <1>1, <1>2 DEF Days

(***************************************************************************)
(* One more disturbance allows one more daily budget.                      *)
(***************************************************************************)
LEMMA ExtraType ==
    ASSUME NEW z, NEW c \in Campaigns, NEW n, z[<<c, n>>] \in Nat
    PROVE  Extra(z, c, n) \in Nat
<1>1. \A x, y \in Nat : x * y \in Nat
  BY SMT
<1> QED
  BY <1>1, DailyBudgetType DEF Extra

LEMMA ExtraStep ==
    ASSUME NEW z, NEW y, NEW c \in Campaigns, NEW n, z[<<c, n>>] \in Nat
    PROVE  /\ y[<<c, n>>] = z[<<c, n>>] => Extra(y, c, n) = Extra(z, c, n)
           /\ y[<<c, n>>] = z[<<c, n>>] + 1 =>
                Extra(y, c, n) = Extra(z, c, n) + DailyBudget[c]
<1>1. \A x, b \in Nat : (x + 1) * b = x * b + b
  BY SMT
<1> QED
  BY <1>1, DailyBudgetType DEF Extra

LEMMA SoldType ==
    ASSUME NEW L, NEW c, NEW n
    PROVE  SoldIn(L, c, n) \in Nat
  BY DayType DEF SoldIn

(***************************************************************************)
(* What Disturb does to the counts.                                        *)
(***************************************************************************)
LEMMA DisturbFacts ==
    ASSUME DaysType, NEW S, Disturb(S)
    PROVE  /\ DaysType'
           /\ \A x \in Campaigns \X Days :
                disturbed'[x] = IF x \in S THEN disturbed[x] + 1 ELSE disturbed[x]
<1>1. \A x \in Campaigns \X Days : disturbed[x] \in Nat
  BY DEF DaysType
<1> QED
  BY <1>1 DEF Disturb, DaysType

LEMMA DailyInit == DayInit => Daily
<1> SUFFICES ASSUME DayInit PROVE Daily
  OBVIOUS
<1>1. Init /\ TypeOK /\ Today \in Nat /\ clock = 0
  BY TypeInit, TodayType DEF DayInit, Init
<1>2. 0 = Today
  <2>1. \A m \in Nat \ {0} : 0 \div m = 0
    BY SMT
  <2> QED
    BY <1>1, <2>1, AuctionAssumption DEF Today, KstDate
<1>3. clock <= MaxClock
  BY <1>1, AuctionAssumption
<1>4. DaysType
  BY DEF DayInit, DaysType
<1>5. RequestsDated /\ HoldsDated
  BY <1>1 DEF Init, RequestsDated, HoldsDated, Phase, NoAuction
<1>6. \A c, F, d : DayOf(ledger, c, F, d) = 0
  BY <1>1, AmountOpen DEF Init, DayOf
<1>7. ASSUME NEW c \in Campaigns, NEW n \in 0..Today
      PROVE  SoldIn(ledger, c, n) = 0 /\ Extra(disturbed, c, n) \in Nat
  <2>1. <<c, n>> \in Campaigns \X Days
    BY <1>1, <1>3, <1>7, TodayIsADay
  <2>2. disturbed[<<c, n>>] \in Nat
    BY <1>4, <2>1 DEF DaysType
  <2> QED
    BY <1>6, <2>2, ExtraType DEF SoldIn
<1>8. ASSUME NEW c \in Campaigns PROVE Near(doc[c], ledger, disturbed, c, Today)
  <2>1. Today \in 0..Today
    BY <1>1
  <2>2. SoldIn(ledger, c, Today) = 0 /\ Extra(disturbed, c, Today) \in Nat
    BY <1>7, <2>1
  <2>3. /\ doc[c].dailySpent = 0 /\ doc[c].dailyReserved = 0
        /\ doc[c].dailyReservedDate = 0
    BY <1>1 DEF Init
  <2> QED
    BY <1>1, <1>2, <1>6, <2>2, <2>3, DailyBudgetType DEF Near, ReservedFor
<1>9. ASSUME NEW c \in Campaigns, NEW n \in 0..Today PROVE Within(ledger, disturbed, c, n)
  BY <1>7, <1>9, DailyBudgetType DEF Within
<1> QED
  BY <1>1, <1>3, <1>4, <1>5, <1>8, <1>9, CoreInit DEF Daily, Dated, Measured

(***************************************************************************)
(* Steps of requests and calls, which change neither documents nor ledger. *)
(***************************************************************************)
LEMMA DailyQuiet ==
    ASSUME Daily, UNCHANGED <<clock, doc, auction, ledger, disturbed>>, RequestsDated'
    PROVE  (Dated /\ Measured)'
<1>1. Today' = Today
  BY DEF Today, KstDate
<1> QED
  BY <1>1 DEF Daily, Dated, Measured, HoldsDated, DaysType

LEMMA StartDecisionDaily ==
    ASSUME Daily, NEW a \in Auctions, NEW ranked \in Rankings,
           StartDecision(a, ranked), UNCHANGED disturbed
    PROVE  (Dated /\ Measured)'
<1>1. TypeOK /\ Today' = Today /\ Today \in Nat
  BY TodayType DEF Daily, Core, StartDecision, Today, KstDate
<1>2. /\ request'[a].budgetDate = Today
      /\ \A b \in Auctions \ {a} : request'[b] = request[b]
      /\ UNCHANGED <<clock, doc, auction, ledger>>
  BY <1>1 DEF StartDecision, TypeOK
<1>3. RequestsDated'
  BY <1>1, <1>2 DEF Daily, Dated, RequestsDated
<1> QED
  BY <1>2, <1>3, DailyQuiet

(***************************************************************************)
(* A request that moves on keeps its date.                                 *)
(***************************************************************************)
LEMMA RequestDaily ==
    ASSUME Daily, NEW a \in Auctions, UNCHANGED disturbed,
           ReserveFindsExisting(a) \/ ReserveExhausted(a) \/ AbandonDecision(a)
    PROVE  (Dated /\ Measured)'
<1>1. TypeOK /\ UNCHANGED <<clock, doc, auction, ledger>> /\ Today' = Today
  BY DEF Daily, Core, ReserveFindsExisting, ReserveExhausted, AbandonDecision, Today, KstDate
<1>2. request[a] \in InFlight /\ request[a].phase = "reserving"
  BY <1>1, RequestKinds
     DEF ReserveFindsExisting, ReserveExhausted, AbandonDecision, Reserving
<1>3. Phase("answered").phase # "reserving" /\ Phase("failed").phase # "reserving"
  BY DEF Phase
<1>4. \E next : /\ request' = [request EXCEPT ![a] = next]
                /\ next.phase = "reserving" => next.budgetDate = request[a].budgetDate
  <2>1. CASE ReserveFindsExisting(a)
    BY <1>3, <2>1 DEF ReserveFindsExisting, Won
  <2>2. CASE ReserveExhausted(a)
    <3> DEFINE moved == [request[a] EXCEPT !.start = @ + TopK]
    <3>1. moved.budgetDate = request[a].budgetDate
      BY <1>2 DEF InFlight
    <3> QED
      BY <1>3, <2>2, <3>1 DEF ReserveExhausted
  <2>3. CASE AbandonDecision(a)
    BY <1>3, <2>3 DEF AbandonDecision
  <2> QED
    BY <2>1, <2>2, <2>3
<1>5. /\ request'[a].phase = "reserving" => request'[a].budgetDate = request[a].budgetDate
      /\ \A b \in Auctions \ {a} : request'[b] = request[b]
  BY <1>1, <1>4 DEF TypeOK
<1>6. RequestsDated'
  BY <1>1, <1>2, <1>5 DEF Daily, Dated, RequestsDated
<1> QED
  BY <1>1, <1>6, DailyQuiet

LEMMA BeginDaily ==
    ASSUME Daily, NEW k \in Callers, NEW a \in Auctions, UNCHANGED disturbed,
           BeginTransition(k, a) \/ BeginFindsNothing(k, a)
    PROVE  (Dated /\ Measured)'
<1>1. UNCHANGED <<clock, doc, auction, request, ledger>> /\ Today' = Today
  BY DEF BeginTransition, BeginFindsNothing, Today, KstDate
<1>2. RequestsDated'
  BY <1>1 DEF Daily, Dated, RequestsDated
<1> QED
  BY <1>1, <1>2, DailyQuiet

(***************************************************************************)
(* A reservation: stamped today, it passed the test against what was sold  *)
(* today; stamped earlier, it adds at most one daily budget to the day of  *)
(* its stamp, and takes at most one daily budget out of today's counters.  *)
(***************************************************************************)
LEMMA ReserveDaily ==
    ASSUME Daily, NEW a \in Auctions, ReserveWins(a), Disturb(StrayDays(a))
    PROVE  (Dated /\ Measured)'
<1>1. /\ Core /\ TypeOK /\ Today \in Nat /\ Today' = Today /\ Today \in Days
      /\ request[a] \in InFlight /\ ledger[a] = Open /\ ledger \in Ledger
      /\ 0..Today \subseteq Days
      /\ UNCHANGED <<clock, call>>
  BY ReserveWinsFacts, TodayType, TodayIsADay
     DEF Daily, Dated, Core, TypeOK, Today, KstDate
<1>2. PICK x \in Candidates : Wins(a, x)
  BY <1>1, ReserveWinsFacts
<1>3. PICK next : Follows(next, a) /\ request' = [request EXCEPT ![a] = next]
  BY <1>1, ReserveWinsFacts
<1> DEFINE k == x.campaignId
           e == EntryOf(a, x)
           d == doc[k]
           b == request[a].budgetDate
           w == doc'[k]
           z == disturbed
           y == disturbed'
<1>4. /\ request[a].phase = "reserving" /\ b \in Nat /\ b <= Today /\ b \in 0..Today
      /\ b \in Days
  BY <1>1 DEF Daily, Dated, RequestsDated, InFlight
<1>5. k \in Campaigns /\ x.cpc \in Costs /\ x.cpc \in Nat /\ DailyBudget[k] \in Nat
  BY LedgerAssumption, DailyBudgetType DEF Candidates, Costs
<1>6. /\ e \in Taken /\ e # Open /\ e.fate = "held"
      /\ e.campaign = k /\ e.cost = x.cpc /\ e.day = b
  BY <1>1, <1>4, <1>5 DEF EntryOf, Taken, Open
<1>7. /\ d \in Doc /\ d # NoDoc
      /\ d.dailySpent \in Nat /\ d.dailyReserved \in Nat /\ d.dailyReservedDate \in Nat
  <2>1. InCache(k)
    BY <1>2 DEF Wins, Eligible
  <2> QED
    BY <1>1, <1>5, <2>1, DocKinds DEF InCache, Doc
<1>8. d.dailySpent + ReservedFor(d, b) + x.cpc <= DailyBudget[k]
  BY <1>2 DEF Wins, Eligible
<1>9. /\ ledger' = [ledger EXCEPT ![a] = e]
      /\ ledger'[a] = e /\ auction'[a] = HoldOf(a, x)
      /\ w = TakeHold(d, x.cpc, b)
      /\ \A i \in Auctions \ {a} : ledger'[i] = ledger[i] /\ auction'[i] = auction[i]
      /\ \A c \in Campaigns \ {k} : doc'[c] = doc[c]
  BY <1>1, <1>2, <1>5 DEF Wins, TypeOK, Ledger
<1>10. /\ w.dailyReservedDate = b
       /\ w.dailySpent = d.dailySpent
       /\ w.dailyReserved = ReservedFor(d, b) + x.cpc
  BY <1>9 DEF TakeHold
<1>11. /\ DaysType'
       /\ \A c \in Campaigns, n \in Days :
            /\ z[<<c, n>>] \in Nat
            /\ y[<<c, n>>] =
                 IF /\ c = k /\ b # Today
                    /\ n = b \/ (n = Today /\ ReservedFor(d, Today) # 0)
                 THEN z[<<c, n>>] + 1 ELSE z[<<c, n>>]
  <2>1. DaysType' /\ \A p \in Campaigns \X Days :
          y[p] = IF p \in StrayDays(a) THEN z[p] + 1 ELSE z[p]
    BY DisturbFacts DEF Daily, Dated
  <2>2. ASSUME NEW c \in Campaigns, NEW n \in Days
        PROVE  /\ z[<<c, n>>] \in Nat
               /\ <<c, n>> \in StrayDays(a) <=>
                    /\ c = k /\ b # Today
                    /\ n = b \/ (n = Today /\ ReservedFor(d, Today) # 0)
    <3>1. ledger'[a].campaign = k
      BY <1>6, <1>9
    <3>2. <<c, n>> \in Campaigns \X Days /\ <<c, n>>[1] = c /\ <<c, n>>[2] = n
      OBVIOUS
    <3>3. z[<<c, n>>] \in Nat
      BY <3>2 DEF Daily, Dated, DaysType
    <3>4. <<c, n>> \in StrayDays(a) <=>
            /\ c = k /\ b # Today
            /\ n = b \/ (n = Today /\ ReservedFor(doc[c], Today) # 0)
      BY <3>1, <3>2 DEF StrayDays
    <3> QED
      BY <3>3, <3>4
  <2> QED
    BY <2>1, <2>2
<1> HIDE DEF e
<1>12. ASSUME NEW c, NEW n
       PROVE  /\ DayOf(ledger', c, {"held"}, n)
                   = DayOf(ledger, c, {"held"}, n) + CostOn(e, c, n)
              /\ SoldIn(ledger', c, n) = SoldIn(ledger, c, n) + CostOn(e, c, n)
  <2>1. ledger \in Ledger /\ ledger[a] = Open /\ e \in Taken /\ e.fate = "held"
    BY <1>1, <1>6
  <2>2. /\ DayOf([ledger EXCEPT ![a] = e], c, {"held"}, n)
             = DayOf(ledger, c, {"held"}, n) + CostOn(e, c, n)
        /\ DayOf([ledger EXCEPT ![a] = e], c, {"billed"}, n)
             = DayOf(ledger, c, {"billed"}, n)
    BY <2>1, DaysOnHold
  <2>3. CostOn(e, c, n) \in Nat
    BY <1>6, CostOnType
  <2> QED
    BY <1>9, <2>2, <2>3, DayType DEF SoldIn
<1>13. \A c, n : CostOn(e, c, n) = IF c = k /\ n = b THEN x.cpc ELSE 0
  BY <1>6 DEF CostOn
<1>14. \A c, n : SoldIn(ledger, c, n) \in Nat /\ DayOf(ledger, c, {"held"}, n) \in Nat
  BY SoldType, DayType
<1>15. \A c \in Campaigns, n \in Days :
         /\ Extra(z, c, n) \in Nat
         /\ y[<<c, n>>] = z[<<c, n>>] => Extra(y, c, n) = Extra(z, c, n)
         /\ y[<<c, n>>] = z[<<c, n>>] + 1 => Extra(y, c, n) = Extra(z, c, n) + DailyBudget[c]
  <2>1. ASSUME NEW c \in Campaigns, NEW n \in Days
        PROVE  /\ Extra(z, c, n) \in Nat
               /\ y[<<c, n>>] = z[<<c, n>>] => Extra(y, c, n) = Extra(z, c, n)
               /\ y[<<c, n>>] = z[<<c, n>>] + 1 =>
                    Extra(y, c, n) = Extra(z, c, n) + DailyBudget[c]
    <3>1. z[<<c, n>>] \in Nat
      BY <1>11
    <3> HIDE DEF z, y
    <3> QED
      BY <3>1, ExtraType, ExtraStep
  <2> QED
    BY <2>1
<1>16. /\ d.dailyReserved <= DailyBudget[k]
       /\ SoldIn(ledger, k, Today)
            <= d.dailySpent + ReservedFor(d, Today) + Extra(z, k, Today)
       /\ z[<<k, Today>>] = 0 => ReservedFor(d, Today) = DayOf(ledger, k, {"held"}, Today)
  BY <1>5, <1>7 DEF Daily, Measured, Near
<1> HIDE DEF k, d, b, w, z, y
<1>17. RequestsDated'
  <2>1. request'[a].phase = "reserving" => request'[a].budgetDate <= Today
    <3>1. \E u \in Won(a) : request' = [request EXCEPT ![a] = u]
      BY DEF ReserveWins
    <3>2. Phase("answered").phase # "reserving" /\ Phase("failed").phase # "reserving"
      BY DEF Phase
    <3> QED
      BY <1>1, <1>4, <3>1, <3>2 DEF Won, TypeOK, b
  <2>2. \A i \in Auctions \ {a} : request'[i] = request[i]
    BY <1>1, <1>3 DEF TypeOK
  <2> QED
    BY <1>1, <2>1, <2>2 DEF Daily, Dated, RequestsDated
<1>18. HoldsDated'
  <2>1. auction'[a].budgetDate = ledger'[a].day
    BY <1>6, <1>9 DEF HoldOf, b
  <2> QED
    BY <1>1, <1>4, <1>6, <1>9, <2>1 DEF Daily, Dated, HoldsDated
<1>19. Near(w, ledger', y, k, Today)
  <2>1. CASE b = Today
    <3>1. /\ SoldIn(ledger', k, Today) = SoldIn(ledger, k, Today) + x.cpc
          /\ DayOf(ledger', k, {"held"}, Today) = DayOf(ledger, k, {"held"}, Today) + x.cpc
      BY <1>12, <1>13, <2>1
    <3>2. y[<<k, Today>>] = z[<<k, Today>>] /\ Extra(y, k, Today) = Extra(z, k, Today)
      BY <1>1, <1>5, <1>11, <1>15, <2>1
    <3>3. ReservedFor(d, Today) \in Nat
      BY <1>7 DEF ReservedFor
    <3>4. ReservedFor(w, Today) = ReservedFor(d, Today) + x.cpc
      BY <1>10, <2>1 DEF ReservedFor
    <3>5. w.dailyReserved <= DailyBudget[k] /\ w.dailyReservedDate <= Today
      BY <1>1, <1>4, <1>5, <1>7, <1>8, <1>10, <2>1, <3>3
    <3>6. Extra(z, k, Today) \in Nat
      BY <1>1, <1>5, <1>15
    <3>7. SoldIn(ledger', k, Today)
            <= w.dailySpent + ReservedFor(w, Today) + Extra(y, k, Today)
      BY <1>5, <1>7, <1>10, <1>14, <1>16, <3>1, <3>2, <3>3, <3>4, <3>6
    <3>8. y[<<k, Today>>] = 0 => ReservedFor(w, Today) = DayOf(ledger', k, {"held"}, Today)
      BY <1>16, <3>1, <3>2, <3>4
    <3> QED
      BY <3>5, <3>7, <3>8 DEF Near
  <2>2. CASE b # Today
    <3>1. /\ SoldIn(ledger', k, Today) = SoldIn(ledger, k, Today)
          /\ DayOf(ledger', k, {"held"}, Today) = DayOf(ledger, k, {"held"}, Today)
      BY <1>12, <1>13, <1>14, <2>2
    <3>2. ReservedFor(w, Today) = 0
      BY <1>10, <2>2 DEF ReservedFor
    <3>3. ReservedFor(d, b) \in Nat /\ ReservedFor(d, Today) \in Nat
      BY <1>7 DEF ReservedFor
    <3>4. w.dailyReserved <= DailyBudget[k] /\ w.dailyReservedDate <= Today
      BY <1>1, <1>4, <1>5, <1>7, <1>8, <1>10, <3>3
    <3>5. ReservedFor(d, Today) <= DailyBudget[k]
      BY <1>5, <1>7, <1>16 DEF ReservedFor
    <3>6. z[<<k, Today>>] \in Nat /\ Extra(z, k, Today) \in Nat
      BY <1>1, <1>5, <1>11, <1>15
    <3>7. CASE ReservedFor(d, Today) = 0
      <4>1. y[<<k, Today>>] = z[<<k, Today>>] /\ Extra(y, k, Today) = Extra(z, k, Today)
        BY <1>1, <1>5, <1>11, <1>15, <2>2, <3>7
      <4> QED
        BY <1>7, <1>10, <1>14, <1>16, <3>1, <3>2, <3>4, <3>6, <3>7, <4>1 DEF Near
    <3>8. CASE ReservedFor(d, Today) # 0
      <4>1. /\ y[<<k, Today>>] = z[<<k, Today>>] + 1
            /\ Extra(y, k, Today) = Extra(z, k, Today) + DailyBudget[k]
        BY <1>1, <1>5, <1>11, <1>15, <2>2, <3>8
      <4>2. y[<<k, Today>>] # 0
        BY <3>6, <4>1
      <4>3. SoldIn(ledger', k, Today)
              <= w.dailySpent + ReservedFor(w, Today) + Extra(y, k, Today)
        BY <1>5, <1>7, <1>10, <1>14, <1>16, <3>1, <3>2, <3>3, <3>5, <3>6, <4>1
      <4> QED
        BY <3>4, <4>2, <4>3 DEF Near
    <3> QED
      BY <3>7, <3>8
  <2> QED
    BY <2>1, <2>2
<1>20. ASSUME NEW c \in Campaigns PROVE Near(doc'[c], ledger', y, c, Today)
  <2>1. CASE c = k
    BY <1>19, <2>1 DEF w
  <2>2. CASE c # k
    <3>1. /\ SoldIn(ledger', c, Today) = SoldIn(ledger, c, Today)
          /\ DayOf(ledger', c, {"held"}, Today) = DayOf(ledger, c, {"held"}, Today)
      BY <1>12, <1>13, <1>14, <2>2
    <3>2. y[<<c, Today>>] = z[<<c, Today>>] /\ Extra(y, c, Today) = Extra(z, c, Today)
      BY <1>1, <1>11, <1>15, <2>2
    <3>3. doc'[c] = doc[c]
      BY <1>9, <2>2
    <3>4. Near(doc[c], ledger, z, c, Today)
      BY DEF Daily, Measured, z
    <3> QED
      BY <3>1, <3>2, <3>3, <3>4 DEF Near
  <2> QED
    BY <2>1, <2>2
<1>21. ASSUME NEW c \in Campaigns, NEW n \in 0..Today PROVE Within(ledger', y, c, n)
  <2>1. /\ Within(ledger, z, c, n) /\ n \in Days /\ DailyBudget[c] \in Nat
        /\ SoldIn(ledger, c, n) \in Nat /\ Extra(z, c, n) \in Nat
    BY <1>1, <1>14, <1>15, DailyBudgetType DEF Daily, Measured, z
  <2>2. CASE ~(c = k /\ n = b)
    <3>1. SoldIn(ledger', c, n) = SoldIn(ledger, c, n)
      BY <1>12, <1>13, <2>1, <2>2
    <3>2. Extra(y, c, n) = Extra(z, c, n) \/ Extra(y, c, n) = Extra(z, c, n) + DailyBudget[c]
      BY <1>11, <1>15, <2>1
    <3> QED
      BY <2>1, <3>1, <3>2 DEF Within
  <2>3. CASE c = k /\ n = b /\ b # Today
    <3>1. SoldIn(ledger', c, n) = SoldIn(ledger, c, n) + x.cpc
      BY <1>12, <1>13, <2>3
    <3>2. Extra(y, c, n) = Extra(z, c, n) + DailyBudget[c]
      BY <1>11, <1>15, <2>1, <2>3
    <3>3. x.cpc <= DailyBudget[c]
      <4>1. ReservedFor(d, b) \in Nat
        BY <1>7 DEF ReservedFor
      <4> QED
        BY <1>5, <1>7, <1>8, <2>3, <4>1
    <3> QED
      BY <1>5, <2>1, <3>1, <3>2, <3>3 DEF Within
  <2>4. CASE c = k /\ n = b /\ b = Today
    <3>1. SoldIn(ledger', k, Today) = SoldIn(ledger, k, Today) + x.cpc
      BY <1>12, <1>13, <2>4
    <3>2. Extra(y, k, Today) = Extra(z, k, Today)
      BY <1>1, <1>5, <1>11, <1>15, <2>4
    <3>3. ReservedFor(d, Today) \in Nat
      BY <1>7 DEF ReservedFor
    <3>4. SoldIn(ledger', k, Today) <= DailyBudget[k] + Extra(y, k, Today)
      BY <1>5, <1>7, <1>8, <1>16, <2>1, <2>4, <3>1, <3>2, <3>3
    <3> QED
      BY <2>4, <3>4 DEF Within
  <2> QED
    BY <2>2, <2>3, <2>4
<1>22. clock' <= MaxClock
  BY <1>1 DEF Daily, Dated
<1> QED
  BY <1>1, <1>11, <1>17, <1>18, <1>20, <1>21, <1>22 DEF Dated, Measured, y

(***************************************************************************)
(* A document's counters for a day, after a hold was settled.  The amount  *)
(* leaves dailyReserved, or as much of it as is there.                     *)
(***************************************************************************)
LEMMA SettledDay ==
    ASSUME NEW d \in Doc, NEW r \in Reservation, NEW spent \in Nat, NEW day \in Nat
    PROVE  LET w == Settled(d, r, spent)
               own == IF r.budgetDate = day THEN r.cost ELSE 0
           IN  /\ w.dailyReservedDate = d.dailyReservedDate
               /\ w.dailyReserved <= d.dailyReserved
               /\ w.dailySpent = d.dailySpent + spent
               /\ ReservedFor(d, day) \in Nat
               /\ ReservedFor(w, day) \in Nat
               /\ ReservedFor(d, day) <= ReservedFor(w, day) + own
               /\ own <= ReservedFor(d, day) =>
                    ReservedFor(w, day) + own = ReservedFor(d, day)
<1> DEFINE w == Settled(d, r, spent)
           own == IF r.budgetDate = day THEN r.cost ELSE 0
           left == IF d.dailyReservedDate = r.budgetDate
                   THEN Minus(d.dailyReserved, r.cost) ELSE d.dailyReserved
<1>1. r.cost \in Nat /\ r.cost > 0 /\ r.budgetDate \in Nat
  BY LedgerAssumption DEF Reservation, Costs
<1>2. d.dailyReserved \in Nat /\ d.dailyReservedDate \in Nat
  BY DEF Doc
<1>3. /\ w.dailyReserved = left /\ w.dailyReservedDate = d.dailyReservedDate
      /\ w.dailySpent = d.dailySpent + spent
  BY DEF Settled
<1>4. left \in Nat /\ left <= d.dailyReserved
  BY <1>1, <1>2 DEF Minus
<1>5. ReservedFor(w, day) = IF d.dailyReservedDate = day THEN left ELSE 0
  BY <1>3 DEF ReservedFor
<1>6. ReservedFor(d, day) = IF d.dailyReservedDate = day THEN d.dailyReserved ELSE 0
  BY DEF ReservedFor
<1> HIDE DEF w
<1>7. CASE d.dailyReservedDate # day
  BY <1>1, <1>2, <1>3, <1>4, <1>5, <1>6, <1>7 DEF w
<1>8. CASE d.dailyReservedDate = day /\ r.budgetDate # day
  <2>1. left = d.dailyReserved
    BY <1>8
  <2> QED
    BY <1>1, <1>2, <1>3, <1>4, <1>5, <1>6, <1>8, <2>1 DEF w
<1>9. CASE d.dailyReservedDate = day /\ r.budgetDate = day
  <2>1. left = Minus(d.dailyReserved, r.cost)
    BY <1>9
  <2>2. /\ d.dailyReserved <= left + r.cost
        /\ r.cost <= d.dailyReserved => left + r.cost = d.dailyReserved
    BY <1>1, <1>2, <2>1 DEF Minus
  <2> QED
    BY <1>1, <1>2, <1>3, <1>4, <1>5, <1>6, <1>9, <2>2 DEF w
<1> QED
  BY <1>7, <1>8, <1>9

LEMMA SettleDaily ==
    ASSUME Daily, UNCHANGED disturbed,
           NEW a \in Auctions, auction[a].status = "RESERVED",
           NEW status \in {"COMMITTED", "RELEASED"}, Mark(a, status),
           NEW fate \in {"billed", "freed"}, Settle(a, fate),
           UNCHANGED <<clock, request>>,
           \A c \in Campaigns \ {auction[a].campaignId} : doc'[c] = doc[c],
           LET k == auction[a].campaignId
           IN  doc'[k] = IF InCache(k)
                         THEN Settled(doc[k], auction[a],
                                      IF fate = "billed" THEN auction[a].cost ELSE 0)
                         ELSE NoDoc
    PROVE  (Dated /\ Measured)'
<1> DEFINE r == auction[a]
           k == r.campaignId
           e == WithFate(ledger[a], fate)
           d == doc[k]
           w == doc'[k]
           paid == IF fate = "billed" THEN r.cost ELSE 0
           own == IF r.budgetDate = Today THEN r.cost ELSE 0
<1>1. /\ Core /\ TypeOK /\ Today \in Nat /\ Today' = Today /\ ledger \in Ledger
      /\ 0..Today \subseteq Days /\ Today \in Days
  BY TodayType, TodayIsADay DEF Daily, Dated, Core, TypeOK, Today, KstDate
<1>2. /\ r \in Reservation /\ k \in Campaigns /\ r.cost \in Nat /\ r.cost > 0
  BY <1>1, AuctionKinds, LedgerAssumption DEF Reservation, Costs
<1>3. /\ ledger[a].fate = "held" /\ ledger[a] \in Taken /\ ledger[a] # Open
      /\ ledger[a].campaign = k /\ ledger[a].cost = r.cost
      /\ ledger[a].day = r.budgetDate /\ ledger[a].day <= Today
  BY <1>1, TakenHold DEF Core, Linked, Daily, Dated, HoldsDated
<1>4. /\ e \in Taken /\ e # Open /\ e.fate = fate
      /\ e.campaign = k /\ e.cost = r.cost /\ e.day = r.budgetDate
  BY <1>3 DEF WithFate, Open, Taken
<1>5. /\ ledger' = [ledger EXCEPT ![a] = e] /\ ledger'[a] = e
      /\ \A b \in Auctions \ {a} : ledger'[b] = ledger[b] /\ auction'[b] = auction[b]
      /\ auction'[a].status # "RESERVED"
  BY <1>1 DEF Settle, Mark, TypeOK, Ledger
<1>6. ASSUME NEW c, NEW n
      PROVE  /\ DayOf(ledger', c, {"held"}, n) + CostOn(e, c, n)
                  = DayOf(ledger, c, {"held"}, n)
             /\ SoldIn(ledger', c, n) + (IF fate = "billed" THEN 0 ELSE CostOn(e, c, n))
                  = SoldIn(ledger, c, n)
             /\ CostOn(e, c, n) \in Nat
  <2>1. ledger \in Ledger /\ ledger[a] \in Taken /\ ledger[a].fate = "held"
    BY <1>1, <1>3
  <2>2. e.campaign = ledger[a].campaign /\ e.cost = ledger[a].cost /\ e.day = ledger[a].day
    BY <1>3, <1>4
  <2>3. CostOn(e, c, n) \in Nat /\ e.fate # "held" /\ e.fate = fate /\ e \in Taken
    BY <1>4, CostOnType
  <2> HIDE DEF e
  <2>4. /\ DayOf([ledger EXCEPT ![a] = e], c, {"held"}, n) + CostOn(e, c, n)
             = DayOf(ledger, c, {"held"}, n)
        /\ e.fate = "billed" =>
             DayOf([ledger EXCEPT ![a] = e], c, {"billed"}, n)
               = DayOf(ledger, c, {"billed"}, n) + CostOn(e, c, n)
        /\ e.fate # "billed" =>
             DayOf([ledger EXCEPT ![a] = e], c, {"billed"}, n)
               = DayOf(ledger, c, {"billed"}, n)
    BY <2>1, <2>2, <2>3, DaysOnSettle
  <2>5. /\ DayOf(ledger', c, {"held"}, n) + CostOn(e, c, n) = DayOf(ledger, c, {"held"}, n)
        /\ DayOf(ledger', c, {"billed"}, n)
             = DayOf(ledger, c, {"billed"}, n)
                 + (IF fate = "billed" THEN CostOn(e, c, n) ELSE 0)
    BY <1>5, <2>3, <2>4, DayType
  <2> QED
    BY <2>3, <2>5, DayType DEF SoldIn
<1>7. \A c, n : CostOn(e, c, n) = IF c = k /\ n = r.budgetDate THEN r.cost ELSE 0
  BY <1>4 DEF CostOn
<1>8. \A c, n : /\ SoldIn(ledger, c, n) \in Nat /\ SoldIn(ledger', c, n) \in Nat
                /\ DayOf(ledger, c, {"held"}, n) \in Nat
                /\ DayOf(ledger', c, {"held"}, n) \in Nat
  BY SoldType, DayType
<1>9. \A c \in Campaigns, n \in Days : Extra(disturbed, c, n) \in Nat
  BY ExtraType DEF Daily, Dated, DaysType
<1>10. Near(d, ledger, disturbed, k, Today)
  BY <1>2 DEF Daily, Measured
<1>11. Near(w, ledger', disturbed, k, Today)
  <2> SUFFICES ASSUME w # NoDoc PROVE Near(w, ledger', disturbed, k, Today)
    BY DEF Near
  <2>1. d # NoDoc /\ d \in Doc /\ w = Settled(d, r, paid) /\ paid \in Nat
    BY <1>1, <1>2, DocKinds DEF InCache
  <2>2. /\ d.dailyReserved \in Nat /\ d.dailySpent \in Nat
    BY <2>1 DEF Doc
  <2> HIDE DEF paid, d, w, r, k
  <2>3. /\ w.dailyReservedDate = d.dailyReservedDate
        /\ w.dailyReserved <= d.dailyReserved
        /\ w.dailySpent = d.dailySpent + paid
        /\ ReservedFor(d, Today) \in Nat
        /\ ReservedFor(w, Today) \in Nat
        /\ ReservedFor(d, Today) <= ReservedFor(w, Today) + own
        /\ own <= ReservedFor(d, Today) => ReservedFor(w, Today) + own = ReservedFor(d, Today)
    BY <1>1, <1>2, <2>1, SettledDay
  <2>4. /\ DayOf(ledger', k, {"held"}, Today) + own = DayOf(ledger, k, {"held"}, Today)
        /\ SoldIn(ledger', k, Today) + (IF fate = "billed" THEN 0 ELSE own)
             = SoldIn(ledger, k, Today)
        /\ own \in Nat
    BY <1>2, <1>6, <1>7
  <2>5. own <= paid \/ fate # "billed"
    BY <1>2 DEF paid
  <2>6. w.dailyReserved <= DailyBudget[k] /\ w.dailyReservedDate <= Today
    <3>1. d.dailyReserved <= DailyBudget[k] /\ d.dailyReservedDate <= Today
      BY <1>10, <2>1 DEF Near
    <3>2. w.dailyReserved \in Nat
      BY <1>2, <2>1, SettledFields DEF Doc
    <3> QED
      BY <1>2, <2>2, <2>3, <3>1, <3>2, DailyBudgetType
  <2>7. SoldIn(ledger', k, Today)
          <= w.dailySpent + ReservedFor(w, Today) + Extra(disturbed, k, Today)
    <3>1. SoldIn(ledger, k, Today)
            <= d.dailySpent + ReservedFor(d, Today) + Extra(disturbed, k, Today)
      BY <1>10, <2>1 DEF Near
    <3>2. Extra(disturbed, k, Today) \in Nat
      BY <1>1, <1>2, <1>9
    <3> HIDE DEF own
    <3>3. CASE fate = "billed"
      BY <1>8, <2>1, <2>2, <2>3, <2>4, <2>5, <3>1, <3>2, <3>3
    <3>4. CASE fate # "billed"
      BY <1>8, <2>1, <2>2, <2>3, <2>4, <3>1, <3>2, <3>4
    <3> QED
      BY <3>3, <3>4
  <2>8. disturbed[<<k, Today>>] = 0 =>
          ReservedFor(w, Today) = DayOf(ledger', k, {"held"}, Today)
    <3> HIDE DEF own
    <3>1. disturbed[<<k, Today>>] = 0 =>
            ReservedFor(d, Today) = DayOf(ledger, k, {"held"}, Today)
      BY <1>10, <2>1 DEF Near
    <3>2. own <= DayOf(ledger, k, {"held"}, Today)
      BY <1>8, <2>4
    <3> QED
      BY <1>8, <2>3, <2>4, <3>1, <3>2
  <2> QED
    BY <2>6, <2>7, <2>8 DEF Near
<1> HIDE DEF e, r, k, d, w
<1>12. RequestsDated'
  BY <1>1 DEF Daily, Dated, RequestsDated
<1>13. HoldsDated'
  BY <1>1, <1>3, <1>4, <1>5 DEF Daily, Dated, HoldsDated, r
<1>14. ASSUME NEW c \in Campaigns PROVE Near(doc'[c], ledger', disturbed, c, Today)
  <2>1. CASE c = k
    BY <1>11, <2>1 DEF w
  <2>2. CASE c # k
    <3>1. /\ DayOf(ledger', c, {"held"}, Today) = DayOf(ledger, c, {"held"}, Today)
          /\ SoldIn(ledger', c, Today) = SoldIn(ledger, c, Today)
      BY <1>6, <1>7, <1>8, <2>2
    <3>2. doc'[c] = doc[c]
      BY <2>2 DEF k, r
    <3>3. Near(doc[c], ledger, disturbed, c, Today)
      BY DEF Daily, Measured
    <3> QED
      BY <3>1, <3>2, <3>3 DEF Near
  <2> QED
    BY <2>1, <2>2
<1>15. ASSUME NEW c \in Campaigns, NEW n \in 0..Today
       PROVE  Within(ledger', disturbed, c, n)
  <2>1. SoldIn(ledger', c, n) <= SoldIn(ledger, c, n)
    BY <1>6, <1>8
  <2>2. Within(ledger, disturbed, c, n) /\ Extra(disturbed, c, n) \in Nat
    BY <1>1, <1>9 DEF Daily, Measured
  <2> QED
    BY <1>8, <2>1, <2>2, DailyBudgetType DEF Within
<1>16. clock' <= MaxClock /\ DaysType'
  BY DEF Daily, Dated, DaysType
<1>17. Measured'
  BY <1>1, <1>14, <1>15 DEF Measured
<1> QED
  BY <1>12, <1>13, <1>16, <1>17 DEF Dated

LEMMA ScriptDaily ==
    ASSUME Daily, UNCHANGED disturbed, NEW k \in Callers, NEW a \in Auctions, RunsScript(k, a)
    PROVE  (Dated /\ Measured)'
<1> DEFINE r == auction[a]
           c == r.campaignId
<1>1. Core /\ TypeOK /\ Today' = Today /\ UNCHANGED <<clock, request>>
  BY ScriptFacts DEF Daily, Core, Today, KstDate
<1>2. r.status = "RESERVED" => r \in Reservation /\ c \in Campaigns
  BY <1>1, AuctionKinds DEF Reservation
<1>3. CASE r.status = "RESERVED" /\ Release(a)
  <2>1. \A b \in Campaigns \ {c} : doc'[b] = doc[b]
    BY <1>1, <1>2, <1>3 DEF Release, TypeOK
  <2>2. doc'[c] = IF InCache(c) THEN Settled(doc[c], r, 0) ELSE NoDoc
    BY <1>1, <1>2, <1>3 DEF Release, GiveBack, InCache, TypeOK
  <2>3. Mark(a, "RELEASED") /\ Settle(a, "freed")
    BY <1>3 DEF Release
  <2> QED
    BY <1>1, <1>3, <2>1, <2>2, <2>3, SettleDaily
<1>4. CASE r.status = "RESERVED" /\ ~Release(a)
  <2>1. InCache(c) /\ Commit(a)
    BY <1>4, ScriptFacts, <1>1 DEF RunsScript, CommitScript, ReleaseScript
  <2>2. \A b \in Campaigns \ {c} : doc'[b] = doc[b]
    BY <1>1, <1>2, <1>4, <2>1 DEF Commit, TypeOK
  <2>3. doc'[c] = IF InCache(c) THEN Settled(doc[c], r, r.cost) ELSE NoDoc
    BY <1>1, <1>2, <1>4, <2>1 DEF Commit, Bill, TypeOK
  <2>4. Mark(a, "COMMITTED") /\ Settle(a, "billed")
    BY <2>1 DEF Commit
  <2> QED
    BY <1>1, <1>4, <2>2, <2>3, <2>4, SettleDaily
<1>5. CASE r.status # "RESERVED"
  <2>1. UNCHANGED <<doc, auction, ledger>>
    BY <1>5 DEF RunsScript, CommitScript, ReleaseScript
  <2>2. RequestsDated'
    BY <1>1 DEF Daily, Dated, RequestsDated
  <2> QED
    BY <1>1, <2>1, <2>2, DailyQuiet
<1> QED
  BY <1>3, <1>4, <1>5

(***************************************************************************)
(* A reset starts the counters again; what was sold today until then is    *)
(* within one daily budget more than the earlier disturbances allow.       *)
(***************************************************************************)
LEMMA ResetDailyStep ==
    ASSUME Daily, NEW c \in Campaigns, ResetDaily(c), Disturb(ForgottenDays(c))
    PROVE  (Dated /\ Measured)'
<1> DEFINE z == disturbed
           y == disturbed'
<1>1. /\ TypeOK /\ Today' = Today /\ Today \in Nat
      /\ 0..Today \subseteq Days /\ Today \in Days /\ Today \in 0..Today
      /\ UNCHANGED <<clock, auction, expirations, request, call, ledger>>
  BY TodayType, TodayIsADay DEF Daily, Dated, Core, ResetDaily, Today, KstDate
<1>2. /\ doc'[c].dailyReservedDate = Today
      /\ doc'[c].dailySpent = 0 /\ doc'[c].dailyReserved = 0
      /\ \A b \in Campaigns \ {c} : doc'[b] = doc[b]
  BY <1>1 DEF ResetDaily, TypeOK
<1>3. /\ DaysType'
      /\ \A b \in Campaigns, n \in Days :
           /\ z[<<b, n>>] \in Nat
           /\ y[<<b, n>>] = IF b = c /\ n = Today /\ SoldIn(ledger, c, Today) # 0
                            THEN z[<<b, n>>] + 1 ELSE z[<<b, n>>]
  <2>1. DaysType' /\ \A p \in Campaigns \X Days :
          y[p] = IF p \in ForgottenDays(c) THEN z[p] + 1 ELSE z[p]
    BY DisturbFacts DEF Daily, Dated
  <2>2. ASSUME NEW b \in Campaigns, NEW n \in Days
        PROVE  /\ z[<<b, n>>] \in Nat
               /\ <<b, n>> \in ForgottenDays(c) <=>
                    b = c /\ n = Today /\ SoldIn(ledger, c, Today) # 0
    BY DEF Daily, Dated, DaysType, ForgottenDays, Sold, SoldIn
  <2> QED
    BY <2>1, <2>2
<1>4. \A b \in Campaigns, n \in Days :
         /\ Extra(z, b, n) \in Nat
         /\ y[<<b, n>>] = z[<<b, n>>] => Extra(y, b, n) = Extra(z, b, n)
         /\ y[<<b, n>>] = z[<<b, n>>] + 1 => Extra(y, b, n) = Extra(z, b, n) + DailyBudget[b]
  <2>1. ASSUME NEW b \in Campaigns, NEW n \in Days
        PROVE  /\ Extra(z, b, n) \in Nat
               /\ y[<<b, n>>] = z[<<b, n>>] => Extra(y, b, n) = Extra(z, b, n)
               /\ y[<<b, n>>] = z[<<b, n>>] + 1 =>
                    Extra(y, b, n) = Extra(z, b, n) + DailyBudget[b]
    <3>1. z[<<b, n>>] \in Nat
      BY <1>3
    <3> HIDE DEF z, y
    <3> QED
      BY <3>1, ExtraType, ExtraStep
  <2> QED
    BY <2>1
<1>5. \A b, n : SoldIn(ledger, b, n) \in Nat /\ DayOf(ledger, b, {"held"}, n) \in Nat
  BY SoldType, DayType
<1> HIDE DEF z, y
<1>6. Near(doc'[c], ledger, y, c, Today)
  <2>1. ReservedFor(doc'[c], Today) = 0
    BY <1>2 DEF ReservedFor
  <2>2. Within(ledger, z, c, Today) /\ DailyBudget[c] \in Nat
    BY <1>1, DailyBudgetType DEF Daily, Measured, z
  <2>3. CASE SoldIn(ledger, c, Today) = 0
    <3>1. DayOf(ledger, c, {"held"}, Today) = 0
      BY <2>3, DayType DEF SoldIn
    <3>2. Extra(y, c, Today) = Extra(z, c, Today) /\ Extra(z, c, Today) \in Nat
      BY <1>1, <1>3, <1>4, <2>3
    <3> QED
      BY <1>1, <1>2, <2>1, <2>2, <2>3, <3>1, <3>2 DEF Near
  <2>4. CASE SoldIn(ledger, c, Today) # 0
    <3>1. /\ y[<<c, Today>>] = z[<<c, Today>>] + 1 /\ z[<<c, Today>>] \in Nat
          /\ Extra(y, c, Today) = Extra(z, c, Today) + DailyBudget[c]
          /\ Extra(z, c, Today) \in Nat
      BY <1>1, <1>3, <1>4, <2>4
    <3>2. SoldIn(ledger, c, Today) <= Extra(y, c, Today)
      BY <1>5, <2>2, <3>1 DEF Within
    <3>3. y[<<c, Today>>] # 0
      BY <3>1
    <3> QED
      BY <1>1, <1>2, <1>5, <2>1, <2>2, <3>1, <3>2, <3>3 DEF Near
  <2> QED
    BY <2>3, <2>4
<1>7. ASSUME NEW b \in Campaigns PROVE Near(doc'[b], ledger, y, b, Today)
  <2>1. CASE b # c
    <3>1. y[<<b, Today>>] = z[<<b, Today>>] /\ Extra(y, b, Today) = Extra(z, b, Today)
      BY <1>1, <1>3, <1>4, <2>1
    <3>2. Near(doc[b], ledger, z, b, Today) /\ doc'[b] = doc[b]
      BY <1>2, <2>1 DEF Daily, Measured, z
    <3> QED
      BY <3>1, <3>2 DEF Near
  <2> QED
    BY <1>6, <2>1
<1>8. ASSUME NEW b \in Campaigns, NEW n \in 0..Today PROVE Within(ledger, y, b, n)
  <2>1. /\ Within(ledger, z, b, n) /\ DailyBudget[b] \in Nat
        /\ SoldIn(ledger, b, n) \in Nat /\ Extra(z, b, n) \in Nat
    BY <1>1, <1>4, <1>5, DailyBudgetType DEF Daily, Measured, z
  <2>2. Extra(y, b, n) = Extra(z, b, n) \/ Extra(y, b, n) = Extra(z, b, n) + DailyBudget[b]
    BY <1>1, <1>3, <1>4
  <2> QED
    BY <2>1, <2>2 DEF Within
<1>9. /\ RequestsDated' /\ HoldsDated' /\ clock' <= MaxClock
  BY <1>1 DEF Daily, Dated, RequestsDated, HoldsDated
<1>10. Measured'
  BY <1>1, <1>7, <1>8 DEF Measured, y
<1> QED
  BY <1>3, <1>9, <1>10 DEF Dated

LEMMA MaintainDaily ==
    ASSUME Daily, NEW c \in Campaigns, UNCHANGED disturbed,
           (\E status \in Statuses : UpdateStatus(c, status)) \/ DeleteCampaign(c)
    PROVE  (Dated /\ Measured)'
<1>1. /\ TypeOK /\ Today' = Today
      /\ UNCHANGED <<clock, auction, expirations, request, call, ledger>>
  BY DEF Daily, Core, UpdateStatus, DeleteCampaign, Today, KstDate
<1>2. InCache(c) /\ doc[c] \in Doc
  BY <1>1, DocKinds DEF UpdateStatus, DeleteCampaign
<1>3. Near(doc[c], ledger, disturbed, c, Today)
  BY DEF Daily, Measured
<1>4. /\ \A b \in Campaigns \ {c} : doc'[b] = doc[b]
      /\ Near(doc'[c], ledger, disturbed, c, Today)
  <2>1. ASSUME NEW status \in Statuses, UpdateStatus(c, status)
        PROVE  /\ \A b \in Campaigns \ {c} : doc'[b] = doc[b]
               /\ Near(doc'[c], ledger, disturbed, c, Today)
    <3>1. /\ doc'[c] = [doc[c] EXCEPT !.status = status]
          /\ \A b \in Campaigns \ {c} : doc'[b] = doc[b]
      BY <1>1, <2>1 DEF UpdateStatus, TypeOK
    <3>2. /\ doc'[c].dailySpent = doc[c].dailySpent
          /\ doc'[c].dailyReserved = doc[c].dailyReserved
          /\ doc'[c].dailyReservedDate = doc[c].dailyReservedDate
      BY <1>2, <3>1 DEF Doc
    <3>3. ReservedFor(doc'[c], Today) = ReservedFor(doc[c], Today)
      BY <3>2 DEF ReservedFor
    <3> QED
      BY <1>2, <1>3, <3>1, <3>2, <3>3 DEF Near, InCache
  <2>2. CASE DeleteCampaign(c)
    BY <1>1, <2>2 DEF DeleteCampaign, TypeOK, Near
  <2> QED
    BY <2>1, <2>2
<1>5. /\ RequestsDated' /\ HoldsDated' /\ clock' <= MaxClock /\ DaysType'
  BY <1>1 DEF Daily, Dated, RequestsDated, HoldsDated, DaysType
<1>6. ASSUME NEW b \in Campaigns PROVE Near(doc'[b], ledger, disturbed, b, Today)
  BY <1>4 DEF Daily, Measured
<1>7. Measured'
  BY <1>1, <1>6 DEF Daily, Measured
<1> QED
  BY <1>5, <1>7 DEF Dated

(***************************************************************************)
(* A new day begins with nothing held, nothing billed and every            *)
(* dailyReserved of another day, though dailySpent is still yesterday's.   *)
(***************************************************************************)
LEMMA TickDaily ==
    ASSUME Daily, Tick, UNCHANGED disturbed
    PROVE  (Dated /\ Measured)'
<1>1. /\ Core /\ TypeOK /\ clock \in Nat /\ clock' = clock + 1 /\ ledger \in Ledger
      /\ Today \in Nat /\ clock + 1 <= MaxClock /\ MaxClock \in Nat
      /\ UNCHANGED <<doc, expirations, request, call, ledger>>
  BY TodayType, AuctionAssumption DEF Daily, Core, TypeOK, Tick
<1>2. Today' \in Nat /\ Today <= Today'
  BY <1>1, LaterDate, DateType DEF Today
<1>3. \A a \in Auctions : auction'[a].status = "RESERVED" => auction'[a] = auction[a]
  BY DEF Tick, NoAuction
<1>4. RequestsDated'
  <2>1. ASSUME NEW a \in Auctions, request[a].phase = "reserving"
        PROVE  request[a].budgetDate <= Today'
    <3>1. request[a].budgetDate \in Nat
      BY <1>1, <2>1, RequestKinds DEF InFlight
    <3> QED
      BY <1>1, <1>2, <2>1, <3>1 DEF Daily, Dated, RequestsDated
  <2> QED
    BY <1>1, <2>1 DEF RequestsDated
<1>5. ASSUME NEW a \in Auctions, ledger[a] # Open
      PROVE  ledger[a].day \in Nat /\ ledger[a].day <= Today
  <2>1. ledger[a].day \in Nat
    BY <1>1, <1>5 DEF Ledger, Entry, Taken
  <2> QED
    BY <1>5, <2>1 DEF Daily, Dated, HoldsDated
<1>6. HoldsDated'
  <2>1. ASSUME NEW a \in Auctions
        PROVE  ledger[a] # Open => ledger[a].day <= Today'
    BY <1>1, <1>2, <1>5
  <2>2. ASSUME NEW a \in Auctions
        PROVE  auction'[a].status = "RESERVED" => auction'[a].budgetDate = ledger[a].day
    BY <1>3 DEF Daily, Dated, HoldsDated
  <2> QED
    BY <1>1, <2>1, <2>2 DEF HoldsDated
<1>7. clock' <= MaxClock /\ DaysType'
  BY <1>1 DEF Daily, Dated, DaysType
<1>8. Today' \in Days /\ 0..Today' \subseteq Days
  <2>1. KstDate(MaxClock) \in Nat /\ Today' <= KstDate(MaxClock)
    BY <1>1, LaterDate, DateType DEF Today
  <2> QED
    BY <1>2, <2>1 DEF Days
<1>9. \A c \in Campaigns, n \in Days : Extra(disturbed, c, n) \in Nat
  BY ExtraType DEF Daily, Dated, DaysType
<1>10. ASSUME NEW n \in Nat, Today < n
       PROVE  \A c : /\ \A F : DayOf(ledger, c, F, n) = 0
                     /\ SoldIn(ledger, c, n) = 0
  <2>1. \A a \in Auctions : ledger[a] # Open => ledger[a].day # n
    BY <1>1, <1>5, <1>10
  <2>2. \A c, F : DayOf(ledger, c, F, n) = 0
    BY <1>1, <2>1, EmptyDay
  <2> QED
    BY <2>2 DEF SoldIn
<1>11. ASSUME NEW c \in Campaigns PROVE Near(doc[c], ledger, disturbed, c, Today')
  <2>1. Near(doc[c], ledger, disturbed, c, Today)
    BY DEF Daily, Measured
  <2>2. CASE Today' = Today
    BY <2>1, <2>2
  <2>3. CASE Today' # Today
    <3> SUFFICES ASSUME doc[c] # NoDoc PROVE Near(doc[c], ledger, disturbed, c, Today')
      BY DEF Near
    <3>1. Today < Today'
      BY <1>1, <1>2, <2>3
    <3>2. doc[c].dailySpent \in Nat /\ doc[c].dailyReservedDate \in Nat
      BY <1>1, DocKinds DEF InCache, Doc
    <3>3. doc[c].dailyReservedDate <= Today /\ doc[c].dailyReserved <= DailyBudget[c]
      BY <2>1 DEF Near
    <3>4. doc[c].dailyReservedDate <= Today' /\ doc[c].dailyReservedDate # Today'
      BY <1>1, <1>2, <3>1, <3>2, <3>3
    <3>5. ReservedFor(doc[c], Today') = 0
      BY <3>4 DEF ReservedFor
    <3>6. SoldIn(ledger, c, Today') = 0 /\ DayOf(ledger, c, {"held"}, Today') = 0
      BY <1>2, <1>10, <3>1
    <3>7. Extra(disturbed, c, Today') \in Nat
      BY <1>8, <1>9
    <3>8. SoldIn(ledger, c, Today')
            <= doc[c].dailySpent + ReservedFor(doc[c], Today') + Extra(disturbed, c, Today')
      BY <3>2, <3>5, <3>6, <3>7
    <3> QED
      BY <3>3, <3>4, <3>5, <3>6, <3>8 DEF Near
  <2> QED
    BY <2>2, <2>3
<1>12. ASSUME NEW c \in Campaigns, NEW n \in 0..Today' PROVE Within(ledger, disturbed, c, n)
  <2>1. CASE n <= Today
    BY <1>1, <2>1 DEF Daily, Measured
  <2>2. CASE Today < n
    <3>1. SoldIn(ledger, c, n) = 0
      BY <1>10, <2>2
    <3>2. Extra(disturbed, c, n) \in Nat
      BY <1>8, <1>9
    <3> QED
      BY <3>1, <3>2, DailyBudgetType DEF Within
  <2> QED
    BY <1>1, <2>1, <2>2
<1>13. Measured'
  BY <1>1, <1>11, <1>12 DEF Measured
<1> QED
  BY <1>4, <1>6, <1>7, <1>13 DEF Dated

LEMMA DailyNext == Daily /\ [DayNext]_dayVars => Daily'
<1> SUFFICES ASSUME Daily, [DayNext]_dayVars PROVE Daily'
  OBVIOUS
<1>1. [Next]_vars
  BY DEF DayNext, DayDecide, DayMaintain, dayVars, Next, Decide, Maintain
<1>2. Core'
  BY <1>1, CoreNext DEF Daily
<1>3. (Dated /\ Measured)'
  <2>1. ASSUME NEW a \in Auctions, DayDecide(a) PROVE (Dated /\ Measured)'
    BY <2>1, StartDecisionDaily, ReserveDaily, RequestDaily DEF DayDecide
  <2>2. ASSUME NEW k \in Callers, NEW a \in Auctions, Transit(k, a), UNCHANGED disturbed
        PROVE  (Dated /\ Measured)'
    BY <2>2, BeginDaily, ScriptDaily DEF Transit, RunsScript
  <2>3. ASSUME NEW c \in Campaigns, DayMaintain(c) PROVE (Dated /\ Measured)'
    BY <2>3, MaintainDaily, ResetDailyStep DEF DayMaintain
  <2>4. CASE Tick /\ UNCHANGED disturbed
    BY <2>4, TickDaily
  <2>5. CASE UNCHANGED dayVars
    <3>1. RequestsDated'
      BY <2>5 DEF dayVars, vars, Daily, Dated, RequestsDated, Today, KstDate
    <3> QED
      BY <2>5, <3>1, DailyQuiet DEF dayVars, vars
  <2> QED
    BY <2>1, <2>2, <2>3, <2>4, <2>5 DEF DayNext
<1> QED
  BY <1>2, <1>3 DEF Daily

(***************************************************************************)
(* Whatever the resets and the late scripts of a KST day, its clicks and   *)
(* holds never exceed the daily budget by more than one daily budget for   *)
(* each reset that found something sold and each script that crossed       *)
(* midnight.                                                               *)
(***************************************************************************)
THEOREM DailyKept == DaySpec => []DailyBudgetKept
<1>1. ASSUME Daily PROVE DailyBudgetKept
  <2> SUFFICES ASSUME NEW c \in Campaigns, NEW n \in 0..Today
               PROVE  Sold(c, n) <= (1 + disturbed[<<c, n>>]) * DailyBudget[c]
    BY DEF DailyBudgetKept
  <2>1. SoldIn(ledger, c, n) <= DailyBudget[c] + Extra(disturbed, c, n)
    BY <1>1 DEF Daily, Measured, Within
  <2>2. disturbed[<<c, n>>] \in Nat
    BY <1>1, TodayIsADay DEF Daily, Dated, DaysType, Core
  <2>3. \A x, b \in Nat : (1 + x) * b = b + x * b
    BY SMT
  <2>4. (1 + disturbed[<<c, n>>]) * DailyBudget[c] = DailyBudget[c] + Extra(disturbed, c, n)
    BY <2>2, <2>3, DailyBudgetType DEF Extra
  <2> QED
    BY <2>1, <2>4 DEF Sold, SoldIn
<1> QED
  BY <1>1, DailyInit, DailyNext, PTL DEF DaySpec

(***************************************************************************)
(* On a day that nothing has disturbed, the dailyReserved of today is the  *)
(* sum of today's outstanding holds, whatever comes in of yesterday's.     *)
(***************************************************************************)
THEOREM DailyReservedMatches == DaySpec => []DailyReservedMatchesHolds
<1>1. Daily => DailyReservedMatchesHolds
  BY DEF Daily, Measured, Near, DailyReservedMatchesHolds, InCache
<1> QED
  BY <1>1, DailyInit, DailyNext, PTL DEF DaySpec

(***************************************************************************)
(* The keys as AuctionKeys has them.                                       *)
(***************************************************************************)
KeyAt(a) == KeyOf(auction[a])

LEMMA KeyKinds ==
    ASSUME TypeOK, NEW a \in Auctions
    PROVE  /\ auction[a].status = "RESERVED" =>
                KeyAt(a) = [status |-> "RESERVED", expiresAt |-> auction[a].expiresAt]
           /\ IsMarked(a) =>
                KeyAt(a) = [status |-> auction[a].status, ttlEnd |-> auction[a].ttlEnd]
           /\ auction[a] = NoAuction => KeyAt(a) = Keys!Missing
           /\ KeyAt(a).status = auction[a].status
<1>1. CASE auction[a].status = "RESERVED"
  BY <1>1 DEF KeyAt, KeyOf, IsMarked, NoAuction
<1>2. CASE IsMarked(a)
  BY <1>2 DEF KeyAt, KeyOf, IsMarked, NoAuction
<1>3. CASE auction[a] = NoAuction
  BY <1>3 DEF KeyAt, KeyOf, IsMarked, NoAuction, Keys!Missing
<1> QED
  BY <1>1, <1>2, <1>3, AuctionKinds DEF IsMarked

LEMMA KeyReserve ==
    ASSUME Core, NEW a \in Auctions, ReserveWins(a)
    PROVE  Keys!KeyNext
<1>1. /\ Core' /\ TypeOK /\ TypeOK' /\ auction[a] = NoAuction
      /\ UNCHANGED clock
  BY ReserveWinsFacts, ReserveWinsStep DEF Core
<1>2. PICK x \in Candidates : Wins(a, x)
  BY ReserveWinsFacts
<1>3. /\ auction'[a] = HoldOf(a, x)
      /\ \A b \in Auctions \ {a} : auction'[b] = auction[b]
  BY <1>1, <1>2 DEF Wins, TypeOK
<1> DEFINE key == [b \in Auctions |-> KeyOf(auction[b])]
           new == Keys!Reserved(request[a].expiresAt)
<1>4. KeyOf(auction'[a]) = new /\ new.expiresAt = request[a].expiresAt
      /\ new.status = "RESERVED"
  BY <1>3 DEF HoldOf, KeyOf, Keys!Reserved
<1>5. key[a] = Keys!Missing
  BY <1>1, KeyKinds DEF KeyAt
<1>6. key' = [key EXCEPT ![a] = new] /\ key'[a] = new
  BY <1>3, <1>4
<1> QED
  BY <1>1, <1>4, <1>5, <1>6 DEF Keys!KeyNext, Keys!Win

LEMMA KeyScript ==
    ASSUME Core, NEW k \in Callers, NEW a \in Auctions, RunsScript(k, a)
    PROVE  [Keys!KeyNext]_Keys!keyVars
<1> DEFINE key == [b \in Auctions |-> KeyOf(auction[b])]
<1>1. TypeOK /\ UNCHANGED clock
  BY ScriptFacts DEF Core
<1>2. ASSUME auction[a].status = "RESERVED",
             NEW status \in {"COMMITTED", "RELEASED"}, Mark(a, status)
      PROVE  Keys!KeyNext
  <2> DEFINE m == [status |-> status, ttlEnd |-> clock + MarkerTtl]
  <2>1. auction'[a] = m /\ \A b \in Auctions \ {a} : auction'[b] = auction[b]
    BY <1>1, <1>2 DEF Mark, TypeOK
  <2>2. KeyOf(m) = m
    BY DEF KeyOf
  <2>3. key[a].status = "RESERVED"
    BY <1>1, <1>2, KeyKinds DEF KeyAt
  <2>4. m = Keys!Ended(status)
    BY DEF Keys!Ended
  <2>5. key' = [key EXCEPT ![a] = Keys!Ended(status)]
    BY <2>1, <2>2, <2>4
  <2>6. Keys!End(a, status)
    BY <2>3, <2>5 DEF Keys!End
  <2> QED
    BY <1>1, <2>6 DEF Keys!KeyNext
<1>3. CASE UNCHANGED <<doc, auction, expirations, ledger>>
  BY <1>1, <1>3 DEF Keys!keyVars
<1>4. CASE auction[a].status = "RESERVED" /\ Release(a)
  BY <1>2, <1>4 DEF Release
<1>5. CASE auction[a].status = "RESERVED" /\ Commit(a)
  BY <1>2, <1>5 DEF Commit
<1> QED
  BY <1>3, <1>4, <1>5, ScriptFacts

LEMMA KeyTick ==
    ASSUME Core, Tick
    PROVE  Keys!KeyNext
<1> DEFINE key == [b \in Auctions |-> KeyOf(auction[b])]
<1>1. TypeOK /\ clock < MaxClock /\ clock' = clock + 1
  BY DEF Core, Tick
<1>2. ASSUME NEW a \in Auctions
      PROVE  KeyOf(auction'[a]) =
               IF key[a].status \in {"COMMITTED", "RELEASED"} /\ key[a].ttlEnd <= clock + 1
               THEN Keys!Missing ELSE key[a]
  <2>1. /\ key[a].status = auction[a].status
        /\ IsMarked(a) => key[a].ttlEnd = auction[a].ttlEnd
    <3>1. key[a] = KeyAt(a)
      BY DEF KeyAt
    <3> HIDE DEF key
    <3>2. IsMarked(a) =>
            KeyAt(a) = [status |-> auction[a].status, ttlEnd |-> auction[a].ttlEnd]
      BY <1>1, KeyKinds
    <3>3. KeyAt(a).status = auction[a].status
      BY <1>1, KeyKinds
    <3> QED
      BY <3>1, <3>2, <3>3
  <2>2. auction'[a] = IF IsMarked(a) /\ auction[a].ttlEnd <= clock + 1
                      THEN NoAuction ELSE auction[a]
    BY DEF Tick, IsMarked
  <2>3. KeyOf(NoAuction) = Keys!Missing
    BY DEF KeyOf, NoAuction, Keys!Missing
  <2> QED
    BY <2>1, <2>2, <2>3 DEF IsMarked
<1>3. key' = [a \in Auctions |->
                IF key[a].status \in {"COMMITTED", "RELEASED"} /\ key[a].ttlEnd <= clock + 1
                THEN Keys!Missing ELSE key[a]]
  BY <1>2
<1>4. Keys!Elapse
  BY <1>1, <1>3 DEF Keys!Elapse
<1> QED
  BY <1>4 DEF Keys!KeyNext

LEMMA KeysNext ==
    ASSUME Core, [Next]_vars
    PROVE  [Keys!KeyNext]_Keys!keyVars
<1>1. ASSUME NEW a \in Auctions, Decide(a) PROVE [Keys!KeyNext]_Keys!keyVars
  <2>1. CASE ReserveWins(a)
    BY <2>1, KeyReserve
  <2>2. CASE ~ReserveWins(a)
    BY <1>1, <2>2 DEF Decide, StartDecision, ReserveFindsExisting, ReserveExhausted,
                      AbandonDecision, Keys!keyVars
  <2> QED
    BY <2>1, <2>2
<1>2. ASSUME NEW k \in Callers, NEW a \in Auctions, Transit(k, a)
      PROVE  [Keys!KeyNext]_Keys!keyVars
  <2>1. CASE RunsScript(k, a)
    BY <2>1, KeyScript
  <2>2. CASE ~RunsScript(k, a)
    BY <1>2, <2>2 DEF Transit, RunsScript, BeginTransition, BeginFindsNothing, Keys!keyVars
  <2> QED
    BY <2>1, <2>2
<1>3. ASSUME NEW c \in Campaigns, Maintain(c) PROVE [Keys!KeyNext]_Keys!keyVars
  BY <1>3 DEF Maintain, UpdateStatus, DeleteCampaign, ResetDaily, Keys!keyVars
<1>4. CASE Tick
  BY <1>4, KeyTick
<1>5. CASE UNCHANGED vars
  BY <1>5 DEF vars, Keys!keyVars
<1> QED
  BY <1>1, <1>2, <1>3, <1>4, <1>5 DEF Next

(***************************************************************************)
(* The auction keys live as AuctionKeys says, whatever requests, clicks,   *)
(* dismisses and sweeps do: ClickFlow, which is built on AuctionKeys, may  *)
(* rely on it.                                                             *)
(***************************************************************************)
THEOREM KeysImplemented == Spec => KeysFollow
<1>1. Init => Keys!KeyInit
  BY DEF Init, Keys!KeyInit, KeyOf, NoAuction, Keys!Missing
<1>2. Core /\ [Next]_vars => [Keys!KeyNext]_Keys!keyVars
  BY KeysNext
<1> QED
  BY <1>1, <1>2, CoreInit, CoreNext, PTL DEF Spec, KeysFollow, Keys!KeySpec
=============================================================================
