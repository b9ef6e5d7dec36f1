---------------------------- MODULE AuctionDays ----------------------------
(***************************************************************************)
(* The daily budget of AuctionLedger when midnights are not orderly: the   *)
(* reset runs at the server's own midnight or by hand, with clicks and     *)
(* holds of the KST day already counted, and a script stamped before       *)
(* midnight reaches Redis after it.  Each of these may let a further daily *)
(* budget be sold; the history variable disturbed counts them, by campaign *)
(* and by the day they disturb, and what was sold on a day is measured     *)
(* against that count.                                                     *)
(***************************************************************************)
EXTENDS AuctionLedger

CONSTANT
    MaxDisturbances   \* bound: disturbances of one day of one campaign

ASSUME DisturbanceAssumption == MaxDisturbances \in Nat

VARIABLE disturbed    \* history: disturbances of each day of each campaign

dayVars == <<vars, disturbed>>

Days == 0 .. KstDate(MaxClock)

DaysType == disturbed \in [Campaigns \X Days -> Nat]

\* What was billed to a campaign for a day, with what is held for that day.
Sold(c, d) == DayOf(ledger, c, {"held"}, d) + DayOf(ledger, c, {"billed"}, d)

Disturb(days) ==
    /\ \A x \in days : disturbed[x] < MaxDisturbances
    /\ disturbed' = [x \in Campaigns \X Days |->
                        IF x \in days THEN disturbed[x] + 1 ELSE disturbed[x]]

(***************************************************************************)
(* A reservation stamped on an earlier day is counted in the counters of   *)
(* today, whose dailyReserved, if it has any, it replaces by its own.      *)
(***************************************************************************)
StrayDays(a) ==
    {x \in Campaigns \X Days :
        /\ x[1] = ledger'[a].campaign
        /\ request[a].budgetDate # Today
        /\ \/ x[2] = request[a].budgetDate
           \/ x[2] = Today /\ ReservedFor(doc[x[1]], Today) # 0}

\* A reset that finds something sold today starts the day's counters again.
ForgottenDays(c) == {x \in {<<c, Today>>} : Sold(c, Today) # 0}

DayDecide(a) ==
    \/ /\ \/ \E ranked \in Rankings : StartDecision(a, ranked)
          \/ ReserveFindsExisting(a)
          \/ ReserveExhausted(a)
          \/ AbandonDecision(a)
       /\ UNCHANGED disturbed
    \/ ReserveWins(a) /\ Disturb(StrayDays(a))

DayMaintain(c) ==
    \/ /\ \/ \E status \in Statuses : UpdateStatus(c, status)
          \/ DeleteCampaign(c)
       /\ UNCHANGED disturbed
    \/ ResetDaily(c) /\ Disturb(ForgottenDays(c))

DayNext ==
    \/ \E a \in Auctions : DayDecide(a)
    \/ \E k \in Callers, a \in Auctions : Transit(k, a) /\ UNCHANGED disturbed
    \/ \E c \in Campaigns : DayMaintain(c)
    \/ Tick /\ UNCHANGED disturbed

DayInit == Init /\ disturbed = [x \in Campaigns \X Days |-> 0]

DaySpec == DayInit /\ [][DayNext]_dayVars

-----------------------------------------------------------------------------
(***************************************************************************)
(* However the resets, the decisions, the late scripts and the clicks of a *)
(* KST day fall, what is billed and held for that day exceeds the daily    *)
(* budget by at most one daily budget for each disturbance: nothing but a  *)
(* reset after a sale, or a script that crossed midnight, gets round the   *)
(* test of the reserve script (lua-script.ts:144), and none of these more  *)
(* than once.                                                              *)
(***************************************************************************)
DailyBudgetKept ==
    \A c \in Campaigns, d \in 0..Today :
        Sold(c, d) <= (1 + disturbed[<<c, d>>]) * DailyBudget[c]

(***************************************************************************)
(* "Reserved in a decision and not yet confirmed by a click"               *)
(* (campaign.types.ts:58): on a day nothing has disturbed, the             *)
(* dailyReserved of today is the sum of today's outstanding holds,         *)
(* whatever clicks and releases of yesterday still come in.                *)
(***************************************************************************)
DailyReservedMatchesHolds ==
    \A c \in Campaigns : InCache(c) /\ disturbed[<<c, Today>>] = 0 =>
        ReservedFor(doc[c], Today) = DayOf(ledger, c, {"held"}, Today)
=============================================================================
