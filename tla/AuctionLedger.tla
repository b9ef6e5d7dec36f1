---------------------------- MODULE AuctionLedger ----------------------------
(***************************************************************************)
(* Winner-only budget reservation (RTB_BUDGET_MODE=winner_only): the       *)
(* campaign documents, auction keys and expiration ZSET in Redis, the five *)
(* Lua scripts that change them, the decision requests that reserve, the   *)
(* clicks that commit, the dismisses, expired views and sweeps that        *)
(* release, and the daily reset.                                           *)
(*                                                                         *)
(* Redis runs a script atomically, so a script is one action.  Everything  *)
(* around a script is not: a decision stamps its budget date and expiry    *)
(* before it calls reserve (rtb.service.ts:389), and commit and release    *)
(* read the auction key with GET before they call their script, so any     *)
(* number of other steps, and midnight, can fall in between.               *)
(*                                                                         *)
(* Time is counted in units; a KST day is DayLength units.                 *)
(***************************************************************************)
EXTENDS HoldLedger, Sequences

CONSTANTS
    DailyBudget,   \* dailyBudget of each campaign
    TotalBudget,   \* totalBudget of each campaign, or NoLimit (null)
    NoLimit,
    Rankings,      \* what selector.rankCandidates can return: sequences of candidates
    TopK,          \* TOP_K: candidates tried by one reserve script
    Clickers,      \* concurrent callers of commitAuction (recordClick)
    Releasers,     \* concurrent callers of releaseAuction (dismiss, expired view)
    Sweepers,      \* reservation sweeps of RedisTTLWorker
    DayLength,     \* units in a KST day
    HoldTtl,       \* auctionReservationTtlMs
    MarkerTtl,     \* auctionTerminalTtlSeconds
    RequestLife,   \* longest time between a decision's stamp and its last script
    MaxClock,      \* bound: the clock stops here
    ResetMode,     \* when the daily reset runs: "onTime", "late" or "anytime"
    Straddling     \* TRUE: midnight may fall between a stamp and its script

Candidates == [campaignId : Campaigns, cpc : Costs]

Callers == Clickers \union Releasers \union Sweepers

ASSUME AuctionAssumption ==
    /\ DailyBudget \in [Campaigns -> Nat]
    /\ NoLimit \notin Nat
    /\ TotalBudget \in [Campaigns -> Nat \union {NoLimit}]
    /\ Rankings \subseteq Seq(Candidates)
    /\ TopK \in Nat \ {0}
    /\ DayLength \in Nat \ {0}
    /\ HoldTtl \in Nat \ {0}
    /\ MarkerTtl \in Nat
    /\ RequestLife \in Nat
    /\ RequestLife < MarkerTtl
    /\ MaxClock \in Nat
    /\ ResetMode \in {"onTime", "late", "anytime"}
    /\ Straddling \in BOOLEAN
    /\ Clickers \intersect (Releasers \union Sweepers) = {}
    /\ Releasers \intersect Sweepers = {}

VARIABLES
    clock,        \* now
    doc,          \* campaign:{id} documents
    auction,      \* auction:{auctionId} keys
    expirations,  \* rtb:reservation:expirations: members and scores of the ZSET
    request,      \* decision requests in flight, by the auction id they drew
    call,         \* commit and release calls between their GET and their script
    ledger        \* history: what became of each auction (HoldLedger)

vars == <<clock, doc, auction, expirations, request, call, ledger>>

-----------------------------------------------------------------------------
(***************************************************************************)
(* State.                                                                  *)
(***************************************************************************)

\* A campaign takes part in auctions only when it is ACTIVE; PENDING, PAUSED and
\* ENDED are one value here.
Statuses == {"ACTIVE", "PAUSED"}

Doc == [status            : Statuses,
        dailySpent        : Nat,
        totalSpent        : Nat,
        dailyReserved     : Nat,
        totalReserved     : Nat,
        dailyReservedDate : Nat,
        lastResetDate     : Nat]

NoDoc == [status |-> "deleted"]

Reservation == [status     : {"RESERVED"},
                campaignId : Campaigns,
                cost       : Costs,
                budgetDate : Nat,
                expiresAt  : Nat]

\* A terminal marker drops the campaign and the amount and lives MarkerTtl.
Marker == [status : {"COMMITTED", "RELEASED"}, ttlEnd : Nat]

NoAuction == [status |-> "missing"]

InFlight == [phase      : {"reserving"},
             ranked     : Rankings,
             start      : Nat,
             stampedAt  : Nat,
             budgetDate : Nat,
             expiresAt  : Nat]

Phase(p) == [phase |-> p]

Requests == InFlight \union {Phase("idle"), Phase("answered"), Phase("failed")}

NoCall == [status |-> "idle"]

\* budgetDate is the argument of commitAuction; a release ignores it.
PendingCall == [status : {"pending"}, budgetDate : Nat, at : Nat]

TypeOK ==
    /\ clock \in Nat
    /\ doc \in [Campaigns -> Doc \union {NoDoc}]
    /\ auction \in [Auctions -> Reservation \union Marker \union {NoAuction}]
    /\ expirations \subseteq [id : Auctions, score : Nat]
    /\ request \in [Auctions -> Requests]
    /\ call \in [Callers \X Auctions -> PendingCall \union {NoCall}]
    /\ ledger \in Ledger

-----------------------------------------------------------------------------
(***************************************************************************)
(* Helpers.                                                                *)
(***************************************************************************)
Smaller(x, y) == IF x <= y THEN x ELSE y

\* math.max(0, x - y) of the scripts
MinusBelowZero(x, y) == x - y   \* mutant
Minus(x, y) == IF y <= x THEN x - y ELSE 0

KstDate(t)      == t \div DayLength
NextMidnight(t) == (KstDate(t) + 1) * DayLength
Today           == KstDate(clock)

InCache(c) == doc[c] # NoDoc

\* Mutant: the comparison of the dates is the wrong way round.
ReservedForOtherDay(d, date) == IF d.dailyReservedDate # date THEN d.dailyReserved ELSE 0

\* dailyReserved counts only when it was written for the date asked about.
ReservedForAnyDay(d, date) == d.dailyReserved   \* mutant
ReservedFor(d, date) == IF d.dailyReservedDate = date THEN d.dailyReserved ELSE 0

\* Mutant: what is reserved is left out of the total test.
EligibleOnSpent(candidate, date) ==
    LET c == candidate.campaignId
        d == doc[c]
    IN  /\ InCache(c)
        /\ d.status = "ACTIVE"
        /\ d.dailySpent + ReservedFor(d, date) + candidate.cpc <= DailyBudget[c]
        /\ TotalBudget[c] = NoLimit \/ d.totalSpent + candidate.cpc <= TotalBudget[c]

\* dailyEligible, totalEligible and the ACTIVE test of the reserve script
Eligible(candidate, date) ==
    LET c == candidate.campaignId
        d == doc[c]
    IN  /\ InCache(c)
        /\ d.status = "ACTIVE"
        /\ d.dailySpent + ReservedFor(d, date) + candidate.cpc <= DailyBudget[c]
        /\ \/ TotalBudget[c] = NoLimit
           \/ d.totalSpent + d.totalReserved + candidate.cpc <= TotalBudget[c]

Window(r) == {i \in DOMAIN r.ranked : r.start <= i /\ i < r.start + TopK}

Reservable(r) == {i \in Window(r) : Eligible(r.ranked[i], r.budgetDate)}

Unqueued(a) == {x \in expirations : x.id # a}

Init ==
    /\ clock = 0
    /\ doc = [c \in Campaigns |->
                [status |-> "ACTIVE", dailySpent |-> 0, totalSpent |-> 0,
                 dailyReserved |-> 0, totalReserved |-> 0,
                 dailyReservedDate |-> 0, lastResetDate |-> 0]]
    /\ auction = [a \in Auctions |-> NoAuction]
    /\ expirations = {}
    /\ request = [a \in Auctions |-> Phase("idle")]
    /\ call = [x \in Callers \X Auctions |-> NoCall]
    /\ ledger = [a \in Auctions |-> Open]

-----------------------------------------------------------------------------
(***************************************************************************)
(* Decision requests.                                                      *)
(***************************************************************************)

(***************************************************************************)
(* reserveFirstRankedCandidate stamps the KST date and the expiry once,    *)
(* for all its windows.  With ResetMode "onTime" the day's decisions come  *)
(* after its reset.  Decisions start HoldTtl before the clock's bound, so  *)
(* that every hold of a run can expire in it.                              *)
(***************************************************************************)
StartDecision(a, ranked) ==
    /\ request[a] = Phase("idle")
    /\ clock + HoldTtl <= MaxClock
    /\ ResetMode = "onTime" =>
         \A c \in Campaigns : InCache(c) => doc[c].lastResetDate = Today
    /\ request' = [request EXCEPT ![a] =
                     [phase      |-> "reserving",
                      ranked     |-> ranked,
                      start      |-> 1,
                      stampedAt  |-> clock,
                      budgetDate |-> Today,
                      expiresAt  |-> Smaller(clock + HoldTtl, NextMidnight(clock))]]
    /\ UNCHANGED <<clock, doc, auction, expirations, call, ledger>>

Reserving(a) ==
    /\ request[a].phase = "reserving"
    /\ clock <= request[a].stampedAt + RequestLife

(***************************************************************************)
(* What a request becomes once the script has produced a winner: the       *)
(* visitor gets the ad; or bidlogQueue.add throws and the visitor gets an  *)
(* error; or the connection drops before the reply and ioredis sends the   *)
(* same script again.                                                      *)
(***************************************************************************)
Won(a) == {Phase("answered"), Phase("failed"), request[a]}

TakeHold(d, cost, date) ==
    [status            |-> d.status,
     dailySpent        |-> d.dailySpent,
     totalSpent        |-> d.totalSpent,
     dailyReserved     |-> ReservedFor(d, date) + cost,
     totalReserved     |-> d.totalReserved + cost,
     dailyReservedDate |-> date,
     lastResetDate     |-> d.lastResetDate]

(***************************************************************************)
(* Code 1: the first candidate of the window that is reservable takes the  *)
(* hold.                                                                   *)
(***************************************************************************)
ReserveWins(a) ==
    LET r == request[a]
    IN  /\ Reserving(a)
        /\ auction[a] = NoAuction
        /\ \E i \in Reservable(r) :
             LET c    == r.ranked[i].campaignId
                 cost == r.ranked[i].cpc
             IN  /\ \A j \in Reservable(r) : i <= j
                 /\ doc' = [doc EXCEPT ![c] = TakeHold(@, cost, r.budgetDate)]
                 /\ auction' = [auction EXCEPT ![a] =
                       [status |-> "RESERVED", campaignId |-> c, cost |-> cost,
                        budgetDate |-> r.budgetDate, expiresAt |-> r.expiresAt]]
                 /\ expirations' = Unqueued(a) \union {[id |-> a, score |-> r.expiresAt]}
                 /\ ledger' = [ledger EXCEPT ![a] =
                       [fate |-> "held", campaign |-> c, cost |-> cost,
                        day |-> r.budgetDate]]
        /\ \E next \in Won(a) : request' = [request EXCEPT ![a] = next]
        /\ UNCHANGED <<clock, call>>

\* Mutant: the caller takes any existing auction for a success.
ReserveTrustsExisting(a) ==
    /\ Reserving(a)
    /\ auction[a] # NoAuction
    /\ \E next \in Won(a) : request' = [request EXCEPT ![a] = next]
    /\ UNCHANGED <<clock, doc, auction, expirations, call, ledger>>

(***************************************************************************)
(* Code 2: the script ran before, and its reply was lost.  The caller      *)
(* refuses a hold that has ended in the meantime.                          *)
(***************************************************************************)
ReserveFindsExisting(a) ==
    /\ Reserving(a)
    /\ auction[a] # NoAuction
    /\ \E next \in IF auction[a].status = "RESERVED" THEN Won(a) ELSE {Phase("failed")} :
          request' = [request EXCEPT ![a] = next]
    /\ UNCHANGED <<clock, doc, auction, expirations, call, ledger>>

(***************************************************************************)
(* Code 0: on to the next window, or out of candidates.                    *)
(***************************************************************************)
ReserveExhausted(a) ==
    LET r == request[a]
    IN  /\ Reserving(a)
        /\ auction[a] = NoAuction
        /\ Reservable(r) = {}
        /\ request' = [request EXCEPT ![a] =
                         IF r.start + TopK <= Len(r.ranked)
                         THEN [r EXCEPT !.start = @ + TopK]
                         ELSE Phase("failed")]
        /\ UNCHANGED <<clock, doc, auction, expirations, call, ledger>>

\* The server goes down, or ioredis gives the command up.
AbandonDecision(a) ==
    /\ request[a].phase = "reserving"
    /\ request' = [request EXCEPT ![a] = Phase("failed")]
    /\ UNCHANGED <<clock, doc, auction, expirations, call, ledger>>

-----------------------------------------------------------------------------
(***************************************************************************)
(* Commit and release.                                                     *)
(***************************************************************************)

(***************************************************************************)
(* The GET of commitAuction and releaseAuction.  A terminal key answers    *)
(* the caller and writes nothing, so only the two other results are steps: *)
(* the call goes on to its script, or the key is gone and the auction is   *)
(* taken out of the ZSET.  A click or a dismiss needs an answered          *)
(* decision; a sweep works on what ZRANGEBYSCORE returned.                 *)
(***************************************************************************)
MayCall(k, a) ==
    /\ call[<<k, a>>] = NoCall
    /\ IF k \in Sweepers
       THEN \E x \in expirations : x.id = a /\ x.score <= clock
       ELSE request[a] = Phase("answered")

BeginTransition(k, a) ==
    /\ MayCall(k, a)
    /\ auction[a].status = "RESERVED"
    /\ call' = [call EXCEPT ![<<k, a>>] =
                  [status |-> "pending", budgetDate |-> Today, at |-> clock]]
    /\ UNCHANGED <<clock, doc, auction, expirations, request, ledger>>

BeginFindsNothing(k, a) ==
    /\ MayCall(k, a)
    /\ auction[a] = NoAuction
    /\ expirations' = Unqueued(a)
    /\ UNCHANGED <<clock, doc, auction, request, call, ledger>>

\* Mutant: the ZREM is forgotten.
MarkStaysQueued(a, status) ==
    /\ auction' = [auction EXCEPT ![a] =
                     [status |-> status, ttlEnd |-> clock + MarkerTtl]]
    /\ UNCHANGED expirations

\* Mutant: DEL instead of a terminal marker.
MarkByDeleting(a, status) ==
    /\ auction' = [auction EXCEPT ![a] = NoAuction]
    /\ expirations' = Unqueued(a)

Mark(a, status) ==
    /\ auction' = [auction EXCEPT ![a] =
                     [status |-> status, ttlEnd |-> clock + MarkerTtl]]
    /\ expirations' = Unqueued(a)

\* The hold leaves the reserved total, and the day's counter if it is still that
\* day's; spent is what the campaign is billed.
Settled(d, r, spent) ==
    [status            |-> d.status,
     dailySpent        |-> d.dailySpent + spent,
     totalSpent        |-> d.totalSpent + spent,
     dailyReserved     |-> IF d.dailyReservedDate = r.budgetDate
                           THEN Minus(d.dailyReserved, r.cost)
                           ELSE d.dailyReserved,
     totalReserved     |-> Minus(d.totalReserved, r.cost),
     dailyReservedDate |-> d.dailyReservedDate,
     lastResetDate     |-> d.lastResetDate]

GiveBack(d, r) == Settled(d, r, 0)

\* Mutant: the click is billed on top of its own hold.
BillAndKeepHold(d, r) ==
    [d EXCEPT !.dailySpent = @ + r.cost, !.totalSpent = @ + r.cost]

Bill(d, r) == Settled(d, r, r.cost)

Settle(a, fate) == ledger' = [ledger EXCEPT ![a] = WithFate(@, fate)]

\* Mutant: the script returns early when the campaign is gone.
ReleaseUnlessDeleted(a) ==
    LET r == auction[a]
        c == r.campaignId
    IN  IF InCache(c)
        THEN /\ doc' = [doc EXCEPT ![c] = GiveBack(@, r)]
             /\ Mark(a, "RELEASED")
             /\ Settle(a, "freed")
        ELSE /\ expirations' = Unqueued(a)
             /\ UNCHANGED <<doc, auction, ledger>>

\* releaseReservation
Release(a) ==
    LET r == auction[a]
        c == r.campaignId
    IN  /\ doc' = IF InCache(c) THEN [doc EXCEPT ![c] = GiveBack(@, r)] ELSE doc
        /\ Mark(a, "RELEASED")
        /\ Settle(a, "freed")

Commit(a) ==
    LET r == auction[a]
        c == r.campaignId
    IN  /\ doc' = [doc EXCEPT ![c] = Bill(@, r)]
        /\ Mark(a, "COMMITTED")
        /\ Settle(a, "billed")

\* The reply arrives, or it is lost and ioredis sends the same script again.
Replied(k, a) ==
    \/ call' = [call EXCEPT ![<<k, a>>] = NoCall]
    \/ UNCHANGED call

(***************************************************************************)
(* REDIS_COMMIT_AUCTION_SCRIPT.  Its now is Date.now() of the caller, some *)
(* time between the GET and this step.                                     *)
(***************************************************************************)
CommitScript(k, a) ==
    /\ call[<<k, a>>] # NoCall
    /\ IF auction[a].status = "RESERVED"
       THEN \E now \in call[<<k, a>>].at .. clock :
              IF \/ auction[a].expiresAt <= now
                 \/ auction[a].budgetDate # call[<<k, a>>].budgetDate
                 \/ ~InCache(auction[a].campaignId)
              THEN Release(a)
              ELSE Commit(a)
       ELSE /\ expirations' = IF auction[a] = NoAuction THEN Unqueued(a) ELSE expirations
            /\ UNCHANGED <<doc, auction, ledger>>
    /\ Replied(k, a)
    /\ UNCHANGED <<clock, request>>

\* Mutant: a terminal status is not looked at.
ReleaseOverwrites(k, a) ==
    /\ call[<<k, a>>] # NoCall
    /\ IF auction[a].status = "RESERVED"
       THEN Release(a)
       ELSE Mark(a, "RELEASED") /\ UNCHANGED <<doc, ledger>>
    /\ Replied(k, a)
    /\ UNCHANGED <<clock, request>>

\* REDIS_RELEASE_AUCTION_SCRIPT
ReleaseScript(k, a) ==
    /\ call[<<k, a>>] # NoCall
    /\ IF auction[a].status = "RESERVED"
       THEN Release(a)
       ELSE /\ expirations' = IF auction[a] = NoAuction THEN Unqueued(a) ELSE expirations
            /\ UNCHANGED <<doc, auction, ledger>>
    /\ Replied(k, a)
    /\ UNCHANGED <<clock, request>>

-----------------------------------------------------------------------------
(***************************************************************************)
(* The campaign document and time.                                         *)
(***************************************************************************)
UpdateStatus(c, status) ==
    /\ InCache(c)
    /\ doc' = [doc EXCEPT ![c] = [@ EXCEPT !.status = status]]
    /\ UNCHANGED <<clock, auction, expirations, request, call, ledger>>

DeleteCampaign(c) ==
    /\ InCache(c)
    /\ doc' = [doc EXCEPT ![c] = NoDoc]
    /\ UNCHANGED <<clock, auction, expirations, request, call, ledger>>

(***************************************************************************)
(* REDIS_RESET_DAILY_BUDGET_SCRIPT, run by the daily cron at the server's  *)
(* own midnight, which need not be KST's ("late": once a day, at any time  *)
(* of it), and by POST /campaigns/manual-reset ("anytime").                *)
(***************************************************************************)
ResetDaily(c) ==
    /\ InCache(c)
    /\ ResetMode = "anytime" \/ doc[c].lastResetDate # Today
    /\ doc' = [doc EXCEPT ![c] =
                [status            |-> @.status,
                 dailySpent        |-> 0,
                 totalSpent        |-> @.totalSpent,
                 dailyReserved     |-> 0,
                 totalReserved     |-> @.totalReserved,
                 dailyReservedDate |-> Today,
                 lastResetDate     |-> Today]]
    /\ UNCHANGED <<clock, auction, expirations, request, call, ledger>>

\* Nothing that was stamped before midnight is still on its way to Redis.
NothingInFlight ==
    /\ \A a \in Auctions : request[a].phase # "reserving"
    /\ \A x \in Callers \X Auctions : call[x] = NoCall

\* Time passes; Redis drops the markers whose TTL is over.
Tick ==
    /\ clock < MaxClock
    /\ Straddling \/ KstDate(clock + 1) = Today \/ NothingInFlight
    /\ clock' = clock + 1
    /\ auction' = [a \in Auctions |->
                     IF /\ auction[a].status \in {"COMMITTED", "RELEASED"}
                        /\ auction[a].ttlEnd <= clock + 1
                     THEN NoAuction ELSE auction[a]]
    /\ UNCHANGED <<doc, expirations, request, call, ledger>>

-----------------------------------------------------------------------------
Decide(a) ==
    \/ \E ranked \in Rankings : StartDecision(a, ranked)
    \/ ReserveWins(a)
    \/ ReserveFindsExisting(a)
    \/ ReserveExhausted(a)
    \/ AbandonDecision(a)

Transit(k, a) ==
    \/ BeginTransition(k, a)
    \/ BeginFindsNothing(k, a)
    \/ k \in Clickers /\ CommitScript(k, a)
    \/ k \notin Clickers /\ ReleaseScript(k, a)

Maintain(c) ==
    \/ \E status \in Statuses : UpdateStatus(c, status)
    \/ DeleteCampaign(c)
    \/ ResetDaily(c)

Next ==
    \/ \E a \in Auctions : Decide(a)
    \/ \E k \in Callers, a \in Auctions : Transit(k, a)
    \/ \E c \in Campaigns : Maintain(c)
    \/ Tick

Spec == Init /\ [][Next]_vars

(***************************************************************************)
(* Time passes, the sweep timer keeps firing (setInterval), and a script   *)
(* that a sweep sent is run.  Visitors and servers promise nothing.        *)
(***************************************************************************)
Fairness ==
    /\ WF_vars(Tick)
    /\ \A k \in Sweepers, a \in Auctions :
          /\ WF_vars(BeginTransition(k, a))
          /\ WF_vars(ReleaseScript(k, a))

FairSpec == Spec /\ Fairness

-----------------------------------------------------------------------------
(***************************************************************************)
(* Properties.                                                             *)
(***************************************************************************)

(***************************************************************************)
(* The reserved and spent totals of a campaign document are exactly the    *)
(* outstanding holds and the committed clicks on that campaign: no path    *)
(* through reserve, a repeated script, click, dismiss, expiry or sweep     *)
(* drops, doubles or misplaces an amount (campaign.types.ts:58).           *)
(***************************************************************************)
TotalsMatchLedger ==
    \A c \in Campaigns : InCache(c) =>
        /\ doc[c].totalReserved = TotalOf(ledger, c, {"held"})
        /\ doc[c].totalSpent = TotalOf(ledger, c, {"billed"})

(***************************************************************************)
(* Whatever the day, the status changes and the late calls, what was       *)
(* billed to a campaign together with what is held on it stays within its  *)
(* total budget.                                                           *)
(***************************************************************************)
TotalBudgetKept ==
    \A c \in Campaigns : TotalBudget[c] # NoLimit =>
        TotalOf(ledger, c, {"held"}) + TotalOf(ledger, c, {"billed"}) <= TotalBudget[c]

(***************************************************************************)
(* Every hold is in the expiration ZSET under its own expiry, and nothing  *)
(* else is: a hold that is missing there is never swept, and an entry that *)
(* stays keeps its place in every batch of the sweep.                      *)
(***************************************************************************)
HoldsAreQueued ==
    expirations = {[id |-> a, score |-> auction[a].expiresAt] :
                      a \in {b \in Auctions : auction[b].status = "RESERVED"}}

(***************************************************************************)
(* At the moment a visitor is answered with an ad, a hold on a campaign    *)
(* stands behind it, though the script may have run twice and the hold of  *)
(* its first run may have ended in between (rtb.service.ts:433).           *)
(***************************************************************************)
Answers(a) == request[a] # Phase("answered") /\ request'[a] = Phase("answered")

AnswerHasHold ==
    [][\A a \in Auctions : Answers(a) => ledger'[a].fate = "held"]_vars

\* The ledger is what BudgetPromise promises.
Promise == INSTANCE BudgetPromise

(***************************************************************************)
(* Reservation through Redis implements the promise: one hold an auction,  *)
(* settled once, never above the total budget.                             *)
(***************************************************************************)
KeepsPromise == Promise!Spec

\* The auction keys as AuctionKeys has them: the time and the end of each.
KeyOf(k) ==
    CASE k.status = "RESERVED" -> [status |-> "RESERVED", expiresAt |-> k.expiresAt]
      [] k.status \in {"COMMITTED", "RELEASED"} -> [status |-> k.status, ttlEnd |-> k.ttlEnd]
      [] OTHER -> [status |-> "missing"]

Keys == INSTANCE AuctionKeys WITH key <- [a \in Auctions |-> KeyOf(auction[a])]

(***************************************************************************)
(* The auction keys live as AuctionKeys says: one end for each             *)
(* reservation, and a marker that keeps its status until its TTL is over.  *)
(* This is what the click and dismiss handlers rely on.                    *)
(***************************************************************************)
KeysFollow == Keys!KeySpec

(***************************************************************************)
(* Every hold is billed or given back in the end, without any visitor      *)
(* doing anything: the sweep finds it once it has expired.                 *)
(***************************************************************************)
HoldsAreSettled ==
    \A a \in Auctions : ledger[a].fate = "held" ~> ledger[a].fate # "held"
=============================================================================
