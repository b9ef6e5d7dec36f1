----------------------------- MODULE LegacyBudget -----------------------------
(***************************************************************************)
(* The default budget mode, legacy_topk.  A decision adds the cost of a    *)
(* click to what every candidate of a Top-K window has spent, keeps one    *)
(* winner and takes it back from the losers.  The winner's stays spent     *)
(* unless it is rolled back: a view leaves a rollback record in Redis and  *)
(* a backup of it that lives longer; a dismiss rolls back, and so does the *)
(* worker that hears of the record's expiry; a click deletes both.         *)
(***************************************************************************)
EXTENDS Integers, FiniteSets, Sequences

CONSTANTS
    Campaigns,
    Auctions,
    MaxViews,     \* bound: rows of the view log
    MaxClicks,    \* bound: rows of the click log for one view
    None,
    Cost,         \* maxCpc of each campaign
    DailyBudget, TotalBudget,
    Rankings,     \* rankings as sequences of Top-K windows, each a set of campaigns
    RecordTtl,    \* rollback record, auction data and deduplication keys
    BackupTtl,    \* backup of the rollback record
    LastTime,     \* bound of the clock
    MaxAtOnce,    \* bound: requests and events handled at the same time
    MaxFaults,    \* bound: crashes and resets
    Regimes       \* sets of hazards; one of them is what may happen

(***************************************************************************)
(* Hazards.  rush: decisions are taken at the same time; race: requests    *)
(* about views and the worker's events are handled at the same time;       *)
(* reload: a page is viewed again; crash: a handler stops half way;        *)
(* missed: an expiry is not heard of; slow: time runs out during a         *)
(* handler; midnight: the daily reset; lost: an increment takes effect and *)
(* its reply is lost.                                                      *)
(***************************************************************************)
Hazards == {"rush", "race", "reload", "crash", "missed", "slow", "midnight", "lost"}

Views == 1..MaxViews

ASSUME LegacyAssumption ==
    /\ None \notin Campaigns \union Auctions \union Nat
    /\ IsFiniteSet(Auctions)
    /\ Cost \in [Campaigns -> Nat \ {0}]
    /\ {MaxViews, MaxClicks, DailyBudget, TotalBudget, RecordTtl, BackupTtl, LastTime, MaxAtOnce, MaxFaults}
         \subseteq Nat
    /\ 0 < RecordTtl /\ RecordTtl < BackupTtl
    /\ Rankings \subseteq Seq(SUBSET Campaigns)
    /\ Regimes \subseteq SUBSET Hazards

VARIABLES
    now,
    doc,        \* campaign:{id}: what is spent today and in all
    auction,    \* each decision, and the auction data it left
    view,       \* the view of each auction: how far its handler is
    pageKey,    \* deduplication keys of one visitor's views of pages
    row,        \* view_log, by view id
    rollback,   \* rollback:view:{id}
    backup,     \* backup:rollback:view:{id}
    clickKey,   \* dedup:click:view:{id}
    handler,    \* handlers of a view: click, dismiss and worker
    expired,    \* views whose expiry event is on its way to the worker
    clicks,     \* history: rows of click_log, by view id
    attached,   \* history: auctions for which a view got a rollback record
    undone,     \* history: rollbacks that took effect, by view id
    faults,     \* crashes and resets so far
    allowed     \* the hazards of this behaviour

keys    == <<pageKey, rollback, backup, clickKey>>
history == <<clicks, attached, undone>>
vars    == <<now, doc, auction, view, keys, row, handler, expired, history, faults, allowed>>

-----------------------------------------------------------------------------
NoRow == [campaign |-> None]
NoKey == [until |-> 0]

Docs == [daily : Nat, total : Nat]

Auction ==
    [at : {"new", "increment", "rollback", "cache", "answered", "failed"},
     windows : Seq(SUBSET Campaigns), todo : SUBSET Campaigns, got : SUBSET Campaigns,
     winner : Campaigns \union {None}, until : Nat]

ViewCall == [at : {"new", "acquire", "peek", "save", "publish", "record", "check", "backup",
                   "done", "failed"},
             id : Views \union {None}]

Record == [campaign : Campaigns, until : Nat]

HandlerKinds == {"click", "dismiss", "worker"}
HandlerSteps == {"idle", "find", "findBackup", "dedup", "log", "decrement", "drop", "dropBackup"}

TypeOK ==
    /\ now \in 0..LastTime
    /\ doc \in [Campaigns -> Docs]
    /\ auction \in [Auctions -> Auction]
    /\ view \in [Auctions -> ViewCall]
    /\ pageKey \in [Auctions -> [until : Nat, id : Views \union {None}] \union {NoKey}]
    /\ row \in [Views -> [campaign : Campaigns] \union {NoRow}]
    /\ rollback \in [Views -> Record \union {NoKey}]
    /\ backup \in [Views -> Record \union {NoKey}]
    /\ clickKey \in [Views -> [until : Nat]]
    /\ handler \in [HandlerKinds -> [Views -> [at : HandlerSteps, campaign : Campaigns \union {None}]]]
    /\ expired \subseteq Views
    /\ clicks \in [Views -> 0..MaxClicks]
    /\ attached \in [Views -> Nat] /\ undone \in [Views -> Nat]
    /\ faults \in 0..MaxFaults /\ allowed \in Regimes

Init ==
    /\ now = 0
    /\ doc = [c \in Campaigns |-> [daily |-> 0, total |-> 0]]
    /\ auction = [a \in Auctions |-> [at |-> "new", windows |-> <<>>, todo |-> {}, got |-> {},
                                      winner |-> None, until |-> 0]]
    /\ view = [a \in Auctions |-> [at |-> "new", id |-> None]]
    /\ pageKey = [p \in Auctions |-> NoKey]
    /\ row = [v \in Views |-> NoRow]
    /\ rollback = [v \in Views |-> NoKey]
    /\ backup = [v \in Views |-> NoKey]
    /\ clickKey = [v \in Views |-> NoKey]
    /\ handler = [k \in HandlerKinds |-> [v \in Views |-> [at |-> "idle", campaign |-> None]]]
    /\ expired = {}
    /\ clicks = [v \in Views |-> 0]
    /\ attached = [v \in Views |-> 0]
    /\ undone = [v \in Views |-> 0]
    /\ faults = 0 /\ allowed \in Regimes

-----------------------------------------------------------------------------
May(hazard) == hazard \in allowed

\* A key with time to live is there until its time.
Live(key) == key.until > now

DecisionIsWorking(a) == auction[a].at \in {"increment", "rollback"}

ViewIsWorking(a) == view[a].at \notin {"new", "done", "failed"}

Idle(k, v) == handler[k][v].at = "idle"

Working ==
    \/ \E a \in Auctions : DecisionIsWorking(a) \/ ViewIsWorking(a)
    \/ \E k \in HandlerKinds, v \in Views : ~Idle(k, v)

AtWork ==
    Cardinality({a \in Auctions : ViewIsWorking(a)})
      + Cardinality({kv \in HandlerKinds \X Views : ~Idle(kv[1], kv[2])})

\* A request or an event is taken up when no other is being handled, or beside it.
Free ==
    \/ ~Working
    \/ /\ May("race") /\ AtWork < MaxAtOnce
       /\ \A a \in Auctions : ~DecisionIsWorking(a)

(***************************************************************************)
(* The scripts of the budget.                                              *)
(***************************************************************************)
\* Mutant: only the day is looked at.
FitsDay(c) == doc[c].daily + Cost[c] <= DailyBudget

Fits(c) == doc[c].daily + Cost[c] <= DailyBudget /\ doc[c].total + Cost[c] <= TotalBudget

Spend(c) == doc' = [doc EXCEPT ![c].daily = @ + Cost[c], ![c].total = @ + Cost[c]]

Covered(c) == doc[c].daily >= Cost[c] /\ doc[c].total >= Cost[c]

Unspend(c) ==
    doc' = IF Covered(c) THEN [doc EXCEPT ![c].daily = @ - Cost[c], ![c].total = @ - Cost[c]]
           ELSE doc

-----------------------------------------------------------------------------
(***************************************************************************)
(* A decision: the candidates of a window are increased at the same time;  *)
(* the first window in which one succeeds is the last.                     *)
(***************************************************************************)
OnlyAuction == UNCHANGED <<now, view, keys, row, handler, expired, history, faults, allowed>>

StartDecision(a, ranking) ==
    /\ auction[a].at = "new" /\ (May("rush") \/ ~Working)
    /\ auction' = [auction EXCEPT ![a].at = "increment", ![a].windows = Tail(ranking),
                                  ![a].todo = Head(ranking)]
    /\ doc' = doc /\ OnlyAuction

Increment(a, c) ==
    /\ auction[a].at = "increment" /\ c \in auction[a].todo
    /\ \E replied \in {TRUE} \union {~May("lost")} :
         auction' = [auction EXCEPT ![a].todo = @ \ {c},
                       ![a].got = IF Fits(c) /\ replied THEN @ \union {c} ELSE @]
    /\ IF Fits(c) THEN Spend(c) ELSE doc' = doc
    /\ OnlyAuction

NextWindow(a) ==
    /\ auction[a].at = "increment" /\ auction[a].todo = {} /\ auction[a].got = {}
    /\ auction' = IF auction[a].windows = <<>> THEN [auction EXCEPT ![a].at = "failed"]
                  ELSE [auction EXCEPT ![a].todo = Head(auction[a].windows),
                                       ![a].windows = Tail(@)]
    /\ doc' = doc /\ OnlyAuction

\* Mutant: everyone in the window is rolled back, the winner too.
SelectWinnerOfAll(a, c) ==
    /\ auction[a].at = "increment" /\ auction[a].todo = {} /\ c \in auction[a].got
    /\ auction' = [auction EXCEPT ![a].at = "rollback", ![a].winner = c,
                                  ![a].todo = auction[a].got, ![a].windows = <<>>]
    /\ doc' = doc /\ OnlyAuction

\* Whatever wins by score: the losers are rolled back.
SelectWinner(a, c) ==
    /\ auction[a].at = "increment" /\ auction[a].todo = {} /\ c \in auction[a].got
    /\ auction' = [auction EXCEPT ![a].at = "rollback", ![a].winner = c,
                                  ![a].todo = auction[a].got \ {c}, ![a].windows = <<>>]
    /\ doc' = doc /\ OnlyAuction

RollbackLoser(a, c) ==
    /\ auction[a].at = "rollback" /\ c \in auction[a].todo
    /\ Unspend(c)
    /\ auction' = [auction EXCEPT ![a].todo = @ \ {c}]
    /\ OnlyAuction

CacheAuction(a) ==
    /\ auction[a].at = "rollback" /\ auction[a].todo = {}
    /\ auction' = [auction EXCEPT ![a].at = "answered", ![a].got = {},
                                  ![a].until = now + RecordTtl]
    /\ doc' = doc /\ OnlyAuction
-----------------------------------------------------------------------------
(***************************************************************************)
(* recordView without a reservation.  An auction is shown on a page of its *)
(* own, unless reload is allowed: then all are shown on the same page.     *)
(***************************************************************************)
OnlyView == UNCHANGED <<now, doc, auction, clickKey, handler, expired, clicks, undone, faults, allowed>>

Page(a) == IF May("reload") THEN CHOOSE p \in Auctions : TRUE ELSE a

ViewGoes(a, step) == view' = [view EXCEPT ![a].at = step]

ViewGoesWith(a, step, v) == view' = [view EXCEPT ![a] = [at |-> step, id |-> v]]

Set(c, ttl) == [campaign |-> c, until |-> now + ttl]

NextView == Cardinality({v \in Views : row[v] # NoRow}) + 1

ReadAuctionData(a) ==
    /\ view[a].at = "new" /\ auction[a].at = "answered" /\ Free
    /\ now + RecordTtl <= LastTime
    /\ ViewGoes(a, IF Live(auction[a]) THEN "acquire" ELSE "failed")
    /\ UNCHANGED <<pageKey, row, rollback, backup, attached>> /\ OnlyView

AcquirePage(a) ==
    /\ view[a].at = "acquire"
    /\ \/ /\ ~Live(pageKey[Page(a)])
          /\ pageKey' = [pageKey EXCEPT ![Page(a)] = [until |-> now + RecordTtl, id |-> None]]
          /\ ViewGoes(a, "save")
       \/ /\ Live(pageKey[Page(a)]) /\ pageKey' = pageKey
          /\ LET v == pageKey[Page(a)].id
             IN  IF v = None THEN ViewGoes(a, "peek") ELSE ViewGoesWith(a, "check", v)
    /\ UNCHANGED <<row, rollback, backup, attached>> /\ OnlyView

\* The other request may have finished since: its view id, or 409.
PeekPage(a) ==
    /\ view[a].at = "peek"
    /\ LET key == pageKey[Page(a)]
       IN  IF Live(key) /\ key.id # None THEN ViewGoesWith(a, "done", key.id)
           ELSE ViewGoes(a, "failed")
    /\ UNCHANGED <<pageKey, row, rollback, backup, attached>> /\ OnlyView

SaveViewLog(a) ==
    /\ view[a].at = "save" /\ NextView \in Views
    /\ row' = [row EXCEPT ![NextView] = [campaign |-> auction[a].winner]]
    /\ ViewGoesWith(a, "publish", NextView)
    /\ UNCHANGED <<pageKey, rollback, backup, attached>> /\ OnlyView

PublishPage(a) ==
    /\ view[a].at = "publish"
    /\ pageKey' = [pageKey EXCEPT ![Page(a)] = [until |-> now + RecordTtl, id |-> view[a].id]]
    /\ ViewGoes(a, "record")
    /\ UNCHANGED <<row, rollback, backup, attached>> /\ OnlyView

\* A view seen again gets a new record when it has none.
CheckRecord(a) ==
    /\ view[a].at = "check"
    /\ ViewGoes(a, IF Live(rollback[view[a].id]) THEN "done" ELSE "record")
    /\ UNCHANGED <<pageKey, row, rollback, backup, attached>> /\ OnlyView

SetRollbackInfo(a) ==
    /\ view[a].at = "record"
    /\ rollback' = [rollback EXCEPT ![view[a].id] = Set(auction[a].winner, RecordTtl)]
    /\ attached' = [attached EXCEPT ![view[a].id] = @ + 1]
    /\ ViewGoes(a, "backup")
    /\ UNCHANGED <<pageKey, row, backup>> /\ OnlyView

SetRollbackBackup(a) ==
    /\ view[a].at = "backup"
    /\ backup' = [backup EXCEPT ![view[a].id] = Set(auction[a].winner, BackupTtl)]
    /\ ViewGoes(a, "done")
    /\ UNCHANGED <<pageKey, row, rollback, attached>> /\ OnlyView

-----------------------------------------------------------------------------
(***************************************************************************)
(* Clicks and dismisses of a view whose id was answered, and the worker's  *)
(* handling of an expired record.                                          *)
(***************************************************************************)
OnlyHandler == UNCHANGED <<now, auction, view, pageKey, row, attached, faults, allowed>>

Answered(v) == \E a \in Auctions : view[a].at = "done" /\ view[a].id = v

Goes(k, v, step) == handler' = [handler EXCEPT ![k][v].at = step]

Ends(k, v) == handler' = [handler EXCEPT ![k][v] = [at |-> "idle", campaign |-> None]]

Drop(key, v) == [key EXCEPT ![v] = NoKey]

StartClick(v) ==
    /\ Answered(v) /\ Idle("click", v) /\ Free /\ clicks[v] < MaxClicks
    /\ Goes("click", v, "find")
    /\ UNCHANGED <<doc, rollback, backup, clickKey, expired, clicks, undone>> /\ OnlyHandler

FindForClick(v) ==
    /\ handler["click"][v].at \in {"find", "findBackup"}
    /\ \/ handler["click"][v].at = "find"
          /\ Goes("click", v, IF Live(rollback[v]) THEN "dedup" ELSE "findBackup")
       \/ handler["click"][v].at = "findBackup"
          /\ IF Live(backup[v]) THEN Goes("click", v, "dedup") ELSE Ends("click", v)
    /\ UNCHANGED <<doc, rollback, backup, clickKey, expired, clicks, undone>> /\ OnlyHandler

SetClickKey(v) ==
    /\ handler["click"][v].at = "dedup"
    /\ IF Live(clickKey[v]) THEN Ends("click", v) /\ clickKey' = clickKey
       ELSE Goes("click", v, "log") /\ clickKey' = [clickKey EXCEPT ![v].until = now + RecordTtl]
    /\ UNCHANGED <<doc, rollback, backup, expired, clicks, undone>> /\ OnlyHandler

SaveClickLog(v) ==
    /\ handler["click"][v].at = "log"
    /\ clicks' = [clicks EXCEPT ![v] = @ + 1]
    /\ Goes("click", v, "drop")
    /\ UNCHANGED <<doc, rollback, backup, clickKey, expired, undone>> /\ OnlyHandler

StartDismiss(v) ==
    /\ Answered(v) /\ Idle("dismiss", v) /\ Free /\ Live(rollback[v])
    /\ handler' = [handler EXCEPT !["dismiss"][v] = [at |-> "decrement",
                                                      campaign |-> rollback[v].campaign]]
    /\ UNCHANGED <<doc, rollback, backup, clickKey, expired, clicks, undone>> /\ OnlyHandler

\* Mutant: the worker looks for the record that has just expired.
HearExpiryOfRecord(v) ==
    /\ v \in expired /\ Idle("worker", v) /\ Free
    /\ expired' = expired \ {v}
    /\ handler' = IF ~Live(rollback[v]) THEN handler
                  ELSE [handler EXCEPT !["worker"][v] = [at |-> "decrement",
                                                         campaign |-> rollback[v].campaign]]
    /\ UNCHANGED <<doc, rollback, backup, clickKey, clicks, undone>> /\ OnlyHandler

HearExpiry(v) ==
    /\ v \in expired /\ Idle("worker", v) /\ Free
    /\ expired' = expired \ {v}
    /\ handler' = IF ~Live(backup[v]) THEN handler
                  ELSE [handler EXCEPT !["worker"][v] = [at |-> "decrement",
                                                         campaign |-> backup[v].campaign]]
    /\ UNCHANGED <<doc, rollback, backup, clickKey, clicks, undone>> /\ OnlyHandler

Decrement(k, v) ==
    /\ handler[k][v].at = "decrement"
    /\ LET c == handler[k][v].campaign
       IN  Unspend(c) /\ undone' = IF Covered(c) THEN [undone EXCEPT ![v] = @ + 1] ELSE undone
    /\ Goes(k, v, IF k = "worker" THEN "dropBackup" ELSE "drop")
    /\ UNCHANGED <<rollback, backup, clickKey, expired, clicks>> /\ OnlyHandler

DeleteRollbackInfo(k, v) ==
    /\ handler[k][v].at = "drop"
    /\ rollback' = Drop(rollback, v)
    /\ Goes(k, v, "dropBackup")
    /\ UNCHANGED <<doc, backup, clickKey, expired, clicks, undone>> /\ OnlyHandler

\* Mutant: the worker leaves the backup.
DeleteBackupUnlessWorker(k, v) ==
    /\ handler[k][v].at = "dropBackup"
    /\ backup' = IF k = "worker" THEN backup ELSE Drop(backup, v)
    /\ Ends(k, v)
    /\ UNCHANGED <<doc, rollback, clickKey, expired, clicks, undone>> /\ OnlyHandler

DeleteRollbackBackup(k, v) ==
    /\ handler[k][v].at = "dropBackup"
    /\ backup' = Drop(backup, v)
    /\ Ends(k, v)
    /\ UNCHANGED <<doc, rollback, clickKey, expired, clicks, undone>> /\ OnlyHandler

-----------------------------------------------------------------------------
(***************************************************************************)
(* Time.  Redis deletes what has expired and says so, at most once, for a  *)
(* rollback record.                                                        *)
(***************************************************************************)
Expire(key) == [i \in DOMAIN key |-> IF key[i].until = now + 1 THEN NoKey ELSE key[i]]

Tick ==
    /\ now < LastTime /\ (Working \/ expired # {} => May("slow"))
    /\ now' = now + 1
    /\ LET gone == {v \in Views : rollback[v].until = now + 1}
       IN  \E heard \in {gone} \union (IF May("missed") THEN SUBSET gone ELSE {}) :
             expired' = expired \union heard
    /\ rollback' = Expire(rollback) /\ backup' = Expire(backup)
    /\ pageKey' = Expire(pageKey) /\ clickKey' = Expire(clickKey)
    /\ auction' = [a \in Auctions |->
                     IF auction[a].until = now + 1 THEN [auction[a] EXCEPT !.until = 0] ELSE auction[a]]
    /\ UNCHANGED <<doc, view, row, handler, history, faults, allowed>>

Fault == faults < MaxFaults /\ faults' = faults + 1

Midnight ==
    /\ May("midnight") /\ Fault
    /\ doc' = [c \in Campaigns |-> [doc[c] EXCEPT !.daily = 0]]
    /\ UNCHANGED <<now, auction, view, keys, row, handler, expired, history, allowed>>

CrashView(a) ==
    /\ May("crash") /\ Fault /\ ViewIsWorking(a)
    /\ view' = [view EXCEPT ![a] = [at |-> "failed", id |-> None]]
    /\ UNCHANGED <<now, doc, auction, keys, row, handler, expired, history, allowed>>

CrashHandler(k, v) ==
    /\ May("crash") /\ Fault /\ ~Idle(k, v)
    /\ Ends(k, v)
    /\ UNCHANGED <<now, doc, auction, view, keys, row, expired, history, allowed>>

\* The bounds are reached: no more can be asked.
Finished == now = LastTime /\ ~Working /\ expired = {} /\ UNCHANGED vars

-----------------------------------------------------------------------------
Decide(a) ==
    \/ \E r \in Rankings : r # <<>> /\ StartDecision(a, r)
    \/ \E c \in Campaigns : Increment(a, c) \/ SelectWinner(a, c) \/ RollbackLoser(a, c)
    \/ NextWindow(a) \/ CacheAuction(a)

View(a) ==
    \/ ReadAuctionData(a) \/ AcquirePage(a) \/ PeekPage(a) \/ SaveViewLog(a) \/ PublishPage(a)
    \/ CheckRecord(a) \/ SetRollbackInfo(a) \/ SetRollbackBackup(a)

Work(k, v) == Decrement(k, v) \/ DeleteRollbackInfo(k, v) \/ DeleteRollbackBackup(k, v)

Click(v) == FindForClick(v) \/ SetClickKey(v) \/ SaveClickLog(v)

Next ==
    \/ \E a \in Auctions : Decide(a) \/ View(a) \/ CrashView(a)
    \/ \E v \in Views :
         \/ StartClick(v) \/ Click(v) \/ StartDismiss(v) \/ HearExpiry(v)
         \/ \E k \in HandlerKinds : Work(k, v) \/ CrashHandler(k, v)
    \/ Tick \/ Midnight \/ Finished

\* A handler that was started goes on; an event that was sent is delivered and
\* time passes, however often a client asks (Free and Tick wait for handlers);
\* nobody has to visit, click or dismiss.
Fairness ==
    /\ SF_vars(Tick)
    /\ \A a \in Auctions :
         /\ WF_vars(auction[a].at # "new" /\ Decide(a))
         /\ WF_vars(view[a].at # "new" /\ View(a))
    /\ \A v \in Views :
         /\ WF_vars(Click(v)) /\ SF_vars(HearExpiry(v))
         /\ \A k \in HandlerKinds : WF_vars(Work(k, v))

Spec == Init /\ [][Next]_vars /\ Fairness

-----------------------------------------------------------------------------
(***************************************************************************)
(* Properties.                                                             *)
(***************************************************************************)
Without(hazards) == allowed \intersect hazards = {}

\* However decisions, rollbacks and resets interleave, a campaign never spends
\* more than its budgets (the checks and additions of increment-spent are one
\* script).
SpentWithinBudget ==
    \A c \in Campaigns : doc[c].daily <= DailyBudget /\ doc[c].total <= TotalBudget

\* The rows of click_log that are a campaign's.
ClickLog(c) == UNION {{v} \X (1..clicks[v]) : v \in {v \in Views : row[v].campaign = c}}

\* What Redis says a campaign spent covers the clicks logged for it, which is
\* what lets the database be behind Redis and never ahead (the worker's TODO
\* asks whether it does).  It needs views handled one request at a time, to
\* the end, and seen once: see the README for what each hazard does to it.
SpentCoversClicks ==
    Without({"race", "reload", "crash", "slow"}) =>
        \A c \in Campaigns : doc[c].total >= Cost[c] * Cardinality(ClickLog(c))

\* A rollback record is used once: it is clicked or rolled back, by whoever
\* comes first, and the other finds nothing.
SettledOnce ==
    Without({"race", "crash", "slow"}) =>
        \A v \in Views : clicks[v] + undone[v] <= attached[v]

\* When the visits are over, every view was clicked or rolled back: a record that
\* nobody uses expires, and its backup outlives it.  (Not when a view seen again
\* during a dismiss gets the record whose backup the dismiss then deletes.)
ViewedIsSettled ==
    Without({"crash", "missed", "slow", "midnight"}) /\ ~{"race", "reload"} \subseteq allowed =>
        <>[] (\A v \in Views : clicks[v] + undone[v] >= attached[v])
=============================================================================
