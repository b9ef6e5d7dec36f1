-------------------------- MODULE LegacyBudget_proofs --------------------------
(***************************************************************************)
(* In the default mode the budgets hold, a rollback record is used once,   *)
(* and what is spent covers the clicks, for every number of campaigns,     *)
(* decisions, windows, handlers and faults.                                *)
(***************************************************************************)
EXTENDS LegacyBudget, FiniteSetTheorems, TLAPS

Bounded == [daily : 0..DailyBudget, total : 0..TotalBudget]

Inv == doc \in [Campaigns -> Bounded]

-----------------------------------------------------------------------------
(***************************************************************************)
(* The scripts: an addition has been checked, a subtraction is covered.    *)
(***************************************************************************)
LEMMA UpdateKeepsInv ==
    ASSUME Inv, NEW c \in Campaigns, NEW daily \in 0..DailyBudget, NEW total \in 0..TotalBudget,
           doc' = [doc EXCEPT ![c].daily = daily, ![c].total = total]
    PROVE  Inv'
<1>1. doc[c] \in Bounded
  BY DEF Inv
<1>2. ASSUME NEW next, next = [doc[c] EXCEPT !.daily = daily, !.total = total]
      PROVE  next \in Bounded
  BY <1>1, <1>2 DEF Bounded
<1>3. doc' = [doc EXCEPT ![c] = [doc[c] EXCEPT !.daily = daily, !.total = total]]
  BY DEF Inv
<1> QED
  BY <1>2, <1>3 DEF Inv

LEMMA SpendKeepsInv ==
    ASSUME Inv, NEW c \in Campaigns, Fits(c), Spend(c)
    PROVE  Inv'
<1>1. /\ doc[c].daily + Cost[c] \in 0..DailyBudget
      /\ doc[c].total + Cost[c] \in 0..TotalBudget
  BY LegacyAssumption DEF Inv, Bounded, Fits
<1> QED
  BY <1>1, UpdateKeepsInv DEF Spend

LEMMA UnspendKeepsInv ==
    ASSUME Inv, NEW c, Unspend(c)
    PROVE  Inv'
<1>1. CASE c \in Campaigns /\ Covered(c)
  <2>1. /\ doc[c].daily - Cost[c] \in 0..DailyBudget
        /\ doc[c].total - Cost[c] \in 0..TotalBudget
    BY <1>1, LegacyAssumption DEF Inv, Bounded, Covered
  <2> QED
    BY <1>1, <2>1, UpdateKeepsInv DEF Unspend
<1>2. CASE ~(c \in Campaigns /\ Covered(c))
  <2>1. doc' = doc
    BY <1>2 DEF Unspend, Inv
  <2> QED
    BY <2>1 DEF Inv
<1> QED
  BY <1>1, <1>2

-----------------------------------------------------------------------------
LEMMA DecideKeepsInv ==
    ASSUME Inv, NEW a \in Auctions, Decide(a)
    PROVE  Inv'
<1>1. ASSUME NEW c \in Campaigns, Increment(a, c)
      PROVE  Inv'
  BY <1>1, SpendKeepsInv DEF Increment, Inv
<1>2. ASSUME NEW c \in Campaigns, RollbackLoser(a, c)
      PROVE  Inv'
  BY <1>2, UnspendKeepsInv DEF RollbackLoser
<1>3. ASSUME UNCHANGED doc
      PROVE  Inv'
  BY <1>3 DEF Inv
<1> QED
  BY <1>1, <1>2, <1>3 DEF Decide, StartDecision, SelectWinner, NextWindow, CacheAuction

LEMMA HandlersKeepInv ==
    ASSUME Inv, NEW v \in Views,
           \/ StartClick(v) \/ Click(v) \/ StartDismiss(v) \/ HearExpiry(v)
           \/ \E k \in HandlerKinds : Work(k, v) \/ CrashHandler(k, v)
    PROVE  Inv'
<1>1. ASSUME NEW k \in HandlerKinds, Decrement(k, v)
      PROVE  Inv'
  BY <1>1, UnspendKeepsInv DEF Decrement
<1>2. ASSUME UNCHANGED doc
      PROVE  Inv'
  BY <1>2 DEF Inv
<1> QED
  BY <1>1, <1>2 DEF StartClick, Click, FindForClick, SetClickKey, SaveClickLog, StartDismiss, HearExpiry,
                    Work, DeleteRollbackInfo, DeleteRollbackBackup, CrashHandler

LEMMA MidnightKeepsInv ==
    ASSUME Inv, Midnight
    PROVE  Inv'
<1>1. ASSUME NEW c \in Campaigns, NEW next, next = [doc[c] EXCEPT !.daily = 0]
      PROVE  next \in Bounded
  <2>1. doc[c] \in Bounded
    BY DEF Inv
  <2>2. 0 \in 0..DailyBudget
    BY LegacyAssumption
  <2> QED
    BY <1>1, <2>1, <2>2 DEF Bounded
<1> QED
  BY <1>1 DEF Midnight, Inv

LEMMA InvInit == Init => Inv
BY LegacyAssumption DEF Init, Inv, Bounded

LEMMA InvNext == Inv /\ [Next]_vars => Inv'
<1> SUFFICES ASSUME Inv, [Next]_vars
             PROVE  Inv'
  OBVIOUS
<1>1. ASSUME UNCHANGED doc
      PROVE  Inv'
  BY <1>1 DEF Inv
<1>2. ASSUME NEW a \in Auctions, View(a) \/ CrashView(a)
      PROVE  UNCHANGED doc
  BY <1>2 DEF View, ReadAuctionData, AcquirePage, PeekPage, SaveViewLog, PublishPage, CheckRecord,
              SetRollbackInfo, SetRollbackBackup, OnlyView, CrashView
<1>3. Tick \/ Finished \/ UNCHANGED vars => UNCHANGED doc
  BY DEF Tick, Finished, vars
<1> QED
  BY <1>1, <1>2, <1>3, DecideKeepsInv, HandlersKeepInv, MidnightKeepsInv DEF Next

(***************************************************************************)
(* However decisions, rollbacks, the worker and the daily reset            *)
(* interleave, and wherever they stop, no campaign has spent more than its *)
(* daily or its total budget.                                              *)
(***************************************************************************)
THEOREM BudgetsHold == Spec => []SpentWithinBudget
<1>1. Inv => SpentWithinBudget
  BY LegacyAssumption DEF Inv, Bounded, SpentWithinBudget
<1> QED
  BY <1>1, InvInit, InvNext, PTL DEF Spec

-----------------------------------------------------------------------------
(***************************************************************************)
(* A rollback record is settled once.                                      *)
(***************************************************************************)
Calm == Without({"race", "crash", "slow"})

Timed    == [campaign : Campaigns, until : Nat] \union {NoKey}
Handling == [at : HandlerSteps, campaign : Campaigns \union {None}]
PageKeys == [until : Nat, id : Views \union {None}] \union {NoKey}

Types ==
    /\ now \in Nat
    /\ DOMAIN auction = Auctions /\ \A a \in Auctions : {"at", "winner"} \subseteq DOMAIN auction[a]
    /\ view \in [Auctions -> ViewCall]
    /\ pageKey \in [Auctions -> PageKeys]
    /\ row \in [Views -> [campaign : Campaigns] \union {NoRow}]
    /\ rollback \in [Views -> Timed] /\ backup \in [Views -> Timed]
    /\ handler \in [HandlerKinds -> [Views -> Handling]]
    /\ expired \subseteq Views
    /\ clicks \in [Views -> Nat] /\ attached \in [Views -> Nat] /\ undone \in [Views -> Nat]

(***************************************************************************)
(* What is shown was answered, and what was answered has a winner.         *)
(***************************************************************************)
Answering ==
    \A a \in Auctions :
      /\ auction[a].at \in {"rollback", "answered"} => auction[a].winner \in Campaigns
      /\ view[a].at # "new" => auction[a].at = "answered"

(***************************************************************************)
(* One request or event is handled at a time.                              *)
(***************************************************************************)
Busy(k, v) == ~Idle(k, v)

Solo ==
    /\ \A a, b \in Auctions : ViewIsWorking(a) /\ ViewIsWorking(b) => a = b
    /\ \A a \in Auctions, k \in HandlerKinds, v \in Views : ViewIsWorking(a) => Idle(k, v)
    /\ \A k, j \in HandlerKinds, v, w \in Views : Busy(k, v) /\ Busy(j, w) => k = j /\ v = w

(***************************************************************************)
(* Rows are numbered as they come; nothing is known of a view that has     *)
(* none, and nothing is kept of one whose id has not been published.       *)
(***************************************************************************)
Numbered == \E n \in Nat : {v \in Views : row[v] # NoRow} = 1..n

Unseen(v) ==
    /\ rollback[v] = NoKey /\ backup[v] = NoKey /\ v \notin expired
    /\ \A k \in HandlerKinds : Idle(k, v)

Named ==
    /\ \A a \in Auctions :
         /\ view[a].at \in {"publish", "record", "check", "backup", "done"} => view[a].id \in Views
         /\ view[a].at = "publish" => Unseen(view[a].id)
    /\ \A v \in Views : row[v] = NoRow =>
         /\ Unseen(v)
         /\ \A a \in Auctions : view[a].id # v /\ (pageKey[a] # NoKey => pageKey[a].id # v)

(***************************************************************************)
(* The key of a page expires no later than the record of its view: when a  *)
(* record has expired, its view is not found again and gets no new one.    *)
(***************************************************************************)
PageFirst ==
    /\ \A p \in Auctions : pageKey[p].until <= now + RecordTtl
    /\ \A p \in Auctions, v \in Views : Live(pageKey[p]) /\ pageKey[p].id = v =>
         /\ v \notin expired
         /\ Live(rollback[v]) => pageKey[p].until <= rollback[v].until

ExpiredIsGone ==
    /\ \A v \in expired : ~Live(rollback[v])
    /\ \A a \in Auctions : view[a].at \in {"check", "record", "backup"} => view[a].id \notin expired

(***************************************************************************)
(* Whoever may settle a view finds it open: a record or a backup that is   *)
(* live, unless the handler that has settled it is about to delete both,   *)
(* and a handler that has found one of them.                               *)
(***************************************************************************)
Open(v) == clicks[v] + undone[v] < attached[v]

Cleaning(v) == \E k \in HandlerKinds : handler[k][v].at \in {"drop", "dropBackup"}

PromisedOf(v) ==
    /\ clicks[v] + undone[v] <= attached[v]
    /\ (Live(rollback[v]) \/ Live(backup[v])) /\ ~Cleaning(v) => Open(v)
    /\ \A k \in HandlerKinds :
         /\ handler[k][v].at \in {"dedup", "log", "decrement"} => Open(v)
         /\ handler[k][v].at = "dropBackup" => ~Live(rollback[v])
    /\ Busy("worker", v) => handler["worker"][v].at \in {"decrement", "dropBackup"} /\ ~Live(rollback[v])

Promised ==
    /\ \A v \in Views : PromisedOf(v)
    /\ \A a \in Auctions : view[a].at = "backup" => Open(view[a].id)

Settling == Types /\ Answering /\ Solo /\ Numbered /\ Named /\ PageFirst /\ ExpiredIsGone /\ Promised

SettlingInv == Calm => Settling

LEMMA SettlingInit == Init => SettlingInv
<1> SUFFICES ASSUME Init, Calm
             PROVE  Settling
  BY DEF SettlingInv
<1>1. Types
  BY DEF Init, Types, Auction, ViewCall, PageKeys, Timed, Handling, HandlerSteps
<1>2. /\ \A v \in Views : row[v] = NoRow /\ rollback[v] = NoKey /\ backup[v] = NoKey
      /\ \A v \in Views : clicks[v] = 0 /\ undone[v] = 0 /\ attached[v] = 0
      /\ \A a \in Auctions : view[a] = [at |-> "new", id |-> None] /\ pageKey[a] = NoKey
      /\ \A k \in HandlerKinds, v \in Views : handler[k][v].at = "idle"
      /\ expired = {} /\ now = 0
  BY DEF Init
<1>7. Answering
  BY <1>2 DEF Init, Answering
<1>3. Solo /\ Named
  BY <1>2, LegacyAssumption DEF Solo, Named, Unseen, ViewIsWorking, Busy, Idle, Views
<1>4. Numbered
  <2>1. {v \in Views : row[v] # NoRow} = 1..0
    BY <1>2
  <2> QED
    BY <2>1 DEF Numbered
<1>5. PageFirst /\ ExpiredIsGone
  BY <1>2, LegacyAssumption DEF PageFirst, ExpiredIsGone, Live, NoKey
<1>6. Promised
  BY <1>2 DEF Promised, PromisedOf, Live, NoKey, Busy, Idle, HandlerKinds
<1> QED
  BY <1>1, <1>3, <1>4, <1>5, <1>6, <1>7 DEF Settling

-----------------------------------------------------------------------------
(***************************************************************************)
(* Decisions know nothing of views.                                        *)
(***************************************************************************)
LEMMA DecisionMoves ==
    ASSUME Types, Answering, NEW a \in Auctions, Decide(a)
    PROVE  /\ UNCHANGED <<now, view, keys, row, handler, expired, history, allowed>>
           /\ DOMAIN auction' = Auctions /\ \A b \in Auctions : {"at", "winner"} \subseteq DOMAIN auction'[b]
           /\ Answering'
<1>1. /\ DOMAIN auction = Auctions /\ \A b \in Auctions : {"at", "winner"} \subseteq DOMAIN auction[b]
  BY DEF Types
<1>2. ASSUME OnlyAuction
      PROVE  UNCHANGED <<now, view, keys, row, handler, expired, history, allowed>>
  BY <1>2 DEF OnlyAuction
<1>3. ASSUME NEW r \in Rankings, StartDecision(a, r)
      PROVE  /\ OnlyAuction
             /\ DOMAIN auction' = Auctions /\ \A b \in Auctions : {"at", "winner"} \subseteq DOMAIN auction'[b]
             /\ Answering'
  BY <1>1, <1>3 DEF StartDecision, Answering, OnlyAuction
<1>4. ASSUME NEW c \in Campaigns, Increment(a, c) \/ SelectWinner(a, c) \/ RollbackLoser(a, c)
      PROVE  /\ OnlyAuction
             /\ DOMAIN auction' = Auctions /\ \A b \in Auctions : {"at", "winner"} \subseteq DOMAIN auction'[b]
             /\ Answering'
  <2>1. CASE Increment(a, c)
    BY <1>1, <2>1 DEF Increment, Answering, OnlyAuction
  <2>2. CASE SelectWinner(a, c)
    BY <1>1, <2>2 DEF SelectWinner, Answering, OnlyAuction
  <2>3. CASE RollbackLoser(a, c)
    BY <1>1, <2>3 DEF RollbackLoser, Answering, OnlyAuction
  <2> QED
    BY <1>4, <2>1, <2>2, <2>3
<1>5. ASSUME NextWindow(a)
      PROVE  /\ OnlyAuction
             /\ DOMAIN auction' = Auctions /\ \A b \in Auctions : {"at", "winner"} \subseteq DOMAIN auction'[b]
             /\ Answering'
  BY <1>1, <1>5 DEF NextWindow, Answering, OnlyAuction
<1>6. ASSUME CacheAuction(a)
      PROVE  /\ OnlyAuction
             /\ DOMAIN auction' = Auctions /\ \A b \in Auctions : {"at", "winner"} \subseteq DOMAIN auction'[b]
             /\ Answering'
  BY <1>1, <1>6 DEF CacheAuction, Answering, OnlyAuction
<1> QED
  BY <1>2, <1>3, <1>4, <1>5, <1>6 DEF Decide

-----------------------------------------------------------------------------
(***************************************************************************)
(* The steps of a view: no handler is at work meanwhile.                   *)
(***************************************************************************)
ViewSteps == {"new", "acquire", "peek", "save", "publish", "record", "check", "backup", "done", "failed"}

LEMMA ViewFrame ==
    ASSUME Calm, Settling, NEW a \in Auctions, View(a)
    PROVE  /\ UNCHANGED <<now, auction, handler, expired, clicks, undone, allowed>>
           /\ view' \in [Auctions -> ViewCall]
           /\ \A b \in Auctions \ {a} : view'[b] = view[b]
           /\ auction[a].at = "answered"
           /\ \A k \in HandlerKinds, v \in Views : Idle(k, v)
           /\ Solo' /\ Answering'
<1> USE DEF Settling
<1>1. UNCHANGED <<now, auction, handler, expired, clicks, undone, allowed>>
  BY DEF View, ReadAuctionData, AcquirePage, PeekPage, SaveViewLog, PublishPage, CheckRecord, SetRollbackInfo,
         SetRollbackBackup, OnlyView
<1>2. ViewIsWorking(a) \/ ~Working
  BY DEF View, ReadAuctionData, AcquirePage, PeekPage, SaveViewLog, PublishPage, CheckRecord, SetRollbackInfo,
         SetRollbackBackup, ViewIsWorking, Free, Calm, Without, May
<1>3. auction[a].at = "answered"
  BY <1>2 DEF View, ReadAuctionData, AcquirePage, PeekPage, SaveViewLog, PublishPage, CheckRecord, SetRollbackInfo,
              SetRollbackBackup, Answering
<1>4. \A k \in HandlerKinds, v \in Views : Idle(k, v)
  BY <1>2 DEF Solo, Working
<1>5. \A b \in Auctions \ {a} : ~ViewIsWorking(b)
  BY <1>2 DEF Solo, Working
<1>6. \E at \in ViewSteps, id \in Views \union {None} : view' = [view EXCEPT ![a] = [at |-> at, id |-> id]]
  <2>1. view[a] \in ViewCall
    BY DEF Types
  <2>2. ASSUME NEW at \in ViewSteps, ViewGoes(a, at)
        PROVE  view' = [view EXCEPT ![a] = [at |-> at, id |-> view[a].id]]
    <3>1. [view[a] EXCEPT !.at = at] = [at |-> at, id |-> view[a].id]
      BY <2>1 DEF ViewCall
    <3>2. view' = [view EXCEPT ![a] = [view[a] EXCEPT !.at = at]]
      BY <2>2 DEF ViewGoes, Types
    <3> QED
      BY <3>1, <3>2
  <2>3. ASSUME NEW at \in ViewSteps, ViewGoes(a, at)
        PROVE  \E id \in Views \union {None} : view' = [view EXCEPT ![a] = [at |-> at, id |-> id]]
    BY <2>1, <2>2, <2>3 DEF ViewCall
  <2>4. ASSUME AcquirePage(a)
        PROVE  \E at \in ViewSteps, id \in Views \union {None} : view' = [view EXCEPT ![a] = [at |-> at, id |-> id]]
    <3>1. CASE ~Live(pageKey[Page(a)])
      BY <2>3, <2>4, <3>1 DEF AcquirePage, ViewSteps
    <3>2. CASE Live(pageKey[Page(a)])
      <4>1. Page(a) \in Auctions
        BY DEF Page
      <4>2. pageKey[Page(a)].id \in Views \union {None}
        BY <3>2, <4>1 DEF Types, PageKeys, Live, NoKey
      <4> QED
        BY <2>3, <2>4, <3>2, <4>2 DEF AcquirePage, ViewSteps, ViewGoesWith
    <3> QED
      BY <3>1, <3>2
  <2>5. ASSUME PeekPage(a)
        PROVE  \E at \in ViewSteps, id \in Views \union {None} : view' = [view EXCEPT ![a] = [at |-> at, id |-> id]]
    <3>1. Page(a) \in Auctions
      BY DEF Page
    <3>2. Live(pageKey[Page(a)]) => pageKey[Page(a)].id \in Views \union {None}
      BY <3>1 DEF Types, PageKeys, Live, NoKey
    <3> QED
      BY <2>3, <2>5, <3>2 DEF PeekPage, ViewSteps, ViewGoesWith
  <2>6. ASSUME SaveViewLog(a)
        PROVE  \E at \in ViewSteps, id \in Views \union {None} : view' = [view EXCEPT ![a] = [at |-> at, id |-> id]]
    BY <2>6 DEF SaveViewLog, ViewSteps, ViewGoesWith
  <2>7. ASSUME ReadAuctionData(a) \/ PublishPage(a) \/ CheckRecord(a) \/ SetRollbackInfo(a) \/ SetRollbackBackup(a)
        PROVE  \E at \in ViewSteps, id \in Views \union {None} : view' = [view EXCEPT ![a] = [at |-> at, id |-> id]]
    <3>1. \E at \in ViewSteps : ViewGoes(a, at)
      BY <2>7 DEF ReadAuctionData, PublishPage, CheckRecord, SetRollbackInfo, SetRollbackBackup, ViewSteps
    <3> QED
      BY <2>3, <3>1
  <2> QED
    BY <2>4, <2>5, <2>6, <2>7 DEF View
<1>7. view' \in [Auctions -> ViewCall] /\ \A b \in Auctions \ {a} : view'[b] = view[b]
  BY <1>6 DEF Types, ViewCall, ViewSteps
<1>8. Solo'
  <2>1. \A b \in Auctions : ViewIsWorking(b)' => b = a
    BY <1>5, <1>7 DEF ViewIsWorking
  <2>2. \A k \in HandlerKinds, v \in Views : Idle(k, v)'
    BY <1>1, <1>4 DEF Idle
  <2> QED
    BY <2>1, <2>2 DEF Solo, Busy
<1>9. Answering'
  BY <1>1, <1>3, <1>7 DEF Answering
<1> QED
  BY <1>1, <1>3, <1>4, <1>7, <1>8, <1>9

\* The steps that only read.
LEMMA ViewReads ==
    ASSUME Calm, Settling, NEW a \in Auctions, View(a), UNCHANGED <<pageKey, row, rollback, backup, attached>>,
           view'[a].at \notin {"publish", "backup"},
           view'[a].id \in Views => row[view'[a].id] # NoRow,
           view'[a].at \in {"record", "check", "done"} => view'[a].id \in Views,
           view'[a].at \in {"record", "check"} => view'[a].id \notin expired
    PROVE  Settling'
<1> USE DEF Settling
<1>1. /\ UNCHANGED <<now, auction, handler, expired, clicks, undone>>
      /\ view' \in [Auctions -> ViewCall]
      /\ \A b \in Auctions \ {a} : view'[b] = view[b]
      /\ Solo' /\ Answering'
  BY ViewFrame
<1>2. Types'
  BY <1>1 DEF Types
<1>3. Numbered' /\ PageFirst'
  BY <1>1 DEF Numbered, PageFirst, Live
<1>4. Named'
  <2>1. \A v \in Views : Unseen(v)' <=> Unseen(v)
    BY <1>1 DEF Unseen, Idle
  <2>2. \A b \in Auctions :
          /\ view'[b].at \in {"publish", "record", "check", "backup", "done"} => view'[b].id \in Views
          /\ view'[b].at = "publish" => Unseen(view[b].id) /\ view'[b] = view[b] /\ view[b].id \in Views
    BY <1>1 DEF Named
  <2>4. \A b \in Auctions : view'[b].at = "publish" => (Unseen(view[b].id))'
    BY <1>1, <2>2 DEF Unseen, Idle
  <2>5. \A v \in Views : row[v] = NoRow => \A b \in Auctions : view'[b].id # v
    BY <1>1 DEF Named
  <2> QED
    BY <2>1, <2>2, <2>4, <2>5 DEF Named
<1>5. ExpiredIsGone'
  BY <1>1 DEF ExpiredIsGone, Live
<1>6. Promised'
  <2>1. \A v \in Views : (Open(v)' <=> Open(v)) /\ (Cleaning(v)' <=> Cleaning(v))
    BY <1>1 DEF Open, Cleaning
  <2>2. \A b \in Auctions : view'[b].at = "backup" => view'[b] = view[b] /\ view[b].id \in Views
    BY <1>1 DEF Named
  <2>3. \A b \in Auctions : view'[b].at = "backup" => (Open(view[b].id))'
    BY <1>1, <2>2 DEF Open, Promised, PromisedOf
  <2> QED
    BY <1>1, <2>1, <2>3 DEF Promised, PromisedOf, Live, Busy, Idle
<1> QED
  BY <1>1, <1>2, <1>3, <1>4, <1>5, <1>6

\* What a page's key knows is a view with a row, and none that has expired.
LEMMA PageKnows ==
    ASSUME Types, Named, PageFirst, NEW p \in Auctions, Live(pageKey[p]), pageKey[p].id # None
    PROVE  pageKey[p].id \in Views /\ row[pageKey[p].id] # NoRow /\ pageKey[p].id \notin expired
<1>1. pageKey[p] # NoKey
  BY DEF Types, Live, NoKey
<1>2. pageKey[p].id \in Views
  BY <1>1 DEF Types, PageKeys
<1> QED
  BY <1>1, <1>2 DEF Named, PageFirst

LEMMA ReadAuctionSettles ==
    ASSUME Calm, Settling, NEW a \in Auctions, ReadAuctionData(a)
    PROVE  Settling'
<1>1. View(a) /\ UNCHANGED <<pageKey, row, rollback, backup, attached>>
  BY DEF View, ReadAuctionData
<1>2. view'[a].at \in {"acquire", "failed"} /\ view'[a].id = view[a].id
  BY DEF ReadAuctionData, ViewGoes, Settling, Types, ViewCall
<1>3. view[a].id \in Views => row[view[a].id] # NoRow
  BY DEF Settling, Named
<1> QED
  BY <1>1, <1>2, <1>3, ViewReads

LEMMA PeekSettles ==
    ASSUME Calm, Settling, NEW a \in Auctions, PeekPage(a)
    PROVE  Settling'
<1>1. View(a) /\ UNCHANGED <<pageKey, row, rollback, backup, attached>> /\ Page(a) \in Auctions
  BY DEF View, PeekPage, Page
<1>2. CASE Live(pageKey[Page(a)]) /\ pageKey[Page(a)].id # None
  <2>1. view'[a].at = "done" /\ view'[a].id = pageKey[Page(a)].id
    BY <1>2 DEF PeekPage, ViewGoesWith, Settling, Types
  <2>2. pageKey[Page(a)].id \in Views /\ row[pageKey[Page(a)].id] # NoRow
    BY <1>1, <1>2, PageKnows DEF Settling
  <2> QED
    BY <1>1, <2>1, <2>2, ViewReads
<1>3. CASE ~(Live(pageKey[Page(a)]) /\ pageKey[Page(a)].id # None)
  <2>1. view'[a].at = "failed" /\ view'[a].id = view[a].id
    BY <1>3 DEF PeekPage, ViewGoes, Settling, Types, ViewCall
  <2>2. view[a].id \in Views => row[view[a].id] # NoRow
    BY DEF Settling, Named
  <2> QED
    BY <1>1, <2>1, <2>2, ViewReads
<1> QED
  BY <1>2, <1>3

LEMMA CheckSettles ==
    ASSUME Calm, Settling, NEW a \in Auctions, CheckRecord(a)
    PROVE  Settling'
<1>1. View(a) /\ UNCHANGED <<pageKey, row, rollback, backup, attached>>
  BY DEF View, CheckRecord
<1>2. view'[a].at \in {"done", "record"} /\ view'[a].id = view[a].id
  BY DEF CheckRecord, ViewGoes, Settling, Types, ViewCall
<1>3. view[a].id \in Views /\ row[view[a].id] # NoRow /\ view[a].id \notin expired
  BY DEF CheckRecord, Settling, Named, ExpiredIsGone
<1> QED
  BY <1>1, <1>2, <1>3, ViewReads

LEMMA AcquireSettles ==
    ASSUME Calm, Settling, NEW a \in Auctions, AcquirePage(a)
    PROVE  Settling'
<1> DEFINE p == Page(a)
<1>1. View(a) /\ UNCHANGED <<row, rollback, backup, attached>> /\ p \in Auctions
  BY DEF View, AcquirePage, Page
<1>2. view[a].id \in Views => row[view[a].id] # NoRow
  BY DEF Settling, Named
<1>3. CASE Live(pageKey[p]) /\ pageKey[p].id = None
  <2>1. view'[a].at = "peek" /\ view'[a].id = view[a].id /\ UNCHANGED pageKey
    BY <1>3 DEF AcquirePage, ViewGoes, Settling, Types, ViewCall
  <2> QED
    BY <1>1, <1>2, <2>1, ViewReads
<1>4. CASE Live(pageKey[p]) /\ pageKey[p].id # None
  <2>1. view'[a].at = "check" /\ view'[a].id = pageKey[p].id /\ UNCHANGED pageKey
    BY <1>4 DEF AcquirePage, ViewGoesWith, Settling, Types
  <2>2. pageKey[p].id \in Views /\ row[pageKey[p].id] # NoRow /\ pageKey[p].id \notin expired
    BY <1>1, <1>4, PageKnows DEF Settling
  <2> QED
    BY <1>1, <2>1, <2>2, ViewReads
<1>5. CASE ~Live(pageKey[p])
  <2> PICK q \in Auctions : q = p
    BY <1>1
  <2>1. /\ pageKey' = [pageKey EXCEPT ![q] = [until |-> now + RecordTtl, id |-> None]]
        /\ view'[a].at = "save" /\ view'[a].id = view[a].id
    BY <1>5 DEF AcquirePage, ViewGoes, Settling, Types, ViewCall
  <2> HIDE DEF p
  <2>2. /\ UNCHANGED <<now, auction, handler, expired, clicks, undone>>
        /\ view' \in [Auctions -> ViewCall]
        /\ \A b \in Auctions \ {a} : view'[b] = view[b]
        /\ Solo' /\ Answering'
    BY <1>1, ViewFrame
  <2>3. now \in Nat /\ now + RecordTtl \in Nat /\ None \notin Views
    BY LegacyAssumption DEF Settling, Types, Views
  <2>4. Types'
    BY <1>1, <2>1, <2>2, <2>3 DEF Settling, Types, PageKeys
  <2>5. Numbered'
    BY <1>1 DEF Settling, Numbered
  <2>6. pageKey'[q] = [until |-> now + RecordTtl, id |-> None] /\ \A r \in Auctions \ {q} : pageKey'[r] = pageKey[r]
    BY <2>1 DEF Settling, Types
  <2>7. Named'
    <3>1. \A v \in Views : Unseen(v)' <=> Unseen(v)
      BY <1>1, <2>2 DEF Unseen, Idle
    <3>2. \A b \in Auctions :
            /\ view'[b].at \in {"publish", "record", "check", "backup", "done"} => view'[b].id \in Views
            /\ view'[b].at = "publish" => (Unseen(view[b].id))'
      BY <1>1, <2>1, <2>2 DEF Settling, Named, Unseen, Idle
    <3>3. \A v \in Views : row[v] = NoRow => \A b \in Auctions : view'[b].id # v
      BY <1>2, <2>1, <2>2 DEF Settling, Named
    <3>4. \A v \in Views : row[v] = NoRow => \A b \in Auctions : pageKey'[b] # NoKey => pageKey'[b].id # v
      BY <2>3, <2>6 DEF Settling, Named
    <3> QED
      BY <1>1, <3>1, <3>2, <3>3, <3>4 DEF Settling, Named
  <2>8. PageFirst'
    <3>1. \A r \in Auctions : pageKey'[r].until <= now + RecordTtl
      BY <2>3, <2>6 DEF Settling, PageFirst
    <3>2. \A r \in Auctions, v \in Views : pageKey'[r].id = v => r # q
      BY <2>3, <2>6
    <3> QED
      BY <1>1, <2>2, <2>6, <3>1, <3>2 DEF Settling, PageFirst, Live
  <2>9. ExpiredIsGone'
    BY <1>1, <2>1, <2>2 DEF Settling, ExpiredIsGone, Live
  <2>10. Promised'
    <3>1. \A b \in Auctions : view'[b].at = "backup" => (Open(view[b].id))'
      BY <1>1, <2>1, <2>2 DEF Settling, Promised, PromisedOf, Open
    <3> QED
      BY <1>1, <2>2, <3>1 DEF Settling, Promised, PromisedOf, Open, Cleaning, Live, Busy, Idle
  <2> QED
    BY <2>2, <2>4, <2>5, <2>7, <2>8, <2>9, <2>10 DEF Settling
<1> QED
  BY <1>3, <1>4, <1>5

\* The rows are 1..n: the next has none, and whoever gets it has a number of her own.
LEMMA NextIsNew ==
    ASSUME Numbered, NextView \in Views
    PROVE  /\ row[NextView] = NoRow
           /\ \E n \in Nat : {v \in Views : row[v] # NoRow} = 1..n /\ NextView = n + 1
<1>1. PICK n \in Nat : {v \in Views : row[v] # NoRow} = 1..n
  BY DEF Numbered
<1>2. Cardinality(1..n) = n
  BY FS_Interval
<1>3. NextView = n + 1
  BY <1>1, <1>2 DEF NextView
<1>4. n + 1 \notin 1..n
  OBVIOUS
<1> QED
  BY <1>1, <1>3, <1>4

LEMMA SaveSettles ==
    ASSUME Calm, Settling, NEW a \in Auctions, SaveViewLog(a)
    PROVE  Settling'
<1>1. View(a) /\ UNCHANGED <<pageKey, rollback, backup, attached>>
  BY DEF View, SaveViewLog
<1>2. /\ UNCHANGED <<now, auction, handler, expired, clicks, undone>>
      /\ view' \in [Auctions -> ViewCall]
      /\ \A b \in Auctions \ {a} : view'[b] = view[b]
      /\ auction[a].at = "answered"
      /\ Solo' /\ Answering'
  BY <1>1, ViewFrame
<1>3. PICK w \in Views : w = NextView
  BY DEF SaveViewLog
<1>4. /\ row[w] = NoRow
      /\ \E n \in Nat : {v \in Views : row[v] # NoRow} = 1..n /\ w = n + 1
  BY <1>3, NextIsNew DEF Settling
<1>5. /\ row' = [row EXCEPT ![w] = [campaign |-> auction[a].winner]]
      /\ view'[a].at = "publish" /\ view'[a].id = w
  BY <1>3 DEF SaveViewLog, ViewGoesWith, Settling, Types
<1>6. auction[a].winner \in Campaigns /\ [campaign |-> auction[a].winner] # NoRow
  <2>1. auction[a].winner \in Campaigns /\ None \notin Campaigns
    BY <1>2, LegacyAssumption DEF Settling, Answering
  <2> QED
    BY <2>1 DEF NoRow
<1>7. row'[w] # NoRow /\ \A v \in Views \ {w} : row'[v] = row[v]
  BY <1>5, <1>6 DEF Settling, Types
<1>8. Types'
  BY <1>1, <1>2, <1>5, <1>6 DEF Settling, Types
<1>9. Numbered'
  <2>1. PICK n \in Nat : {v \in Views : row[v] # NoRow} = 1..n /\ w = n + 1
    BY <1>4
  <2>2. {v \in Views : row'[v] # NoRow} = {v \in Views : row[v] # NoRow} \union {w}
    BY <1>7
  <2>3. (1..n) \union {n + 1} = 1..(n + 1)
    OBVIOUS
  <2> QED
    BY <2>1, <2>2, <2>3 DEF Numbered
<1>10. Named'
  <2>1. \A v \in Views : Unseen(v)' <=> Unseen(v)
    BY <1>1, <1>2 DEF Unseen, Idle
  <2>2. Unseen(w) /\ \A b \in Auctions : view[b].id # w
    BY <1>4 DEF Settling, Named
  <2>3. \A b \in Auctions :
          /\ view'[b].at \in {"publish", "record", "check", "backup", "done"} => view'[b].id \in Views
          /\ view'[b].at = "publish" => (Unseen(view[b].id))'
    <3> SUFFICES ASSUME NEW b \in Auctions
                 PROVE  /\ view'[b].at \in {"publish", "record", "check", "backup", "done"} => view'[b].id \in Views
                        /\ view'[b].at = "publish" => (Unseen(view[b].id))'
      OBVIOUS
    <3>1. CASE b = a
      BY <1>1, <1>2, <1>5, <2>2, <3>1 DEF Unseen, Idle
    <3>2. CASE b # a
      BY <1>1, <1>2, <3>2 DEF Settling, Named, Unseen, Idle
    <3> QED
      BY <3>1, <3>2
  <2>4. \A v \in Views : row'[v] = NoRow =>
          \A b \in Auctions : view'[b].id # v /\ (pageKey[b] # NoKey => pageKey[b].id # v)
    BY <1>2, <1>5, <1>7 DEF Settling, Named
  <2>5. \A v \in Views : row'[v] = NoRow => Unseen(v)
    BY <1>7 DEF Settling, Named
  <2> QED
    BY <1>1, <2>1, <2>3, <2>4, <2>5 DEF Named
<1>11. PageFirst'
  BY <1>1, <1>2 DEF Settling, PageFirst, Live
<1>12. ExpiredIsGone'
  BY <1>1, <1>2, <1>5 DEF Settling, ExpiredIsGone, Live
<1>13. Promised'
  <2>1. \A b \in Auctions : view'[b].at = "backup" => (Open(view[b].id))'
    BY <1>1, <1>2, <1>5 DEF Settling, Promised, PromisedOf, Open
  <2> QED
    BY <1>1, <1>2, <2>1 DEF Settling, Promised, PromisedOf, Open, Cleaning, Live, Busy, Idle
<1> QED
  BY <1>2, <1>8, <1>9, <1>10, <1>11, <1>12, <1>13 DEF Settling

LEMMA PublishSettles ==
    ASSUME Calm, Settling, NEW a \in Auctions, PublishPage(a)
    PROVE  Settling'
<1>1. View(a) /\ UNCHANGED <<row, rollback, backup, attached>>
  BY DEF View, PublishPage
<1>2. /\ UNCHANGED <<now, auction, handler, expired, clicks, undone>>
      /\ view' \in [Auctions -> ViewCall]
      /\ \A b \in Auctions \ {a} : view'[b] = view[b]
      /\ Solo' /\ Answering'
  BY <1>1, ViewFrame
<1>3. PICK q \in Auctions : q = Page(a)
  BY DEF Page
<1>4. PICK w \in Views : w = view[a].id
  BY DEF PublishPage, Settling, Named
<1>5. Unseen(w)
  BY <1>4 DEF PublishPage, Settling, Named
<1>6. /\ pageKey' = [pageKey EXCEPT ![q] = [until |-> now + RecordTtl, id |-> w]]
      /\ view'[a].at = "record" /\ view'[a].id = w
  BY <1>3, <1>4 DEF PublishPage, ViewGoes, Settling, Types, ViewCall
<1>7. now \in Nat /\ now + RecordTtl \in Nat
  BY LegacyAssumption DEF Settling, Types
<1>8. pageKey'[q] = [until |-> now + RecordTtl, id |-> w] /\ \A r \in Auctions \ {q} : pageKey'[r] = pageKey[r]
  BY <1>6 DEF Settling, Types
<1>9. row[w] # NoRow
  BY <1>4 DEF Settling, Named
<1>10. Types'
  BY <1>1, <1>2, <1>6, <1>7 DEF Settling, Types, PageKeys
<1>11. Numbered'
  BY <1>1 DEF Settling, Numbered
<1>12. Named'
  <2>1. \A v \in Views : Unseen(v)' <=> Unseen(v)
    BY <1>1, <1>2 DEF Unseen, Idle
  <2>2. \A b \in Auctions :
          /\ view'[b].at \in {"publish", "record", "check", "backup", "done"} => view'[b].id \in Views
          /\ view'[b].at = "publish" => (Unseen(view[b].id))'
    BY <1>1, <1>2, <1>6 DEF Settling, Named, Unseen, Idle
  <2>3. \A v \in Views : row[v] = NoRow => \A b \in Auctions : view'[b].id # v
    BY <1>2, <1>6, <1>9 DEF Settling, Named
  <2>4. \A v \in Views : row[v] = NoRow => \A b \in Auctions : pageKey'[b] # NoKey => pageKey'[b].id # v
    BY <1>8, <1>9 DEF Settling, Named
  <2> QED
    BY <1>1, <2>1, <2>2, <2>3, <2>4 DEF Settling, Named
<1>13. PageFirst'
  <2>1. \A r \in Auctions : pageKey'[r].until <= now + RecordTtl
    BY <1>7, <1>8 DEF Settling, PageFirst
  <2>2. w \notin expired /\ ~Live(rollback[w])
    BY <1>5, <1>7 DEF Unseen, Live, NoKey
  <2> QED
    BY <1>1, <1>2, <1>8, <2>1, <2>2 DEF Settling, PageFirst, Live
<1>14. ExpiredIsGone'
  BY <1>1, <1>2, <1>5, <1>6 DEF Settling, ExpiredIsGone, Live, Unseen
<1>15. Promised'
  <2>1. \A b \in Auctions : view'[b].at = "backup" => (Open(view[b].id))'
    BY <1>1, <1>2, <1>6 DEF Settling, Promised, PromisedOf, Open
  <2> QED
    BY <1>1, <1>2, <2>1 DEF Settling, Promised, PromisedOf, Open, Cleaning, Live, Busy, Idle
<1> QED
  BY <1>2, <1>10, <1>11, <1>12, <1>13, <1>14, <1>15 DEF Settling

LEMMA RecordSettles ==
    ASSUME Calm, Settling, NEW a \in Auctions, SetRollbackInfo(a)
    PROVE  Settling'
<1>1. View(a) /\ UNCHANGED <<pageKey, row, backup>>
  BY DEF View, SetRollbackInfo
<1>2. /\ UNCHANGED <<now, auction, handler, expired, clicks, undone>>
      /\ view' \in [Auctions -> ViewCall]
      /\ \A b \in Auctions \ {a} : view'[b] = view[b]
      /\ auction[a].at = "answered"
      /\ \A k \in HandlerKinds, v \in Views : Idle(k, v)
      /\ Solo' /\ Answering'
  BY <1>1, ViewFrame
<1>3. PICK w \in Views : w = view[a].id
  BY DEF SetRollbackInfo, Settling, Named
<1>4. w \notin expired /\ row[w] # NoRow
  BY <1>3 DEF SetRollbackInfo, Settling, Named, ExpiredIsGone
<1>5. PICK new \in Timed : new = Set(auction[a].winner, RecordTtl) /\ new.until = now + RecordTtl
  <2>1. now + RecordTtl \in Nat /\ auction[a].winner \in Campaigns
    BY <1>2, LegacyAssumption DEF Settling, Types, Answering
  <2>2. Set(auction[a].winner, RecordTtl).until = now + RecordTtl
    BY DEF Set
  <2>3. Set(auction[a].winner, RecordTtl) \in Timed
    BY <2>1 DEF Set, Timed
  <2> QED
    BY <2>2, <2>3
<1>6. /\ rollback' = [rollback EXCEPT ![w] = new]
      /\ attached' = [attached EXCEPT ![w] = @ + 1]
      /\ view'[a].at = "backup" /\ view'[a].id = w
  BY <1>3, <1>5 DEF SetRollbackInfo, ViewGoes, Settling, Types, ViewCall
<1>7. rollback'[w] = new /\ \A v \in Views \ {w} : rollback'[v] = rollback[v]
  BY <1>6 DEF Settling, Types
<1>8. /\ attached'[w] = attached[w] + 1 /\ \A v \in Views \ {w} : attached'[v] = attached[v]
      /\ \A v \in Views : {clicks[v], undone[v], attached[v]} \subseteq Nat
  BY <1>6 DEF Settling, Types
<1>9. Types'
  BY <1>1, <1>2, <1>6, <1>8 DEF Settling, Types
<1>10. Numbered'
  BY <1>1 DEF Settling, Numbered
<1>11. Named'
  <2>1. \A v \in Views \ {w} : Unseen(v)' <=> Unseen(v)
    BY <1>1, <1>2, <1>7 DEF Unseen, Idle
  <2>2. \A b \in Auctions : view'[b].at # "publish"
    BY <1>2, <1>6 DEF SetRollbackInfo, Settling, Solo, ViewIsWorking
  <2>3. \A b \in Auctions : view'[b].at \in {"publish", "record", "check", "backup", "done"} => view'[b].id \in Views
    BY <1>2, <1>6 DEF Settling, Named
  <2>4. \A v \in Views : row[v] = NoRow => v # w /\ \A b \in Auctions : view'[b].id # v
    BY <1>2, <1>4, <1>6 DEF Settling, Named
  <2> QED
    BY <1>1, <2>1, <2>2, <2>3, <2>4 DEF Settling, Named
<1>12. PageFirst'
  BY <1>1, <1>2, <1>5, <1>7 DEF Settling, PageFirst, Live
<1>13. ExpiredIsGone'
  BY <1>2, <1>4, <1>6, <1>7 DEF Settling, ExpiredIsGone, Live
<1>14. Promised'
  <2>1. \A v \in Views : clicks'[v] + undone'[v] <= attached'[v] /\ (Open(v) => Open(v)') /\ (Open(w)')
    BY <1>2, <1>8 DEF Settling, Promised, PromisedOf, Open
  <2>2. \A b \in Auctions : view'[b].at = "backup" => b = a
    BY <1>2 DEF SetRollbackInfo, Settling, Solo, ViewIsWorking
  <2>3. \A b \in Auctions : view'[b].at = "backup" => (Open(view[b].id))'
    BY <1>6, <2>1, <2>2 DEF Open
  <2>4. \A v \in Views : ~Cleaning(v)
    BY <1>2 DEF Cleaning, Idle
  <2>5. \A v \in Views : (Live(rollback[v]) \/ Live(backup[v]))' => Open(v)'
    BY <1>1, <1>2, <1>7, <2>1, <2>4 DEF Settling, Promised, PromisedOf, Live
  <2>6. \A v \in Views, k \in HandlerKinds : handler'[k][v].at = "idle"
    BY <1>2 DEF Idle
  <2>7. \A v \in Views : Idle("worker", v)'
    BY <2>6 DEF Idle, HandlerKinds
  <2> QED
    BY <2>1, <2>3, <2>5, <2>6, <2>7 DEF Promised, PromisedOf, Busy
<1> QED
  BY <1>2, <1>9, <1>10, <1>11, <1>12, <1>13, <1>14 DEF Settling

LEMMA BackupSettles ==
    ASSUME Calm, Settling, NEW a \in Auctions, SetRollbackBackup(a)
    PROVE  Settling'
<1>1. View(a) /\ UNCHANGED <<pageKey, row, rollback, attached>>
  BY DEF View, SetRollbackBackup
<1>2. /\ UNCHANGED <<now, auction, handler, expired, clicks, undone>>
      /\ view' \in [Auctions -> ViewCall]
      /\ \A b \in Auctions \ {a} : view'[b] = view[b]
      /\ auction[a].at = "answered"
      /\ \A k \in HandlerKinds, v \in Views : Idle(k, v)
      /\ Solo' /\ Answering'
  BY <1>1, ViewFrame
<1>3. PICK w \in Views : w = view[a].id
  BY DEF SetRollbackBackup, Settling, Named
<1>4. row[w] # NoRow /\ Open(w)
  BY <1>3 DEF SetRollbackBackup, Settling, Named, Promised, PromisedOf
<1>5. PICK new \in Timed : new = Set(auction[a].winner, BackupTtl)
  <2>1. now + BackupTtl \in Nat
    BY LegacyAssumption DEF Settling, Types
  <2> QED
    BY <1>2, <2>1 DEF Settling, Answering, Set, Timed
<1>6. /\ backup' = [backup EXCEPT ![w] = new]
      /\ view'[a].at = "done" /\ view'[a].id = w
  BY <1>3, <1>5 DEF SetRollbackBackup, ViewGoes, Settling, Types, ViewCall
<1>7. \A v \in Views \ {w} : backup'[v] = backup[v]
  BY <1>6 DEF Settling, Types
<1>8. Types'
  BY <1>1, <1>2, <1>6 DEF Settling, Types
<1>9. Numbered' /\ PageFirst'
  BY <1>1, <1>2 DEF Settling, Numbered, PageFirst, Live
<1>10. Named'
  <2>1. \A v \in Views \ {w} : Unseen(v)' <=> Unseen(v)
    BY <1>1, <1>2, <1>7 DEF Unseen, Idle
  <2>2. \A b \in Auctions : view'[b].at # "publish"
    BY <1>2, <1>6 DEF SetRollbackBackup, Settling, Solo, ViewIsWorking
  <2>3. \A b \in Auctions : view'[b].at \in {"publish", "record", "check", "backup", "done"} => view'[b].id \in Views
    BY <1>2, <1>6 DEF Settling, Named
  <2>4. \A v \in Views : row[v] = NoRow => v # w /\ \A b \in Auctions : view'[b].id # v
    BY <1>2, <1>4, <1>6 DEF Settling, Named
  <2> QED
    BY <1>1, <2>1, <2>2, <2>3, <2>4 DEF Settling, Named
<1>11. ExpiredIsGone'
  BY <1>1, <1>2, <1>6 DEF Settling, ExpiredIsGone, Live
<1>12. Promised'
  <2>1. \A v \in Views : (Open(v) <=> Open(v)') /\ ~Cleaning(v)
    BY <1>1, <1>2 DEF Open, Cleaning, Idle
  <2>2. \A b \in Auctions : view'[b].at = "backup" => (Open(view[b].id))'
    BY <1>1, <1>2, <1>6 DEF Settling, Promised, PromisedOf, Open
  <2>3. \A v \in Views : (Live(rollback[v]) \/ Live(backup[v]))' => Open(v)'
    BY <1>1, <1>2, <1>4, <1>7, <2>1 DEF Settling, Promised, PromisedOf, Live
  <2>4. \A v \in Views, k \in HandlerKinds : handler'[k][v].at = "idle"
    BY <1>2 DEF Idle
  <2>5. \A v \in Views : Idle("worker", v)'
    BY <2>4 DEF Idle, HandlerKinds
  <2>6. \A v \in Views : clicks'[v] + undone'[v] <= attached'[v]
    BY <1>1, <1>2 DEF Settling, Promised, PromisedOf
  <2> QED
    BY <2>2, <2>3, <2>4, <2>5, <2>6 DEF Promised, PromisedOf, Busy
<1> QED
  BY <1>2, <1>8, <1>9, <1>10, <1>11, <1>12 DEF Settling

-----------------------------------------------------------------------------
(***************************************************************************)
(* The steps of the handlers: one handler of one view moves.               *)
(***************************************************************************)
LEMMA HandlerMoves ==
    ASSUME Types, Solo, NEW k \in HandlerKinds, NEW v \in Views, Busy(k, v) \/ ~Working,
           UNCHANGED view, NEW next \in Handling, handler' = [handler EXCEPT ![k][v] = next]
    PROVE  /\ handler' \in [HandlerKinds -> [Views -> Handling]]
           /\ handler'[k][v] = next
           /\ \A j \in HandlerKinds, w \in Views :
                j # k \/ w # v => handler'[j][w] = handler[j][w] /\ Idle(j, w)
           /\ \A a \in Auctions : ~ViewIsWorking(a)
           /\ Solo'
<1>1. handler[k] \in [Views -> Handling]
  BY DEF Types
<1>2. handler' = [handler EXCEPT ![k] = [handler[k] EXCEPT ![v] = next]]
  BY DEF Types
<1>3. /\ handler' \in [HandlerKinds -> [Views -> Handling]]
      /\ handler'[k][v] = next
      /\ \A j \in HandlerKinds, w \in Views : j # k \/ w # v => handler'[j][w] = handler[j][w]
  BY <1>1, <1>2 DEF Types
<1>4. \A j \in HandlerKinds, w \in Views : j # k \/ w # v => Idle(j, w)
  BY DEF Solo, Busy, Working
<1>5. \A a \in Auctions : ~ViewIsWorking(a)
  BY DEF Solo, Busy, Working
<1>6. Solo'
  <2>1. \A j \in HandlerKinds, w \in Views : Busy(j, w)' => j = k /\ w = v
    BY <1>3, <1>4 DEF Busy, Idle
  <2>2. \A a \in Auctions : ~ViewIsWorking(a)'
    BY <1>5 DEF ViewIsWorking
  <2> QED
    BY <2>1, <2>2 DEF Solo
<1> QED
  BY <1>3, <1>4, <1>5, <1>6

\* What a handler of v may do to anything but the promise of v.
Handles(k, v, next) ==
    /\ Busy(k, v) \/ ~Working
    /\ handler' = [handler EXCEPT ![k][v] = next]
    /\ OnlyHandler
    /\ expired' \subseteq expired
    /\ rollback' \in {rollback, Drop(rollback, v)} /\ backup' \in {backup, Drop(backup, v)}
    /\ clicks' \in {clicks, [clicks EXCEPT ![v] = @ + 1]}
    /\ undone' \in {undone, [undone EXCEPT ![v] = @ + 1]}

LEMMA HandlerFrame ==
    ASSUME Settling, NEW k \in HandlerKinds, NEW v \in Views, row[v] # NoRow,
           NEW next \in Handling, Handles(k, v, next), PromisedOf(v)'
    PROVE  Settling'
<1> USE DEF Settling
<1>1. UNCHANGED <<now, auction, view, pageKey, row, attached>>
  BY DEF Handles, OnlyHandler
<1>2. /\ handler' \in [HandlerKinds -> [Views -> Handling]]
      /\ \A j \in HandlerKinds, w \in Views :
           j # k \/ w # v => handler'[j][w] = handler[j][w] /\ Idle(j, w)
      /\ \A a \in Auctions : ~ViewIsWorking(a)
      /\ Solo'
  BY <1>1, HandlerMoves DEF Handles
<1>3. /\ rollback' \in [Views -> Timed] /\ \A w \in Views \ {v} : rollback'[w] = rollback[w]
      /\ rollback'[v] \in {rollback[v], NoKey}
  <2>1. Drop(rollback, v) = [rollback EXCEPT ![v] = NoKey]
    BY DEF Drop
  <2> QED
    BY <2>1 DEF Handles, Types, Timed
<1>4. /\ backup' \in [Views -> Timed] /\ \A w \in Views \ {v} : backup'[w] = backup[w]
  <2>1. Drop(backup, v) = [backup EXCEPT ![v] = NoKey]
    BY DEF Drop
  <2> QED
    BY <2>1 DEF Handles, Types, Timed
<1>5. /\ clicks' \in [Views -> Nat] /\ \A w \in Views \ {v} : clicks'[w] = clicks[w]
      /\ undone' \in [Views -> Nat] /\ \A w \in Views \ {v} : undone'[w] = undone[w]
  BY DEF Handles, Types
<1>6. Types'
  BY <1>1, <1>2, <1>3, <1>4, <1>5 DEF Types, Handles
<1>7. Answering' /\ Numbered'
  BY <1>1 DEF Answering, Numbered
<1>8. \A a \in Auctions : view[a].at \notin {"publish", "check", "record", "backup"}
  BY <1>2 DEF ViewIsWorking
<1>9. Named'
  <2>1. \A w \in Views \ {v} : Unseen(w) => Unseen(w)'
    <3> SUFFICES ASSUME NEW w \in Views \ {v}, Unseen(w)
                 PROVE  Unseen(w)'
      OBVIOUS
    <3>1. \A j \in HandlerKinds : handler'[j][w] = handler[j][w]
      BY <1>2
    <3> QED
      BY <1>3, <1>4, <3>1 DEF Unseen, Idle, Handles
  <2> QED
    BY <1>1, <1>8, <2>1 DEF Named
<1>10. \A w \in Views : Live(rollback[w])' => Live(rollback[w]) /\ rollback'[w] = rollback[w]
  <2>1. ~(NoKey.until > now)
    BY DEF NoKey, Types
  <2> QED
    BY <1>1, <1>3, <2>1 DEF Live
<1>11. PageFirst'
  <2>1. \A p \in Auctions : pageKey'[p].until <= now' + RecordTtl
    BY <1>1 DEF PageFirst
  <2>2. ASSUME NEW p \in Auctions, NEW w \in Views, Live(pageKey[p])', pageKey'[p].id = w
        PROVE  w \notin expired' /\ (Live(rollback[w])' => pageKey'[p].until <= rollback'[w].until)
    <3>1. w \notin expired /\ (Live(rollback[w]) => pageKey[p].until <= rollback[w].until)
      BY <1>1, <2>2 DEF PageFirst, Live
    <3> QED
      BY <1>1, <1>10, <3>1 DEF Handles
  <2> QED
    BY <2>1, <2>2 DEF PageFirst
<1>14. ExpiredIsGone'
  BY <1>1, <1>8, <1>10 DEF ExpiredIsGone, Types, Handles
<1>12. ASSUME NEW w \in Views \ {v}
       PROVE  PromisedOf(w)'
  <2>1. \A j \in HandlerKinds : handler'[j][w] = handler[j][w] /\ handler[j][w].at = "idle"
    BY <1>2 DEF Idle
  <2>2. PromisedOf(w) /\ ~Cleaning(w)
    BY <2>1 DEF Promised, Cleaning
  <2>3. "worker" \in HandlerKinds
    BY DEF HandlerKinds
  <2> QED
    BY <1>1, <1>3, <1>4, <1>5, <2>1, <2>2, <2>3 DEF PromisedOf, Open, Live, Busy, Idle
<1>13. Promised'
  BY <1>1, <1>8, <1>12 DEF Promised
<1> QED
  BY <1>2, <1>6, <1>7, <1>9, <1>11, <1>13, <1>14

LEMMA StepShape ==
    ASSUME Types, NEW k \in HandlerKinds, NEW v \in Views, NEW step \in HandlerSteps, Goes(k, v, step)
    PROVE  \E next \in Handling : next.at = step /\ handler' = [handler EXCEPT ![k][v] = next]
<1> DEFINE next == [at |-> step, campaign |-> handler[k][v].campaign]
<1>1. handler[k][v] \in Handling
  BY DEF Types
<1>2. [handler[k][v] EXCEPT !.at = step] = next
  BY <1>1 DEF Handling
<1>3. handler' = [handler EXCEPT ![k][v] = [handler[k][v] EXCEPT !.at = step]]
  BY DEF Goes, Types
<1>4. next \in Handling
  BY <1>1 DEF Handling
<1> QED
  BY <1>2, <1>3, <1>4

LEMMA EndShape ==
    ASSUME NEW k \in HandlerKinds, NEW v \in Views, Ends(k, v)
    PROVE  \E next \in Handling : next.at = "idle" /\ handler' = [handler EXCEPT ![k][v] = next]
BY DEF Ends, Handling, HandlerSteps

(***************************************************************************)
(* What keeps the promise of a view when its handler moves.                *)
(***************************************************************************)
LEMMA PromiseKept ==
    ASSUME Types, Solo, NEW k \in HandlerKinds, NEW v \in Views, NEW next \in Handling, Handles(k, v, next),
           clicks'[v] + undone'[v] <= attached[v],
           next.at \in {"dedup", "log", "decrement"} => clicks'[v] + undone'[v] < attached[v],
           next.at \notin {"drop", "dropBackup"} /\ (rollback'[v].until > now \/ backup'[v].until > now) =>
             clicks'[v] + undone'[v] < attached[v],
           next.at = "dropBackup" => ~(rollback'[v].until > now),
           k = "worker" /\ next.at # "idle" =>
             next.at \in {"decrement", "dropBackup"} /\ ~(rollback'[v].until > now)
    PROVE  PromisedOf(v)'
<1>1. UNCHANGED <<now, view, attached>>
  BY DEF Handles, OnlyHandler
<1>2. /\ handler'[k][v] = next
      /\ \A j \in HandlerKinds : j # k => handler'[j][v].at = "idle"
  <2>1. (Busy(k, v) \/ ~Working) /\ handler' = [handler EXCEPT ![k][v] = next]
    BY DEF Handles
  <2>2. /\ handler'[k][v] = next
        /\ \A j \in HandlerKinds, w \in Views : j # k \/ w # v => handler'[j][w] = handler[j][w] /\ Idle(j, w)
    BY <1>1, <2>1, HandlerMoves
  <2> QED
    BY <2>2 DEF Idle
<1>3. ~Cleaning(v)' => next.at \notin {"drop", "dropBackup"}
  BY <1>2 DEF Cleaning
<1>4. Busy("worker", v)' => k = "worker" /\ next.at # "idle"
  BY <1>2 DEF Busy, Idle, HandlerKinds
<1>5. \A j \in HandlerKinds : handler'[j][v].at # "idle" => j = k
  BY <1>2
<1> QED
  BY <1>1, <1>2, <1>3, <1>4, <1>5 DEF PromisedOf, Open, Live

\* A handler at work is alone, and works on a view with a row.
LEMMA HandlerKnows ==
    ASSUME Settling, NEW k \in HandlerKinds, NEW v \in Views, Busy(k, v)
    PROVE  /\ row[v] # NoRow
           /\ \A j \in HandlerKinds \ {k} : handler[j][v].at = "idle"
BY DEF Settling, Named, Unseen, Busy, Solo, Idle

LEMMA StartClickSettles ==
    ASSUME Calm, Settling, NEW v \in Views, StartClick(v)
    PROVE  Settling'
<1> USE DEF Settling
<1>1. "click" \in HandlerKinds /\ "find" \in HandlerSteps
  BY DEF HandlerKinds, HandlerSteps
<1>2. PICK next \in Handling : next.at = "find" /\ handler' = [handler EXCEPT !["click"][v] = next]
  BY <1>1, StepShape DEF StartClick
<1>3. ~Working /\ row[v] # NoRow
  BY DEF StartClick, Free, Calm, Without, May, Answered, Named
<1>4. Handles("click", v, next)
  BY <1>2, <1>3 DEF StartClick, Handles
<1>5. PromisedOf(v) /\ ~Cleaning(v)
  BY <1>3 DEF Promised, Cleaning, Working, Idle
<1>6. UNCHANGED <<rollback, backup, clicks, undone>>
  BY DEF StartClick
<1>7. PromisedOf(v)'
  BY <1>1, <1>2, <1>4, <1>5, <1>6, PromiseKept DEF PromisedOf, Open, Live
<1> QED
  BY <1>1, <1>3, <1>4, <1>7, HandlerFrame

LEMMA FindSettles ==
    ASSUME Calm, Settling, NEW v \in Views, FindForClick(v)
    PROVE  Settling'
<1> USE DEF Settling
<1>1. "click" \in HandlerKinds /\ {"findBackup", "dedup"} \subseteq HandlerSteps
  BY DEF HandlerKinds, HandlerSteps
<1>2. Busy("click", v) /\ handler["click"][v].at \in {"find", "findBackup"}
  BY DEF FindForClick, Busy, Idle
<1>3. row[v] # NoRow /\ \A j \in HandlerKinds \ {"click"} : handler[j][v].at = "idle"
  BY <1>1, <1>2, HandlerKnows
<1>4. PromisedOf(v) /\ ~Cleaning(v)
  BY <1>2, <1>3 DEF Promised, Cleaning
<1>5. UNCHANGED <<rollback, backup, clicks, undone, expired>> /\ OnlyHandler
  BY DEF FindForClick
<1>6. PICK next \in Handling :
        /\ next.at \in {"idle", "findBackup", "dedup"} /\ handler' = [handler EXCEPT !["click"][v] = next]
        /\ next.at = "dedup" => Live(rollback[v]) \/ Live(backup[v])
  BY <1>1, StepShape, EndShape DEF FindForClick
<1>7. Handles("click", v, next)
  BY <1>2, <1>5, <1>6 DEF Handles
<1>8. PromisedOf(v)'
  BY <1>1, <1>4, <1>5, <1>6, <1>7, PromiseKept DEF PromisedOf, Open, Live
<1> QED
  BY <1>1, <1>3, <1>7, <1>8, HandlerFrame

LEMMA ClickKeySettles ==
    ASSUME Calm, Settling, NEW v \in Views, SetClickKey(v)
    PROVE  Settling'
<1> USE DEF Settling
<1>1. "click" \in HandlerKinds /\ "log" \in HandlerSteps
  BY DEF HandlerKinds, HandlerSteps
<1>2. Busy("click", v) /\ handler["click"][v].at = "dedup"
  BY DEF SetClickKey, Busy, Idle
<1>3. row[v] # NoRow
  BY <1>1, <1>2, HandlerKnows
<1>4. PromisedOf(v)
  BY DEF Promised
<1>5. UNCHANGED <<rollback, backup, clicks, undone, expired>> /\ OnlyHandler
  BY DEF SetClickKey
<1>6. PICK next \in Handling : next.at \in {"idle", "log"} /\ handler' = [handler EXCEPT !["click"][v] = next]
  BY <1>1, StepShape, EndShape DEF SetClickKey
<1>7. Handles("click", v, next)
  BY <1>2, <1>5, <1>6 DEF Handles
<1>8. PromisedOf(v)'
  BY <1>1, <1>2, <1>4, <1>5, <1>6, <1>7, PromiseKept DEF PromisedOf, Open, Live
<1> QED
  BY <1>1, <1>3, <1>7, <1>8, HandlerFrame

LEMMA ClickLogSettles ==
    ASSUME Calm, Settling, NEW v \in Views, SaveClickLog(v)
    PROVE  Settling'
<1> USE DEF Settling
<1>1. "click" \in HandlerKinds /\ "drop" \in HandlerSteps
  BY DEF HandlerKinds, HandlerSteps
<1>2. Busy("click", v) /\ handler["click"][v].at = "log"
  BY DEF SaveClickLog, Busy, Idle
<1>3. row[v] # NoRow
  BY <1>1, <1>2, HandlerKnows
<1>4. PromisedOf(v)
  BY DEF Promised
<1>5. UNCHANGED <<rollback, backup, undone, expired>> /\ OnlyHandler /\ clicks' = [clicks EXCEPT ![v] = @ + 1]
  BY DEF SaveClickLog
<1>6. PICK next \in Handling : next.at = "drop" /\ handler' = [handler EXCEPT !["click"][v] = next]
  BY <1>1, StepShape DEF SaveClickLog
<1>7. Handles("click", v, next)
  BY <1>2, <1>5, <1>6 DEF Handles
<1>8. {clicks[v], undone[v], attached[v]} \subseteq Nat /\ clicks'[v] = clicks[v] + 1
  BY <1>5 DEF Types
<1>9. clicks[v] + undone[v] < attached[v]
  BY <1>1, <1>2, <1>4 DEF PromisedOf, Open
<1>10. clicks'[v] + undone'[v] <= attached[v]
  BY <1>5, <1>8, <1>9
<1>11. PromisedOf(v)'
  BY <1>1, <1>6, <1>7, <1>10, PromiseKept
<1> QED
  BY <1>1, <1>3, <1>7, <1>11, HandlerFrame

LEMMA StartDismissSettles ==
    ASSUME Calm, Settling, NEW v \in Views, StartDismiss(v)
    PROVE  Settling'
<1> USE DEF Settling
<1>1. "dismiss" \in HandlerKinds /\ "decrement" \in HandlerSteps
  BY DEF HandlerKinds, HandlerSteps
<1>2. ~Working /\ row[v] # NoRow
  BY DEF StartDismiss, Free, Calm, Without, May, Answered, Named
<1>3. rollback[v].campaign \in Campaigns /\ Live(rollback[v])
  BY DEF StartDismiss, Types, Timed, Live, NoKey
<1>4. PICK next \in Handling : next.at = "decrement" /\ handler' = [handler EXCEPT !["dismiss"][v] = next]
  BY <1>1, <1>3 DEF StartDismiss, Handling
<1>5. Handles("dismiss", v, next)
  BY <1>2, <1>4 DEF StartDismiss, Handles
<1>6. PromisedOf(v) /\ ~Cleaning(v)
  BY <1>2 DEF Promised, Cleaning, Working, Idle
<1>7. UNCHANGED <<rollback, backup, clicks, undone>>
  BY DEF StartDismiss
<1>8. PromisedOf(v)'
  BY <1>1, <1>3, <1>4, <1>5, <1>6, <1>7, PromiseKept DEF PromisedOf, Open, Live
<1> QED
  BY <1>1, <1>2, <1>5, <1>8, HandlerFrame

LEMMA HearSettles ==
    ASSUME Calm, Settling, NEW v \in Views, HearExpiry(v)
    PROVE  Settling'
<1> USE DEF Settling
<1>1. "worker" \in HandlerKinds /\ {"idle", "decrement"} \subseteq HandlerSteps
  BY DEF HandlerKinds, HandlerSteps
<1>2. ~Working
  BY DEF HearExpiry, Free, Calm, Without, May
<1>3. row[v] # NoRow /\ ~Live(rollback[v]) /\ handler["worker"][v].at = "idle"
  BY DEF HearExpiry, Named, Unseen, ExpiredIsGone, Idle
<1>4. PICK next \in Handling :
        /\ next.at \in {"idle", "decrement"} /\ handler' = [handler EXCEPT !["worker"][v] = next]
        /\ next.at = "decrement" => Live(backup[v])
  <2>1. CASE Live(backup[v])
    <3>1. backup[v].campaign \in Campaigns
      BY <2>1 DEF Types, Timed, Live, NoKey
    <3> DEFINE next == [at |-> "decrement", campaign |-> backup[v].campaign]
    <3>2. next \in Handling
      BY <1>1, <3>1 DEF Handling
    <3>3. handler' = [handler EXCEPT !["worker"][v] = next]
      BY <2>1 DEF HearExpiry
    <3> QED
      BY <2>1, <3>2, <3>3
  <2>2. CASE ~Live(backup[v])
    <3>1. handler' = [handler EXCEPT !["worker"][v] = handler["worker"][v]] /\ handler["worker"][v] \in Handling
      BY <1>1, <2>2 DEF HearExpiry, Types
    <3> QED
      BY <1>3, <3>1
  <2> QED
    BY <2>1, <2>2
<1>5. Handles("worker", v, next)
  BY <1>2, <1>4 DEF HearExpiry, Handles
<1>6. PromisedOf(v) /\ ~Cleaning(v)
  BY <1>2 DEF Promised, Cleaning, Working, Idle
<1>7. UNCHANGED <<rollback, backup, clicks, undone>>
  BY DEF HearExpiry
<1>8. PromisedOf(v)'
  BY <1>1, <1>3, <1>4, <1>5, <1>6, <1>7, PromiseKept DEF PromisedOf, Open, Live
<1> QED
  BY <1>1, <1>3, <1>5, <1>8, HandlerFrame

LEMMA DecrementSettles ==
    ASSUME Calm, Settling, NEW k \in HandlerKinds, NEW v \in Views, Decrement(k, v)
    PROVE  Settling'
<1> USE DEF Settling
<1>1. {"drop", "dropBackup"} \subseteq HandlerSteps
  BY DEF HandlerSteps
<1>2. Busy(k, v) /\ handler[k][v].at = "decrement"
  BY DEF Decrement, Busy, Idle
<1>3. row[v] # NoRow
  BY <1>2, HandlerKnows
<1>4. PromisedOf(v)
  BY DEF Promised
<1>5. /\ UNCHANGED <<rollback, backup, clicks, expired>> /\ OnlyHandler
      /\ undone' \in {undone, [undone EXCEPT ![v] = @ + 1]}
  BY DEF Decrement
<1>6. PICK next \in Handling :
        /\ next.at = IF k = "worker" THEN "dropBackup" ELSE "drop"
        /\ handler' = [handler EXCEPT ![k][v] = next]
  BY <1>1, StepShape DEF Decrement
<1>7. Handles(k, v, next)
  BY <1>2, <1>5, <1>6 DEF Handles
<1>8. {clicks[v], undone[v], attached[v]} \subseteq Nat /\ undone'[v] \in {undone[v], undone[v] + 1}
  BY <1>5 DEF Types
<1>9. clicks[v] + undone[v] < attached[v]
  BY <1>2, <1>4 DEF PromisedOf, Open
<1>10. clicks'[v] + undone'[v] <= attached[v]
  BY <1>5, <1>8, <1>9
<1>11. k = "worker" => ~(rollback'[v].until > now)
  BY <1>2, <1>4, <1>5 DEF PromisedOf, Live
<1>12. PromisedOf(v)'
  BY <1>6, <1>7, <1>10, <1>11, PromiseKept
<1> QED
  BY <1>3, <1>7, <1>12, HandlerFrame

LEMMA DropSettles ==
    ASSUME Calm, Settling, NEW k \in HandlerKinds, NEW v \in Views, DeleteRollbackInfo(k, v)
    PROVE  Settling'
<1> USE DEF Settling
<1>1. "dropBackup" \in HandlerSteps
  BY DEF HandlerSteps
<1>2. Busy(k, v) /\ handler[k][v].at = "drop"
  BY DEF DeleteRollbackInfo, Busy, Idle
<1>3. row[v] # NoRow
  BY <1>2, HandlerKnows
<1>4. PromisedOf(v)
  BY DEF Promised
<1>5. UNCHANGED <<backup, clicks, undone, expired>> /\ OnlyHandler /\ rollback' = Drop(rollback, v)
  BY DEF DeleteRollbackInfo
<1>6. PICK next \in Handling : next.at = "dropBackup" /\ handler' = [handler EXCEPT ![k][v] = next]
  BY <1>1, StepShape DEF DeleteRollbackInfo
<1>7. Handles(k, v, next)
  BY <1>2, <1>5, <1>6 DEF Handles
<1>8. ~(rollback'[v].until > now)
  BY <1>5 DEF Drop, NoKey, Types
<1>9. clicks'[v] + undone'[v] <= attached[v]
  BY <1>4, <1>5 DEF PromisedOf
<1>10. PromisedOf(v)'
  BY <1>6, <1>7, <1>8, <1>9, PromiseKept
<1> QED
  BY <1>3, <1>7, <1>10, HandlerFrame

LEMMA DropBackupSettles ==
    ASSUME Calm, Settling, NEW k \in HandlerKinds, NEW v \in Views, DeleteRollbackBackup(k, v)
    PROVE  Settling'
<1> USE DEF Settling
<1>1. Busy(k, v) /\ handler[k][v].at = "dropBackup"
  BY DEF DeleteRollbackBackup, Busy, Idle
<1>2. row[v] # NoRow
  BY <1>1, HandlerKnows
<1>3. PromisedOf(v)
  BY DEF Promised
<1>4. UNCHANGED <<rollback, clicks, undone, expired>> /\ OnlyHandler /\ backup' = Drop(backup, v)
  BY DEF DeleteRollbackBackup
<1>5. PICK next \in Handling : next.at = "idle" /\ handler' = [handler EXCEPT ![k][v] = next]
  BY EndShape DEF DeleteRollbackBackup
<1>6. Handles(k, v, next)
  BY <1>1, <1>4, <1>5 DEF Handles
<1>7. ~(backup'[v].until > now)
  BY <1>4 DEF Drop, NoKey, Types
<1>8. ~(rollback'[v].until > now) /\ clicks'[v] + undone'[v] <= attached[v]
  BY <1>1, <1>3, <1>4 DEF PromisedOf, Live
<1>9. PromisedOf(v)'
  BY <1>5, <1>6, <1>7, <1>8, PromiseKept
<1> QED
  BY <1>2, <1>6, <1>9, HandlerFrame

-----------------------------------------------------------------------------
(***************************************************************************)
(* Time, the daily reset, and the steps that do not happen.                *)
(***************************************************************************)
LEMMA ExpireKeeps ==
    ASSUME Types, NEW K \in {rollback, backup, pageKey}
    PROVE  \A i \in DOMAIN K :
             /\ Expire(K)[i] = NoKey \/ (Expire(K)[i] = K[i] /\ K[i].until # now + 1)
             /\ Expire(K)[i].until > now + 1 => Expire(K)[i] = K[i] /\ K[i].until > now
             /\ K[i].until = now + 1 => Expire(K)[i] = NoKey
             /\ K[i] = NoKey => Expire(K)[i] = NoKey
<1> SUFFICES ASSUME NEW i \in DOMAIN K
             PROVE  /\ Expire(K)[i] = NoKey \/ (Expire(K)[i] = K[i] /\ K[i].until # now + 1)
                    /\ Expire(K)[i].until > now + 1 => Expire(K)[i] = K[i] /\ K[i].until > now
                    /\ K[i].until = now + 1 => Expire(K)[i] = NoKey
                    /\ K[i] = NoKey => Expire(K)[i] = NoKey
  OBVIOUS
<1>1. Expire(K)[i] = IF K[i].until = now + 1 THEN NoKey ELSE K[i]
  BY DEF Expire
<1>2. K[i].until \in Nat /\ now \in Nat
  BY DEF Types, Timed, PageKeys, NoKey
<1>3. NoKey.until = 0
  BY DEF NoKey
<1> QED
  BY <1>1, <1>2, <1>3

LEMMA TickSettles ==
    ASSUME Calm, Settling, Tick
    PROVE  Settling'
<1> USE DEF Settling
<1>1. ~Working /\ expired = {}
  BY DEF Tick, Calm, Without, May
<1>2. /\ \A a \in Auctions : ~ViewIsWorking(a)
      /\ \A k \in HandlerKinds, v \in Views : handler[k][v].at = "idle"
  BY <1>1 DEF Working, Idle
<1>3. now' = now + 1 /\ now \in Nat /\ UNCHANGED <<view, row, handler, clicks, attached, undone>>
  BY DEF Tick, history, Types
<1>4. DOMAIN rollback = Views /\ DOMAIN backup = Views /\ DOMAIN pageKey = Auctions
  BY DEF Types
<1>5. rollback' = Expire(rollback) /\ backup' = Expire(backup) /\ pageKey' = Expire(pageKey)
  BY DEF Tick
<1>6. \A v \in Views :
        /\ rollback'[v] = NoKey \/ rollback'[v] = rollback[v]
        /\ Live(rollback[v])' => rollback'[v] = rollback[v] /\ Live(rollback[v])
        /\ rollback[v].until = now + 1 => rollback'[v] = NoKey
        /\ rollback[v] = NoKey => rollback'[v] = NoKey
  BY <1>3, <1>4, <1>5, ExpireKeeps DEF Live
<1>7. \A v \in Views :
        /\ backup'[v] = NoKey \/ backup'[v] = backup[v]
        /\ Live(backup[v])' => backup'[v] = backup[v] /\ Live(backup[v])
        /\ backup[v] = NoKey => backup'[v] = NoKey
  BY <1>3, <1>4, <1>5, ExpireKeeps DEF Live
<1>8. \A p \in Auctions :
        /\ pageKey'[p] = NoKey \/ pageKey'[p] = pageKey[p]
        /\ Live(pageKey[p])' => pageKey'[p] = pageKey[p] /\ Live(pageKey[p])
  BY <1>3, <1>4, <1>5, ExpireKeeps DEF Live
<1>9. expired' \subseteq {v \in Views : rollback[v].until = now + 1}
  BY <1>1 DEF Tick
<1>10. \A a \in Auctions :
         /\ DOMAIN auction'[a] = DOMAIN auction[a]
         /\ auction'[a].at = auction[a].at /\ auction'[a].winner = auction[a].winner
  <2> SUFFICES ASSUME NEW a \in Auctions
               PROVE  /\ DOMAIN auction'[a] = DOMAIN auction[a]
                      /\ auction'[a].at = auction[a].at /\ auction'[a].winner = auction[a].winner
    OBVIOUS
  <2>1. auction'[a] \in {auction[a], [auction[a] EXCEPT !.until = 0]}
    BY DEF Tick
  <2>2. {"at", "winner"} \subseteq DOMAIN auction[a]
    BY DEF Types
  <2> QED
    BY <2>1, <2>2
<1>11. Types'
  <2>1. DOMAIN auction' = Auctions /\ \A a \in Auctions : {"at", "winner"} \subseteq DOMAIN auction'[a]
    BY <1>10 DEF Tick, Types
  <2>2. pageKey' \in [Auctions -> PageKeys]
    <3>1. DOMAIN pageKey' = Auctions /\ pageKey' = [p \in Auctions |-> pageKey'[p]]
      BY <1>4, <1>5 DEF Expire
    <3> QED
      BY <1>8, <3>1 DEF Types, PageKeys
  <2>3. rollback' \in [Views -> Timed]
    <3>1. rollback' = [v \in Views |-> rollback'[v]]
      BY <1>4, <1>5 DEF Expire
    <3> QED
      BY <1>6, <3>1 DEF Types, Timed
  <2>4. backup' \in [Views -> Timed]
    <3>1. backup' = [v \in Views |-> backup'[v]]
      BY <1>4, <1>5 DEF Expire
    <3> QED
      BY <1>7, <3>1 DEF Types, Timed
  <2> QED
    BY <1>3, <1>9, <2>1, <2>2, <2>3, <2>4 DEF Types
<1>12. Answering'
  BY <1>3, <1>10 DEF Answering
<1>13. Solo' /\ Numbered'
  BY <1>3 DEF Solo, Numbered, ViewIsWorking, Busy, Idle
<1>14. \A v \in Views : v \in expired' => Live(rollback[v]) /\ rollback[v] # NoKey
  <2>1. ~(NoKey.until = now + 1)
    BY <1>3 DEF NoKey
  <2> QED
    BY <1>3, <1>9, <2>1 DEF Live
<1>15. Named'
  <2>1. ASSUME NEW v \in Views, Unseen(v)
        PROVE  Unseen(v)'
    BY <1>3, <1>6, <1>7, <1>14, <2>1 DEF Unseen, Idle
  <2>2. \A a \in Auctions : view[a].at # "publish"
    BY <1>2 DEF ViewIsWorking
  <2>3. \A v \in Views : row[v] = NoRow =>
          Unseen(v)' /\ \A a \in Auctions : view[a].id # v /\ (pageKey'[a] # NoKey => pageKey'[a].id # v)
    BY <1>8, <2>1 DEF Named
  <2> QED
    BY <1>3, <2>2, <2>3 DEF Named
<1>16. PageFirst'
  <2>1. \A p \in Auctions : pageKey'[p].until <= now' + RecordTtl
    <3> SUFFICES ASSUME NEW p \in Auctions
                 PROVE  pageKey'[p].until <= now + 1 + RecordTtl
      BY <1>3
    <3>1. pageKey[p].until \in Nat /\ pageKey[p].until <= now + RecordTtl /\ RecordTtl \in Nat
      BY LegacyAssumption DEF PageFirst, Types, PageKeys, NoKey
    <3>2. NoKey.until = 0
      BY DEF NoKey
    <3> QED
      BY <1>3, <1>8, <3>1, <3>2
  <2>2. ASSUME NEW p \in Auctions, NEW v \in Views, Live(pageKey[p])', pageKey'[p].id = v
        PROVE  v \notin expired' /\ (Live(rollback[v])' => pageKey'[p].until <= rollback'[v].until)
    <3>1. pageKey'[p] = pageKey[p] /\ Live(pageKey[p])
      BY <1>8, <2>2
    <3>2. Live(rollback[v]) => pageKey[p].until <= rollback[v].until
      BY <2>2, <3>1 DEF PageFirst
    <3>3. pageKey[p].until \in Nat /\ pageKey[p].until > now + 1
      BY <1>3, <2>2, <3>1 DEF Live, Types, PageKeys, NoKey
    <3>4. v \notin expired'
      <4>1. ASSUME v \in expired'
            PROVE  FALSE
        <5>1. rollback[v].until = now + 1
          BY <1>9, <4>1
        <5> QED
          BY <1>3, <1>14, <3>2, <3>3, <4>1, <5>1
      <4> QED
        BY <4>1
    <3> QED
      BY <1>6, <3>1, <3>2, <3>4
  <2> QED
    BY <2>1, <2>2 DEF PageFirst
<1>17. ExpiredIsGone'
  <2>1. \A v \in expired' : ~Live(rollback[v])'
    <3> SUFFICES ASSUME NEW v \in expired'
                 PROVE  ~(rollback'[v].until > now')
      BY DEF Live
    <3>1. rollback'[v] = NoKey
      BY <1>6, <1>9
    <3> QED
      BY <1>3, <3>1 DEF NoKey
  <2> QED
    BY <1>2, <1>3, <2>1 DEF ExpiredIsGone, ViewIsWorking
<1>18. Promised'
  <2>1. ASSUME NEW v \in Views
        PROVE  PromisedOf(v)'
    <3>1. PromisedOf(v) /\ ~Cleaning(v) /\ "worker" \in HandlerKinds
      BY <1>2 DEF Promised, Cleaning, HandlerKinds
    <3>2. (Live(rollback[v]) \/ Live(backup[v]))' => Open(v)
      BY <1>6, <1>7, <3>1 DEF PromisedOf
    <3> QED
      BY <1>2, <1>3, <3>1, <3>2 DEF PromisedOf, Open, Busy, Idle
  <2> QED
    BY <1>2, <1>3, <2>1 DEF Promised, ViewIsWorking
<1> QED
  BY <1>11, <1>12, <1>13, <1>15, <1>16, <1>17, <1>18

\* Nothing the invariant is about has changed.
LEMMA SettlingStutters ==
    ASSUME Settling, UNCHANGED <<now, auction, view, pageKey, row, rollback, backup, handler, expired, history>>
    PROVE  Settling'
<1> USE DEF Settling, history
<1>1. Types' /\ Answering' /\ Numbered'
  BY DEF Types, Answering, Numbered
<1>2. Solo' /\ Named'
  BY DEF Solo, Named, Unseen, ViewIsWorking, Busy, Idle
<1>3. PageFirst' /\ ExpiredIsGone'
  BY DEF PageFirst, ExpiredIsGone, Live
<1>4. Promised'
  BY DEF Promised, PromisedOf, Open, Live, Cleaning, Busy, Idle
<1> QED
  BY <1>1, <1>2, <1>3, <1>4

LEMMA DecideSettles ==
    ASSUME Settling, NEW a \in Auctions, Decide(a)
    PROVE  Settling'
<1> USE DEF Settling
<1>1. /\ UNCHANGED <<now, view, keys, row, handler, expired, history, allowed>>
      /\ DOMAIN auction' = Auctions /\ \A b \in Auctions : {"at", "winner"} \subseteq DOMAIN auction'[b]
      /\ Answering'
  BY DecisionMoves
<1>2. UNCHANGED <<now, view, pageKey, rollback, backup, row, handler, expired, clicks, attached, undone>>
  BY <1>1 DEF keys, history
<1>3. Types' /\ Numbered'
  BY <1>1, <1>2 DEF Types, Numbered
<1>4. Solo' /\ Named'
  BY <1>2 DEF Solo, Named, Unseen, ViewIsWorking, Busy, Idle
<1>5. PageFirst' /\ ExpiredIsGone'
  BY <1>2 DEF PageFirst, ExpiredIsGone, Live
<1>6. Promised'
  BY <1>2 DEF Promised, PromisedOf, Open, Live, Cleaning, Busy, Idle
<1> QED
  BY <1>1, <1>3, <1>4, <1>5, <1>6

LEMMA RegimeStays == [Next]_vars => UNCHANGED allowed
<1> SUFFICES ASSUME [Next]_vars
             PROVE  UNCHANGED allowed
  OBVIOUS
<1>1. ASSUME NEW a \in Auctions, Decide(a) \/ View(a) \/ CrashView(a)
      PROVE  UNCHANGED allowed
  BY <1>1 DEF Decide, View, CrashView, StartDecision, Increment, SelectWinner, RollbackLoser, NextWindow,
              CacheAuction, OnlyAuction, ReadAuctionData, AcquirePage, PeekPage, SaveViewLog, PublishPage,
              CheckRecord, SetRollbackInfo, SetRollbackBackup, OnlyView
<1>2. ASSUME NEW v \in Views, StartClick(v) \/ Click(v) \/ StartDismiss(v) \/ HearExpiry(v)
      PROVE  UNCHANGED allowed
  BY <1>2 DEF StartClick, Click, FindForClick, SetClickKey, SaveClickLog, StartDismiss, HearExpiry, OnlyHandler
<1>3. ASSUME NEW v \in Views, NEW k \in HandlerKinds, Work(k, v) \/ CrashHandler(k, v)
      PROVE  UNCHANGED allowed
  BY <1>3 DEF Work, Decrement, DeleteRollbackInfo, DeleteRollbackBackup, CrashHandler, OnlyHandler
<1>4. CASE Tick \/ Midnight \/ UNCHANGED vars
  BY <1>4 DEF Tick, Midnight, vars
<1> QED
  BY <1>1, <1>2, <1>3, <1>4 DEF Next, Finished

LEMMA SettlingNext == SettlingInv /\ [Next]_vars => SettlingInv'
<1> SUFFICES ASSUME Calm', SettlingInv, [Next]_vars
             PROVE  Settling'
  BY DEF SettlingInv
<1>1. UNCHANGED allowed
  BY RegimeStays
<1>2. Calm /\ Settling
  BY <1>1 DEF SettlingInv, Calm, Without
<1>3. ~May("crash")
  BY <1>2 DEF Calm, Without, May
<1>4. ASSUME NEW a \in Auctions, Decide(a) \/ View(a) \/ CrashView(a)
      PROVE  Settling'
  BY <1>2, <1>3, <1>4, DecideSettles, ReadAuctionSettles, AcquireSettles, PeekSettles, SaveSettles,
     PublishSettles, CheckSettles, RecordSettles, BackupSettles DEF View, CrashView
<1>5. ASSUME NEW v \in Views, StartClick(v) \/ Click(v) \/ StartDismiss(v) \/ HearExpiry(v)
      PROVE  Settling'
  BY <1>2, <1>5, StartClickSettles, FindSettles, ClickKeySettles, ClickLogSettles, StartDismissSettles,
     HearSettles DEF Click
<1>6. ASSUME NEW v \in Views, NEW k \in HandlerKinds, Work(k, v) \/ CrashHandler(k, v)
      PROVE  Settling'
  BY <1>2, <1>3, <1>6, DecrementSettles, DropSettles, DropBackupSettles DEF Work, CrashHandler
<1>7. CASE Tick
  BY <1>2, <1>7, TickSettles
<1>8. CASE Midnight \/ UNCHANGED vars
  <2>1. UNCHANGED <<now, auction, view, pageKey, row, rollback, backup, handler, expired, history>>
    BY <1>8 DEF Midnight, vars, keys
  <2> QED
    BY <1>2, <2>1, SettlingStutters
<1> QED
  BY <1>4, <1>5, <1>6, <1>7, <1>8 DEF Next, Finished

(***************************************************************************)
(* A view that is not raced, crashed in or slowed down is settled at most  *)
(* as often as it got a rollback record: rollback:view:{id} and its backup *)
(* are deleted by whoever takes them, and the click's deduplication key,   *)
(* the dismiss's read and the worker's read of the backup leave nobody     *)
(* else a record to take (sdk.service.ts, rollback.worker.ts).             *)
(***************************************************************************)
THEOREM RecordsSettleOnce == Spec => []SettledOnce
<1>1. SettlingInv => SettledOnce
  BY DEF SettlingInv, Calm, SettledOnce, Settling, Promised, PromisedOf
<1> QED
  BY <1>1, SettlingInit, SettlingNext, PTL DEF Spec

-----------------------------------------------------------------------------
(***************************************************************************)
(* What a campaign has spent covers its clicks.  What it has spent is paid *)
(* for by the auctions that hold it: those in which its increment was      *)
(* answered and that have not taken it back.  An auction keeps its         *)
(* winner's until the rollback record of its view is rolled back, and a    *)
(* click is what keeps the record from being rolled back; so every click   *)
(* has an auction of its own that still holds the campaign.                *)
(***************************************************************************)
Once == Without({"race", "reload", "crash", "slow"})

AuctionFields == {"at", "windows", "todo", "got", "winner", "until"}

\* A decision starts with nothing, and its winner is no loser.
Phased ==
    /\ DOMAIN auction = Auctions /\ \A a \in Auctions : DOMAIN auction[a] = AuctionFields
    /\ \A a \in Auctions :
         /\ auction[a].at = "new" => auction[a].got = {}
         /\ auction[a].at = "rollback" => auction[a].winner \notin auction[a].todo

(***************************************************************************)
(* A page is seen once: the view that has a row is of one auction, shows   *)
(* its winner and is never found again under the key of the page.          *)
(***************************************************************************)
Owned ==
    /\ \A a \in Auctions :
         /\ view[a].at \notin {"peek", "check"}
         /\ view[a].at \in {"new", "acquire", "save"} => view[a].id = None
         /\ view[a].at \in {"new", "acquire"} => pageKey[a] = NoKey
         /\ view[a].id \in Views => row[view[a].id].campaign = auction[a].winner
    /\ \A a, b \in Auctions : view[a].id = view[b].id => a = b \/ view[a].id = None
    /\ \A v \in Views : row[v] # NoRow => \E a \in Auctions : view[a].id = v

\* So a view gets a rollback record once, when it has a row.
AttachedOnce ==
    /\ \A v \in Views : attached[v] <= 1 /\ (row[v] = NoRow => attached[v] = 0)
    /\ \A a \in Auctions : view[a].at \in {"publish", "record"} => attached[view[a].id] = 0

\* Whatever is taken back for a view is taken back from the campaign of its row.
OfItsCampaign ==
    \A v \in Views :
      /\ rollback[v] # NoKey => rollback[v].campaign = row[v].campaign
      /\ backup[v] # NoKey => backup[v].campaign = row[v].campaign
      /\ \A k \in HandlerKinds : handler[k][v].at = "decrement" => handler[k][v].campaign = row[v].campaign

\* The auction has spent the campaign's cost and has not taken it back.
Holds(a, c) ==
    \/ auction[a].at = "increment" /\ c \in auction[a].got
    \/ auction[a].at = "rollback" /\ c \in auction[a].todo \union {auction[a].winner}
    \/ auction[a].at = "answered" /\ c = auction[a].winner
         /\ (view[a].id \in Views => undone[view[a].id] = 0)

Held(c) == {a \in Auctions : Holds(a, c)}

Covers == \A c \in Campaigns : doc[c].total >= Cost[c] * Cardinality(Held(c))

Charging == Phased /\ Owned /\ AttachedOnce /\ OfItsCampaign /\ Covers

ChargingInv == Once => Charging

-----------------------------------------------------------------------------
LEMMA CostsAddUp ==
    ASSUME NEW k \in Nat, NEW m \in Nat, NEW n \in Nat, m <= n
    PROVE  k * m \in Nat /\ k * m <= k * n /\ k * (n + 1) = k * n + k
OBVIOUS

LEMMA HeldIsFinite ==
    ASSUME NEW c
    PROVE  IsFiniteSet(Held(c)) /\ Cardinality(Held(c)) \in Nat
<1>1. Held(c) \subseteq Auctions
  BY DEF Held
<1> QED
  BY <1>1, FS_Subset, FS_CardinalityType, LegacyAssumption

\* Nothing more is held, and nothing is paid back.
LEMMA HeldStays ==
    ASSUME Inv, NEW c \in Campaigns, doc[c].total >= Cost[c] * Cardinality(Held(c)),
           doc'[c].total = doc[c].total, Held(c)' \subseteq Held(c)
    PROVE  (doc[c].total >= Cost[c] * Cardinality(Held(c)))'
<1> PICK H : H = Held(c)
  OBVIOUS
<1> PICK G : G = Held(c)'
  OBVIOUS
<1>1. IsFiniteSet(H) /\ Cardinality(H) \in Nat
  BY HeldIsFinite
<1>2. Cardinality(G) \in Nat /\ Cardinality(G) <= Cardinality(H)
  BY <1>1, FS_Subset, FS_CardinalityType
<1>3. Cost[c] \in Nat /\ doc[c].total \in Nat
  BY LegacyAssumption DEF Inv, Bounded
<1>4. /\ Cost[c] * Cardinality(G) \in Nat /\ Cost[c] * Cardinality(H) \in Nat
      /\ Cost[c] * Cardinality(G) <= Cost[c] * Cardinality(H)
  BY <1>1, <1>2, <1>3, CostsAddUp
<1> QED
  BY <1>3, <1>4

LEMMA HeldGrows ==
    ASSUME Inv, NEW c \in Campaigns, doc[c].total >= Cost[c] * Cardinality(Held(c)),
           doc'[c].total = doc[c].total + Cost[c], NEW a, Held(c)' \subseteq Held(c) \union {a}
    PROVE  (doc[c].total >= Cost[c] * Cardinality(Held(c)))'
<1> PICK H : H = Held(c)
  OBVIOUS
<1> PICK G : G = Held(c)'
  OBVIOUS
<1>1. IsFiniteSet(H) /\ Cardinality(H) \in Nat
  BY HeldIsFinite
<1>2. IsFiniteSet(H \union {a}) /\ Cardinality(H \union {a}) \in {Cardinality(H), Cardinality(H) + 1}
  BY <1>1, FS_AddElement
<1>3. Cardinality(G) \in Nat /\ Cardinality(G) <= Cardinality(H) + 1
  <2>1. Cardinality(G) \in Nat /\ Cardinality(G) <= Cardinality(H \union {a})
    BY <1>2, FS_Subset, FS_CardinalityType
  <2> QED
    BY <1>1, <1>2, <2>1
<1>4. Cost[c] \in Nat /\ doc[c].total \in Nat
  BY LegacyAssumption DEF Inv, Bounded
<1>5. Cost[c] * Cardinality(G) \in Nat /\ Cost[c] * Cardinality(G) <= Cost[c] * (Cardinality(H) + 1)
  BY <1>1, <1>3, <1>4, CostsAddUp
<1>6. Cost[c] * (Cardinality(H) + 1) = Cost[c] * Cardinality(H) + Cost[c] /\ Cost[c] * Cardinality(H) \in Nat
  BY <1>1, <1>4, CostsAddUp
<1> QED
  BY <1>4, <1>5, <1>6

LEMMA HeldShrinks ==
    ASSUME Inv, NEW c \in Campaigns, doc[c].total >= Cost[c] * Cardinality(Held(c)),
           doc'[c].total \in {doc[c].total, doc[c].total - Cost[c]},
           NEW a \in Held(c), Held(c)' \subseteq Held(c) \ {a}
    PROVE  (doc[c].total >= Cost[c] * Cardinality(Held(c)))'
<1> PICK H : H = Held(c)
  OBVIOUS
<1> PICK G : G = Held(c)'
  OBVIOUS
<1>1. IsFiniteSet(H) /\ Cardinality(H) \in Nat
  BY HeldIsFinite
<1>2. IsFiniteSet(H \ {a}) /\ Cardinality(H \ {a}) = Cardinality(H) - 1
  BY <1>1, FS_RemoveElement
<1>3. Cardinality(G) \in Nat /\ Cardinality(G) + 1 <= Cardinality(H)
  BY <1>1, <1>2, FS_Subset, FS_CardinalityType
<1>4. Cost[c] \in Nat /\ doc[c].total \in Nat
  BY LegacyAssumption DEF Inv, Bounded
<1>5. Cost[c] * (Cardinality(G) + 1) <= Cost[c] * Cardinality(H) /\ Cost[c] * Cardinality(H) \in Nat
  BY <1>1, <1>3, <1>4, CostsAddUp
<1>6. Cost[c] * (Cardinality(G) + 1) = Cost[c] * Cardinality(G) + Cost[c] /\ Cost[c] * Cardinality(G) \in Nat
  BY <1>3, <1>4, CostsAddUp
<1> QED
  BY <1>4, <1>5, <1>6

-----------------------------------------------------------------------------
(***************************************************************************)
(* Decisions: what a decision holds, it has spent.                         *)
(***************************************************************************)
LEMMA DecisionsCharge ==
    ASSUME Inv, Settling, Charging, NEW a \in Auctions, Decide(a)
    PROVE  Charging'
<1>1. /\ UNCHANGED <<now, view, pageKey, rollback, backup, row, handler, expired, clicks, attached, undone>>
      /\ Answering'
  BY DecisionMoves DEF Settling, keys, history
<1>2. auction[a].at # "answered"
  BY DEF Decide, StartDecision, Increment, SelectWinner, RollbackLoser, NextWindow, CacheAuction
<1>3. view[a].at = "new" /\ view[a].id = None /\ None \notin Views
  BY <1>2, LegacyAssumption DEF Settling, Answering, Charging, Owned, Views
<1>4. /\ DOMAIN auction' = Auctions /\ \A b \in Auctions : DOMAIN auction'[b] = AuctionFields
      /\ \A b \in Auctions \ {a} : auction'[b] = auction[b]
  <2> USE DEF Charging, Phased, AuctionFields
  <2>1. ASSUME NEW r \in Rankings, StartDecision(a, r)
        PROVE  /\ DOMAIN auction' = Auctions /\ \A b \in Auctions : DOMAIN auction'[b] = AuctionFields
               /\ \A b \in Auctions \ {a} : auction'[b] = auction[b]
    BY <2>1 DEF StartDecision
  <2>2. ASSUME NEW c \in Campaigns, Increment(a, c)
        PROVE  /\ DOMAIN auction' = Auctions /\ \A b \in Auctions : DOMAIN auction'[b] = AuctionFields
               /\ \A b \in Auctions \ {a} : auction'[b] = auction[b]
    BY <2>2 DEF Increment
  <2>3. ASSUME NEW c \in Campaigns, SelectWinner(a, c)
        PROVE  /\ DOMAIN auction' = Auctions /\ \A b \in Auctions : DOMAIN auction'[b] = AuctionFields
               /\ \A b \in Auctions \ {a} : auction'[b] = auction[b]
    BY <2>3 DEF SelectWinner
  <2>4. ASSUME NEW c \in Campaigns, RollbackLoser(a, c)
        PROVE  /\ DOMAIN auction' = Auctions /\ \A b \in Auctions : DOMAIN auction'[b] = AuctionFields
               /\ \A b \in Auctions \ {a} : auction'[b] = auction[b]
    BY <2>4 DEF RollbackLoser
  <2>5. ASSUME NextWindow(a)
        PROVE  /\ DOMAIN auction' = Auctions /\ \A b \in Auctions : DOMAIN auction'[b] = AuctionFields
               /\ \A b \in Auctions \ {a} : auction'[b] = auction[b]
    BY <2>5 DEF NextWindow
  <2>6. ASSUME CacheAuction(a)
        PROVE  /\ DOMAIN auction' = Auctions /\ \A b \in Auctions : DOMAIN auction'[b] = AuctionFields
               /\ \A b \in Auctions \ {a} : auction'[b] = auction[b]
    BY <2>6 DEF CacheAuction
  <2> QED
    BY <2>1, <2>2, <2>3, <2>4, <2>5, <2>6 DEF Decide
<1>5. Owned'
  BY <1>1, <1>3, <1>4 DEF Charging, Owned
<1>6. AttachedOnce' /\ OfItsCampaign'
  BY <1>1 DEF Charging, AttachedOnce, OfItsCampaign
<1>7. \A b \in Auctions \ {a}, c \in Campaigns : Holds(b, c)' => Holds(b, c)
  BY <1>1, <1>4 DEF Holds
<1>8. Phased' /\ Covers'
  <2> USE DEF Charging
  <2>1. ASSUME NEW r \in Rankings, StartDecision(a, r)
        PROVE  Phased' /\ Covers'
    <3>1. auction'[a].at = "increment" /\ auction'[a].got = {} /\ doc' = doc
      BY <2>1 DEF StartDecision, Phased, AuctionFields
    <3>2. \A c \in Campaigns : Held(c)' \subseteq Held(c)
      BY <1>7, <3>1 DEF Held, Holds
    <3> QED
      BY <1>4, <3>1, <3>2, HeldStays DEF Phased, Covers
  <2>2. ASSUME NEW c \in Campaigns, Increment(a, c)
        PROVE  Phased' /\ Covers'
    <3>1. /\ auction'[a].at = "increment" /\ auction[a].at = "increment"
          /\ auction'[a].got \in {auction[a].got, auction[a].got \union {c}}
          /\ Fits(c) \/ auction'[a].got = auction[a].got
      BY <2>2 DEF Increment, Phased, AuctionFields
    <3>2. /\ \A d \in Campaigns \ {c} : Held(d)' \subseteq Held(d) /\ doc'[d].total = doc[d].total
          /\ Held(c)' \subseteq Held(c) \union {a}
          /\ ~Fits(c) => Held(c)' \subseteq Held(c) /\ doc'[c].total = doc[c].total
          /\ Fits(c) => doc'[c].total = doc[c].total + Cost[c]
      <4>1. /\ \A d \in Campaigns \ {c} : Held(d)' \subseteq Held(d)
            /\ Held(c)' \subseteq Held(c) \union {a}
            /\ ~Fits(c) => Held(c)' \subseteq Held(c)
        BY <1>7, <3>1 DEF Held, Holds
      <4>2. /\ \A d \in Campaigns \ {c} : doc'[d].total = doc[d].total
            /\ ~Fits(c) => doc'[c].total = doc[c].total
            /\ Fits(c) => doc'[c].total = doc[c].total + Cost[c]
        BY <2>2 DEF Increment, Spend, Inv, Bounded
      <4> QED
        BY <4>1, <4>2
    <3>3. Phased'
      BY <1>4, <3>1 DEF Phased
    <3>4. ASSUME NEW d \in Campaigns
          PROVE  (doc[d].total >= Cost[d] * Cardinality(Held(d)))'
      <4>1. doc[d].total >= Cost[d] * Cardinality(Held(d))
        BY DEF Covers
      <4>2. CASE d = c /\ Fits(c)
        BY <3>2, <4>1, <4>2, HeldGrows
      <4>3. CASE ~(d = c /\ Fits(c))
        BY <3>2, <4>1, <4>3, HeldStays
      <4> QED
        BY <4>2, <4>3
    <3> QED
      BY <3>3, <3>4 DEF Covers
  <2>3. ASSUME NEW c \in Campaigns, SelectWinner(a, c)
        PROVE  Phased' /\ Covers'
    <3>1. /\ auction[a].at = "increment" /\ c \in auction[a].got /\ doc' = doc
          /\ auction'[a].at = "rollback" /\ auction'[a].winner = c /\ auction'[a].todo = auction[a].got \ {c}
      BY <2>3 DEF SelectWinner, Phased, AuctionFields
    <3>2. \A d \in Campaigns : Held(d)' \subseteq Held(d)
      BY <1>7, <3>1 DEF Held, Holds
    <3> QED
      BY <1>4, <3>1, <3>2, HeldStays DEF Phased, Covers
  <2>4. ASSUME NEW c \in Campaigns, RollbackLoser(a, c)
        PROVE  Phased' /\ Covers'
    <3>1. /\ auction[a].at = "rollback" /\ c \in auction[a].todo /\ c # auction[a].winner
          /\ auction'[a].at = "rollback" /\ auction'[a].winner = auction[a].winner
          /\ auction'[a].todo = auction[a].todo \ {c}
      BY <2>4 DEF RollbackLoser, Phased, AuctionFields
    <3>2. /\ \A d \in Campaigns \ {c} : Held(d)' \subseteq Held(d)
          /\ a \in Held(c) /\ Held(c)' \subseteq Held(c) \ {a}
      BY <1>7, <3>1 DEF Held, Holds
    <3>3. /\ \A d \in Campaigns \ {c} : doc'[d].total = doc[d].total
          /\ doc'[c].total \in {doc[c].total, doc[c].total - Cost[c]}
      BY <2>4 DEF RollbackLoser, Unspend, Inv, Bounded
    <3>4. ASSUME NEW d \in Campaigns
          PROVE  (doc[d].total >= Cost[d] * Cardinality(Held(d)))'
      <4>1. doc[d].total >= Cost[d] * Cardinality(Held(d))
        BY DEF Covers
      <4>2. CASE d = c
        BY <3>2, <3>3, <4>1, <4>2, HeldShrinks
      <4>3. CASE d # c
        BY <3>2, <3>3, <4>1, <4>3, HeldStays
      <4> QED
        BY <4>2, <4>3
    <3> QED
      BY <1>4, <3>1, <3>4 DEF Phased, Covers
  <2>5. ASSUME NextWindow(a)
        PROVE  Phased' /\ Covers'
    <3>1. /\ auction'[a].at \in {"increment", "failed"} /\ auction[a].got = {} /\ auction'[a].got = {}
          /\ doc' = doc
      BY <2>5 DEF NextWindow, Phased, AuctionFields
    <3>2. \A d \in Campaigns : Held(d)' \subseteq Held(d)
      BY <1>7, <3>1 DEF Held, Holds
    <3> QED
      BY <1>4, <3>1, <3>2, HeldStays DEF Phased, Covers
  <2>6. ASSUME CacheAuction(a)
        PROVE  Phased' /\ Covers'
    <3>1. /\ auction[a].at = "rollback" /\ auction'[a].at = "answered" /\ auction'[a].winner = auction[a].winner
          /\ doc' = doc
      BY <2>6 DEF CacheAuction, Phased, AuctionFields
    <3>2. \A d \in Campaigns : Held(d)' \subseteq Held(d)
      BY <1>7, <3>1 DEF Held, Holds
    <3> QED
      BY <1>4, <3>1, <3>2, HeldStays DEF Phased, Covers
  <2> QED
    BY <2>1, <2>2, <2>3, <2>4, <2>5, <2>6 DEF Decide
<1> QED
  BY <1>5, <1>6, <1>8 DEF Charging

-----------------------------------------------------------------------------
(***************************************************************************)
(* Views: a row belongs to the auction that was viewed, and gets a record  *)
(* once.                                                                   *)
(***************************************************************************)
LEMMA ViewsCharge ==
    ASSUME Once, Inv, Settling, Charging, NEW a \in Auctions, View(a)
    PROVE  Charging'
<1>1. /\ UNCHANGED <<now, auction, handler, expired, clicks, undone>>
      /\ view' \in [Auctions -> ViewCall]
      /\ \A b \in Auctions \ {a} : view'[b] = view[b]
      /\ auction[a].at = "answered"
  BY ViewFrame DEF Once, Calm, Without
<1>2. doc' = doc
  BY DEF View, ReadAuctionData, AcquirePage, PeekPage, SaveViewLog, PublishPage, CheckRecord, SetRollbackInfo,
         SetRollbackBackup, OnlyView
<1>3. Page(a) = a
  BY DEF Page, Once, Without, May
<1>4. None \notin Views /\ now \in Nat
  BY LegacyAssumption DEF Views, Settling, Types
<1>5. Phased'
  BY <1>1 DEF Charging, Phased
<1>6. ASSUME view'[a].id = view[a].id \/ view[a].id = None
      PROVE  Covers'
  <2>1. \A c \in Campaigns : Held(c)' \subseteq Held(c)
    BY <1>1, <1>4, <1>6 DEF Held, Holds
  <2> QED
    BY <1>2, <2>1, HeldStays DEF Charging, Covers
<1>7. ASSUME ReadAuctionData(a)
      PROVE  Charging'
  <2>1. /\ view[a].at = "new" /\ view'[a].at \in {"acquire", "failed"} /\ view'[a].id = view[a].id
        /\ UNCHANGED <<pageKey, row, rollback, backup, attached>>
    BY <1>7 DEF ReadAuctionData, ViewGoes, Settling, Types, ViewCall
  <2>2. Owned'
    BY <1>1, <2>1 DEF Charging, Owned
  <2>3. AttachedOnce' /\ OfItsCampaign'
    BY <1>1, <2>1 DEF Charging, AttachedOnce, OfItsCampaign
  <2> QED
    BY <1>5, <1>6, <2>1, <2>2, <2>3 DEF Charging
<1>8. ASSUME AcquirePage(a)
      PROVE  Charging'
  <2>1. view[a].at = "acquire" /\ ~Live(pageKey[a])
    BY <1>4, <1>8 DEF AcquirePage, Charging, Owned, Live, NoKey
  <2>2. /\ view'[a].at = "save" /\ view'[a].id = view[a].id
        /\ UNCHANGED <<row, rollback, backup, attached>>
        /\ \A b \in Auctions \ {a} : pageKey'[b] = pageKey[b]
    BY <1>3, <1>8, <2>1 DEF AcquirePage, ViewGoes, Settling, Types, ViewCall
  <2>3. Owned'
    BY <1>1, <2>1, <2>2 DEF Charging, Owned
  <2>4. AttachedOnce' /\ OfItsCampaign'
    BY <1>1, <2>2 DEF Charging, AttachedOnce, OfItsCampaign
  <2> QED
    BY <1>5, <1>6, <2>2, <2>3, <2>4 DEF Charging
<1>9. ASSUME SaveViewLog(a)
      PROVE  Charging'
  <2>1. PICK w \in Views : w = NextView
    BY <1>9 DEF SaveViewLog
  <2>2. row[w] = NoRow
    BY <2>1, NextIsNew DEF Settling
  <2>3. /\ view[a].at = "save" /\ view'[a].at = "publish" /\ view'[a].id = w
        /\ row'[w] = [campaign |-> auction[a].winner] /\ \A v \in Views \ {w} : row'[v] = row[v]
        /\ UNCHANGED <<pageKey, rollback, backup, attached>>
    BY <1>9, <2>1 DEF SaveViewLog, ViewGoesWith, Settling, Types
  <2>4. auction[a].winner \in Campaigns /\ row'[w] # NoRow
    BY <1>1, <2>3, LegacyAssumption DEF Settling, Answering, NoRow
  <2>5. Unseen(w) /\ \A b \in Auctions : view[b].id # w
    BY <2>2 DEF Settling, Named
  <2>6. view[a].id = None
    BY <2>3 DEF Charging, Owned
  <2>7. Owned'
    <3>1. \A b \in Auctions :
            /\ view'[b].at \notin {"peek", "check"}
            /\ view'[b].at \in {"new", "acquire", "save"} => view'[b].id = None
            /\ view'[b].at \in {"new", "acquire"} => pageKey'[b] = NoKey
      BY <1>1, <2>3 DEF Charging, Owned
    <3>2. \A b \in Auctions : view'[b].id \in Views => row'[view'[b].id].campaign = auction'[b].winner
      BY <1>1, <2>3, <2>5 DEF Charging, Owned
    <3>3. \A b, d \in Auctions : view'[b].id = view'[d].id => b = d \/ view'[b].id = None
      BY <1>1, <2>3, <2>5 DEF Charging, Owned
    <3>4. \A v \in Views : row'[v] # NoRow => \E b \in Auctions : view'[b].id = v
      <4> SUFFICES ASSUME NEW v \in Views \ {w}, row[v] # NoRow
                   PROVE  \E b \in Auctions : view'[b].id = v
        BY <2>3
      <4>1. PICK b \in Auctions : view[b].id = v
        BY DEF Charging, Owned
      <4> QED
        BY <1>1, <1>4, <2>6, <4>1
    <3> QED
      BY <3>1, <3>2, <3>3, <3>4 DEF Owned
  <2>8. AttachedOnce'
    <3>1. \A b \in Auctions : view'[b].at \in {"publish", "record"} => attached[view'[b].id] = 0
      BY <1>1, <2>2, <2>3 DEF Charging, AttachedOnce
    <3> QED
      BY <2>3, <2>4, <3>1 DEF Charging, AttachedOnce
  <2>9. OfItsCampaign'
    BY <1>1, <2>3, <2>5 DEF Charging, OfItsCampaign, Unseen, Idle
  <2> QED
    BY <1>5, <1>6, <2>6, <2>7, <2>8, <2>9 DEF Charging
<1>10. ASSUME PublishPage(a)
       PROVE  Charging'
  <2>1. /\ view[a].at = "publish" /\ view'[a].at = "record" /\ view'[a].id = view[a].id
        /\ UNCHANGED <<row, rollback, backup, attached>>
        /\ \A b \in Auctions \ {a} : pageKey'[b] = pageKey[b]
    BY <1>3, <1>10 DEF PublishPage, ViewGoes, Settling, Types, ViewCall
  <2>2. Owned'
    BY <1>1, <2>1 DEF Charging, Owned
  <2>3. AttachedOnce' /\ OfItsCampaign'
    BY <1>1, <2>1 DEF Charging, AttachedOnce, OfItsCampaign
  <2> QED
    BY <1>5, <1>6, <2>1, <2>2, <2>3 DEF Charging
<1>11. ASSUME SetRollbackInfo(a)
       PROVE  Charging'
  <2>1. PICK w \in Views : w = view[a].id
    BY <1>11 DEF SetRollbackInfo, Settling, Named
  <2>2. /\ view[a].at = "record" /\ view'[a].at = "backup" /\ view'[a].id = w
        /\ UNCHANGED <<pageKey, row, backup>>
        /\ rollback'[w] = Set(auction[a].winner, RecordTtl) /\ \A v \in Views \ {w} : rollback'[v] = rollback[v]
        /\ attached'[w] = attached[w] + 1 /\ \A v \in Views \ {w} : attached'[v] = attached[v]
    BY <1>11, <2>1 DEF SetRollbackInfo, ViewGoes, Settling, Types, ViewCall
  <2>3. /\ row[w].campaign = auction[a].winner /\ attached[w] = 0 /\ row[w] # NoRow
    BY <2>1, <2>2 DEF Charging, Owned, AttachedOnce, Settling, Named
  <2>4. Owned'
    BY <1>1, <2>1, <2>2 DEF Charging, Owned
  <2>5. AttachedOnce'
    <3>1. \A b \in Auctions : view'[b].at \in {"publish", "record"} => b # a /\ view[b].id # w
      BY <1>1, <1>4, <2>1, <2>2 DEF Charging, Owned
    <3>2. \A b \in Auctions : view'[b].at \in {"publish", "record"} => view[b].id \in Views
      BY <1>1, <3>1 DEF Settling, Named
    <3>3. \A b \in Auctions : view'[b].at \in {"publish", "record"} => attached'[view'[b].id] = 0
      BY <1>1, <2>2, <3>1, <3>2 DEF Charging, AttachedOnce
    <3>4. \A v \in Views : attached'[v] <= 1 /\ (row[v] = NoRow => attached'[v] = 0)
      BY <2>2, <2>3 DEF Charging, AttachedOnce
    <3> QED
      BY <2>2, <3>3, <3>4 DEF AttachedOnce
  <2>6. OfItsCampaign'
    BY <1>1, <2>2, <2>3 DEF Charging, OfItsCampaign, Set
  <2> QED
    BY <1>5, <1>6, <2>1, <2>2, <2>4, <2>5, <2>6 DEF Charging
<1>12. ASSUME SetRollbackBackup(a)
       PROVE  Charging'
  <2>1. PICK w \in Views : w = view[a].id
    BY <1>12 DEF SetRollbackBackup, Settling, Named
  <2>2. /\ view[a].at = "backup" /\ view'[a].at = "done" /\ view'[a].id = w
        /\ UNCHANGED <<pageKey, row, rollback, attached>>
        /\ backup'[w] = Set(auction[a].winner, BackupTtl) /\ \A v \in Views \ {w} : backup'[v] = backup[v]
    BY <1>12, <2>1 DEF SetRollbackBackup, ViewGoes, Settling, Types, ViewCall
  <2>3. row[w].campaign = auction[a].winner
    BY <2>1 DEF Charging, Owned
  <2>4. Owned'
    BY <1>1, <2>1, <2>2 DEF Charging, Owned
  <2>5. AttachedOnce'
    BY <1>1, <2>2 DEF Charging, AttachedOnce
  <2>6. OfItsCampaign'
    BY <1>1, <2>2, <2>3 DEF Charging, OfItsCampaign, Set
  <2> QED
    BY <1>5, <1>6, <2>1, <2>2, <2>4, <2>5, <2>6 DEF Charging
<1>13. ~PeekPage(a) /\ ~CheckRecord(a)
  BY DEF PeekPage, CheckRecord, Charging, Owned
<1> QED
  BY <1>7, <1>8, <1>9, <1>10, <1>11, <1>12, <1>13 DEF View

-----------------------------------------------------------------------------
(***************************************************************************)
(* Handlers: what is taken back is the cost of the view's own campaign,    *)
(* and its auction holds it no more.                                       *)
(***************************************************************************)
LEMMA RecordsKeepCampaign ==
    ASSUME Types, OfItsCampaign, NEW k \in HandlerKinds, NEW v \in Views, NEW next \in Handling,
           handler' = [handler EXCEPT ![k][v] = next],
           next.at = "decrement" => next.campaign = row[v].campaign,
           UNCHANGED row, rollback' \in {rollback, Drop(rollback, v)}, backup' \in {backup, Drop(backup, v)}
    PROVE  OfItsCampaign'
<1>1. \A j \in HandlerKinds, w \in Views :
        handler'[j][w] = handler[j][w] \/ (j = k /\ w = v /\ handler'[j][w] = next)
  <2>1. handler[k] \in [Views -> Handling] /\ handler' = [handler EXCEPT ![k] = [handler[k] EXCEPT ![v] = next]]
    BY DEF Types
  <2> QED
    BY <2>1 DEF Types
<1>2. \A w \in Views : rollback'[w] \in {rollback[w], NoKey} /\ backup'[w] \in {backup[w], NoKey}
  BY DEF Drop, Types
<1>3. ASSUME NEW w \in Views
      PROVE  /\ rollback'[w] # NoKey => rollback'[w].campaign = row'[w].campaign
             /\ backup'[w] # NoKey => backup'[w].campaign = row'[w].campaign
             /\ \A j \in HandlerKinds : handler'[j][w].at = "decrement" => handler'[j][w].campaign = row'[w].campaign
  BY <1>1, <1>2 DEF OfItsCampaign
<1> QED
  BY <1>3 DEF OfItsCampaign

LEMMA HandlersStayOnViews ==
    ASSUME Charging, OnlyHandler, OfItsCampaign', Covers'
    PROVE  Charging'
<1>1. UNCHANGED <<auction, view, pageKey, row, attached>>
  BY DEF OnlyHandler
<1>2. Phased' /\ Owned' /\ AttachedOnce'
  BY <1>1 DEF Charging, Phased, Owned, AttachedOnce
<1> QED
  BY <1>2 DEF Charging

LEMMA NothingIsSpent ==
    ASSUME Inv, Charging, UNCHANGED <<doc, auction, view, undone>>
    PROVE  Covers'
<1>1. \A c \in Campaigns : Held(c)' \subseteq Held(c)
  BY DEF Held, Holds
<1> QED
  BY <1>1, HeldStays DEF Charging, Covers

LEMMA DecrementCharges ==
    ASSUME Once, Inv, Settling, Charging, NEW k \in HandlerKinds, NEW v \in Views, Decrement(k, v)
    PROVE  Covers'
<1>1. Busy(k, v) /\ handler[k][v].at = "decrement"
  BY DEF Decrement, Busy, Idle
<1>2. row[v] # NoRow
  BY <1>1, HandlerKnows
<1>3. PICK a \in Auctions : view[a].id = v
  BY <1>2 DEF Charging, Owned
<1>4. PICK c : c = handler[k][v].campaign /\ c = row[v].campaign
  BY <1>1 DEF Charging, OfItsCampaign
<1>5. view[a].at # "new" /\ auction[a].at = "answered" /\ c = auction[a].winner /\ c \in Campaigns
  BY <1>3, <1>4, LegacyAssumption DEF Charging, Owned, Settling, Answering, Views
<1>6. undone[v] = 0
  <2>1. clicks[v] + undone[v] < attached[v] /\ attached[v] <= 1
    BY <1>1 DEF Settling, Promised, PromisedOf, Open, Charging, AttachedOnce
  <2>2. {clicks[v], undone[v], attached[v]} \subseteq Nat
    BY DEF Settling, Types
  <2> QED
    BY <2>1, <2>2
<1>7. UNCHANGED <<auction, view>> /\ Unspend(c) /\ undone' = IF Covered(c) THEN [undone EXCEPT ![v] = @ + 1] ELSE undone
  BY <1>4 DEF Decrement, OnlyHandler
<1>8. CASE ~Covered(c)
  BY <1>7, <1>8, NothingIsSpent DEF Unspend
<1>9. CASE Covered(c)
  <2>1. undone'[v] = 1 /\ \A w \in Views \ {v} : undone'[w] = undone[w]
    BY <1>6, <1>7, <1>9 DEF Settling, Types
  <2>2. /\ \A d \in Campaigns \ {c} : doc'[d].total = doc[d].total
        /\ doc'[c].total = doc[c].total - Cost[c]
    BY <1>5, <1>7, <1>9 DEF Unspend, Inv, Bounded
  <2>3. a \in Held(c) /\ a \notin Held(c)'
    BY <1>3, <1>5, <1>6, <1>7, <2>1 DEF Held, Holds
  <2>4. \A d \in Campaigns, b \in Auctions : Holds(b, d)' => Holds(b, d)
    BY <1>6, <1>7, <2>1 DEF Holds
  <2>5. \A d \in Campaigns : Held(d)' \subseteq Held(d)
    BY <2>4 DEF Held
  <2>6. ASSUME NEW d \in Campaigns
        PROVE  (doc[d].total >= Cost[d] * Cardinality(Held(d)))'
    <3>1. doc[d].total >= Cost[d] * Cardinality(Held(d))
      BY DEF Charging, Covers
    <3>2. CASE d = c
      <4>1. Held(d)' \subseteq Held(d) \ {a}
        BY <2>3, <2>5, <3>2
      <4> QED
        BY <2>2, <2>3, <3>1, <3>2, <4>1, HeldShrinks
    <3>3. CASE d # c
      BY <2>2, <2>5, <3>1, <3>3, HeldStays
    <3> QED
      BY <3>2, <3>3
  <2> QED
    BY <2>6 DEF Covers
<1> QED
  BY <1>8, <1>9

LEMMA HandlersCharge ==
    ASSUME Once, Inv, Settling, Charging, NEW v \in Views,
           \/ StartClick(v) \/ Click(v) \/ StartDismiss(v) \/ HearExpiry(v)
           \/ \E k \in HandlerKinds : Work(k, v)
    PROVE  Charging'
<1>1. Types /\ OfItsCampaign
  BY DEF Settling, Charging
<1>2. HandlerKinds = {"click", "dismiss", "worker"} /\ "decrement" \in HandlerSteps
  BY DEF HandlerKinds, HandlerSteps
<1>3. ASSUME NEW k \in HandlerKinds, NEW step \in HandlerSteps \ {"decrement"},
             Goes(k, v, step) \/ Ends(k, v), OnlyHandler,
             rollback' \in {rollback, Drop(rollback, v)}, backup' \in {backup, Drop(backup, v)}
      PROVE  OfItsCampaign'
  <2>1. PICK next \in Handling : next.at # "decrement" /\ handler' = [handler EXCEPT ![k][v] = next]
    BY <1>1, <1>3, StepShape, EndShape
  <2> QED
    BY <1>1, <1>3, <2>1, RecordsKeepCampaign DEF OnlyHandler
<1>4. ASSUME NEW k \in HandlerKinds, NEW record \in [campaign : Campaigns, until : Nat], record.campaign = row[v].campaign,
             handler' = [handler EXCEPT ![k][v] = [at |-> "decrement", campaign |-> record.campaign]],
             OnlyHandler, UNCHANGED <<rollback, backup>>
      PROVE  OfItsCampaign'
  <2>1. PICK next \in Handling : next = [at |-> "decrement", campaign |-> record.campaign]
    BY <1>2 DEF Handling
  <2> QED
    BY <1>1, <1>4, <2>1, RecordsKeepCampaign DEF OnlyHandler
<1>5. ASSUME StartClick(v) \/ Click(v)
      PROVE  Charging'
  <2>1. OnlyHandler /\ UNCHANGED <<doc, rollback, backup, undone>>
    BY <1>5 DEF StartClick, Click, FindForClick, SetClickKey, SaveClickLog
  <2>2. \E step \in HandlerSteps \ {"decrement"} : Goes("click", v, step) \/ Ends("click", v)
    BY <1>5 DEF StartClick, Click, FindForClick, SetClickKey, SaveClickLog, HandlerSteps
  <2>3. OfItsCampaign'
    BY <1>2, <1>3, <2>1, <2>2
  <2> QED
    BY <2>1, <2>3, NothingIsSpent, HandlersStayOnViews DEF OnlyHandler
<1>6. ASSUME StartDismiss(v)
      PROVE  Charging'
  <2>1. OnlyHandler /\ UNCHANGED <<doc, rollback, backup, undone>>
    BY <1>6 DEF StartDismiss
  <2>2. rollback[v] \in [campaign : Campaigns, until : Nat] /\ rollback[v].campaign = row[v].campaign
    BY <1>1, <1>6 DEF StartDismiss, Live, NoKey, Types, Timed, OfItsCampaign
  <2>3. OfItsCampaign'
    BY <1>2, <1>4, <1>6, <2>1, <2>2 DEF StartDismiss
  <2> QED
    BY <2>1, <2>3, NothingIsSpent, HandlersStayOnViews DEF OnlyHandler
<1>7. ASSUME HearExpiry(v)
      PROVE  Charging'
  <2>1. OnlyHandler /\ UNCHANGED <<doc, rollback, backup, undone>>
    BY <1>7 DEF HearExpiry
  <2>2. CASE Live(backup[v])
    <3>1. backup[v] \in [campaign : Campaigns, until : Nat] /\ backup[v].campaign = row[v].campaign
      BY <1>1, <2>2 DEF Live, NoKey, Types, Timed, OfItsCampaign
    <3>2. OfItsCampaign'
      BY <1>2, <1>4, <1>7, <2>1, <2>2, <3>1 DEF HearExpiry
    <3> QED
      BY <2>1, <3>2, NothingIsSpent, HandlersStayOnViews DEF OnlyHandler
  <2>3. CASE ~Live(backup[v])
    <3>1. UNCHANGED <<handler, row>>
      BY <1>7, <2>1, <2>3 DEF HearExpiry, OnlyHandler
    <3>2. OfItsCampaign'
      BY <1>1, <2>1, <3>1 DEF OfItsCampaign
    <3> QED
      BY <2>1, <3>2, NothingIsSpent, HandlersStayOnViews DEF OnlyHandler
  <2> QED
    BY <2>2, <2>3
<1>8. ASSUME NEW k \in HandlerKinds, Decrement(k, v)
      PROVE  Charging'
  <2>1. OnlyHandler /\ UNCHANGED <<rollback, backup>>
    BY <1>8 DEF Decrement
  <2>2. \E step \in HandlerSteps \ {"decrement"} : Goes(k, v, step)
    BY <1>8 DEF Decrement, HandlerSteps
  <2>3. OfItsCampaign'
    BY <1>3, <2>1, <2>2
  <2> QED
    BY <1>8, <2>1, <2>3, DecrementCharges, HandlersStayOnViews
<1>9. ASSUME NEW k \in HandlerKinds, DeleteRollbackInfo(k, v) \/ DeleteRollbackBackup(k, v)
      PROVE  Charging'
  <2>1. /\ OnlyHandler /\ UNCHANGED <<doc, undone>>
        /\ rollback' \in {rollback, Drop(rollback, v)} /\ backup' \in {backup, Drop(backup, v)}
    BY <1>9 DEF DeleteRollbackInfo, DeleteRollbackBackup
  <2>2. \E step \in HandlerSteps \ {"decrement"} : Goes(k, v, step) \/ Ends(k, v)
    BY <1>9 DEF DeleteRollbackInfo, DeleteRollbackBackup, HandlerSteps
  <2>3. OfItsCampaign'
    BY <1>3, <2>1, <2>2
  <2> QED
    BY <2>1, <2>3, NothingIsSpent, HandlersStayOnViews DEF OnlyHandler
<1> QED
  BY <1>5, <1>6, <1>7, <1>8, <1>9 DEF Work

-----------------------------------------------------------------------------
LEMMA TimeCharges ==
    ASSUME Inv, Settling, Charging, Tick
    PROVE  Charging'
<1>1. UNCHANGED <<doc, view, row, handler, attached, undone>>
  BY DEF Tick, history
<1>2. /\ DOMAIN auction' = Auctions
      /\ \A a \in Auctions :
           /\ DOMAIN auction'[a] = AuctionFields
           /\ auction'[a].at = auction[a].at /\ auction'[a].winner = auction[a].winner
           /\ auction'[a].todo = auction[a].todo /\ auction'[a].got = auction[a].got
  <2>1. DOMAIN auction' = Auctions /\ \A a \in Auctions : auction'[a] \in {auction[a], [auction[a] EXCEPT !.until = 0]}
    BY DEF Tick
  <2>2. ASSUME NEW a \in Auctions
        PROVE  /\ DOMAIN auction'[a] = AuctionFields
               /\ auction'[a].at = auction[a].at /\ auction'[a].winner = auction[a].winner
               /\ auction'[a].todo = auction[a].todo /\ auction'[a].got = auction[a].got
    <3>1. DOMAIN auction[a] = AuctionFields
      BY DEF Charging, Phased
    <3> QED
      BY <2>1, <3>1 DEF AuctionFields
  <2> QED
    BY <2>1, <2>2
<1>3. DOMAIN rollback = Views /\ DOMAIN backup = Views /\ DOMAIN pageKey = Auctions
  BY DEF Settling, Types
<1>4. /\ \A v \in Views : rollback'[v] \in {rollback[v], NoKey} /\ backup'[v] \in {backup[v], NoKey}
      /\ \A p \in Auctions : pageKey'[p] \in {pageKey[p], NoKey}
  BY <1>3 DEF Tick, Expire
<1>5. Phased' /\ Owned' /\ AttachedOnce' /\ OfItsCampaign'
  <2>1. Phased'
    BY <1>2 DEF Charging, Phased
  <2>2. Owned'
    BY <1>1, <1>2, <1>4 DEF Charging, Owned
  <2>3. AttachedOnce' /\ OfItsCampaign'
    BY <1>1, <1>4 DEF Charging, AttachedOnce, OfItsCampaign
  <2> QED
    BY <2>1, <2>2, <2>3
<1>6. \A c \in Campaigns : Held(c)' \subseteq Held(c)
  BY <1>1, <1>2 DEF Held, Holds
<1> QED
  BY <1>1, <1>5, <1>6, HeldStays DEF Charging, Covers

LEMMA MidnightCharges ==
    ASSUME Inv, Charging, Midnight \/ UNCHANGED vars
    PROVE  Charging'
<1>1. UNCHANGED <<auction, view, pageKey, rollback, backup, row, handler, attached, undone>>
  BY DEF Midnight, vars, keys, history
<1>2. \A c \in Campaigns : doc'[c].total = doc[c].total
  BY DEF Midnight, vars, Inv, Bounded
<1>3. Phased' /\ Owned' /\ AttachedOnce' /\ OfItsCampaign'
  BY <1>1 DEF Charging, Phased, Owned, AttachedOnce, OfItsCampaign
<1>4. \A c \in Campaigns : Held(c)' \subseteq Held(c)
  BY <1>1 DEF Held, Holds
<1> QED
  BY <1>2, <1>3, <1>4, HeldStays DEF Charging, Covers

LEMMA ChargingInit == Init => ChargingInv
<1> SUFFICES ASSUME Init
             PROVE  Charging
  BY DEF ChargingInv
<1>1. /\ \A a \in Auctions : auction[a] = [at |-> "new", windows |-> <<>>, todo |-> {}, got |-> {},
                                         winner |-> None, until |-> 0]
      /\ \A a \in Auctions : view[a] = [at |-> "new", id |-> None] /\ pageKey[a] = NoKey
      /\ \A v \in Views : row[v] = NoRow /\ rollback[v] = NoKey /\ backup[v] = NoKey /\ attached[v] = 0
      /\ \A k \in HandlerKinds, v \in Views : handler[k][v].at = "idle"
      /\ \A c \in Campaigns : doc[c].total = 0
  BY DEF Init
<1>2. None \notin Views
  BY LegacyAssumption DEF Views
<1>3. Phased
  BY <1>1 DEF Init, Phased, AuctionFields
<1>4. Owned /\ AttachedOnce /\ OfItsCampaign
  BY <1>1, <1>2 DEF Owned, AttachedOnce, OfItsCampaign
<1>5. ASSUME NEW c \in Campaigns
      PROVE  doc[c].total >= Cost[c] * Cardinality(Held(c))
  <2>1. Held(c) = {}
    BY <1>1 DEF Held, Holds
  <2>2. Cost[c] * 0 = 0
    BY LegacyAssumption
  <2> QED
    BY <1>1, <2>1, <2>2, FS_EmptySet
<1> QED
  BY <1>3, <1>4, <1>5 DEF Charging, Covers

LEMMA ChargingNext == Inv /\ SettlingInv /\ ChargingInv /\ [Next]_vars => ChargingInv'
<1> SUFFICES ASSUME Once', Inv, SettlingInv, ChargingInv, [Next]_vars
             PROVE  Charging'
  BY DEF ChargingInv
<1>1. UNCHANGED allowed
  BY RegimeStays
<1>2. Once /\ Calm
  BY <1>1 DEF Once, Calm, Without
<1>3. Settling /\ Charging /\ ~May("crash")
  BY <1>2 DEF SettlingInv, ChargingInv, Calm, Without, May
<1>4. ASSUME NEW a \in Auctions, Decide(a) \/ View(a) \/ CrashView(a)
      PROVE  Charging'
  BY <1>2, <1>3, <1>4, DecisionsCharge, ViewsCharge DEF CrashView
<1>5. ASSUME NEW v \in Views,
             \/ StartClick(v) \/ Click(v) \/ StartDismiss(v) \/ HearExpiry(v)
             \/ \E k \in HandlerKinds : Work(k, v) \/ CrashHandler(k, v)
      PROVE  Charging'
  <2>1. \A k \in HandlerKinds : ~CrashHandler(k, v)
    BY <1>3 DEF CrashHandler
  <2> QED
    BY <1>2, <1>3, <1>5, <2>1, HandlersCharge
<1>6. CASE Tick
  BY <1>3, <1>6, TimeCharges
<1>7. CASE Midnight \/ UNCHANGED vars
  BY <1>3, <1>7, MidnightCharges
<1> QED
  BY <1>4, <1>5, <1>6, <1>7 DEF Next, Finished

\* Every click is of an auction that holds its campaign, and no two are of the same.
LEMMA ClicksAreHeld ==
    ASSUME Settling, Charging, NEW c \in Campaigns
    PROVE  IsFiniteSet(ClickLog(c)) /\ Cardinality(ClickLog(c)) <= Cardinality(Held(c))
<1> DEFINE owner == [r \in ClickLog(c) |-> CHOOSE a \in Auctions : view[a].id = r[1]]
<1>1. ASSUME NEW r \in ClickLog(c)
      PROVE  /\ r = <<r[1], 1>> /\ r[1] \in Views
             /\ owner[r] \in Held(c) /\ view[owner[r]].id = r[1]
  <2>1. PICK v \in Views : row[v].campaign = c /\ \E i \in 1..clicks[v] : r = <<v, i>>
    BY DEF ClickLog
  <2>2. clicks[v] + undone[v] <= attached[v] /\ attached[v] <= 1
    BY DEF Settling, Promised, PromisedOf, Charging, AttachedOnce
  <2>3. {clicks[v], undone[v], attached[v]} \subseteq Nat
    BY DEF Settling, Types
  <2>4. r = <<v, 1>> /\ undone[v] = 0
    BY <2>1, <2>2, <2>3
  <2>5. row[v] # NoRow
    BY <2>1, LegacyAssumption DEF NoRow
  <2>6. \E a \in Auctions : view[a].id = v
    BY <2>5 DEF Charging, Owned
  <2>7. PICK a \in Auctions : a = owner[r] /\ view[a].id = v
    BY <2>1, <2>6
  <2> HIDE DEF owner
  <2>8. view[a].at # "new" /\ auction[a].at = "answered" /\ c = auction[a].winner
    <3>1. view[a].id = v /\ row[v].campaign = c /\ None \notin Views
      BY <2>1, <2>7, LegacyAssumption DEF Views
    <3> QED
      BY <3>1 DEF Charging, Owned, Settling, Answering
  <2>9. a \in Held(c)
    BY <2>4, <2>7, <2>8 DEF Held, Holds
  <2> QED
    BY <2>1, <2>4, <2>7, <2>9
<1>2. owner \in [ClickLog(c) -> Held(c)]
  BY <1>1
<1>3. \A r, s \in ClickLog(c) : owner[r] = owner[s] => r = s
  BY <1>1
<1>4. owner \in Injection(ClickLog(c), Held(c))
  BY <1>2, <1>3 DEF Injection, IsInjective
<1> QED
  BY <1>4, HeldIsFinite, FS_Injection

(***************************************************************************)
(* The total that Redis keeps of a campaign is never behind the clicks     *)
(* logged for it, while a view's requests and events are handled one at a  *)
(* time, to the end and in time, and its page is seen once: what           *)
(* rtb.service.ts adds for a winner is only subtracted by the dismiss or   *)
(* the worker that took the record no click has taken.  Resets at          *)
(* midnight, missed expiries, lost replies and decisions that interleave   *)
(* do not change that.                                                     *)
(***************************************************************************)
THEOREM SpentIsKept == Spec => []SpentCoversClicks
<1>1. Inv /\ SettlingInv /\ ChargingInv => SpentCoversClicks
  <2> SUFFICES ASSUME Inv, Settling, Charging, NEW c \in Campaigns
               PROVE  doc[c].total >= Cost[c] * Cardinality(ClickLog(c))
    BY DEF SpentCoversClicks, SettlingInv, ChargingInv, Once, Calm, Without
  <2>1. PICK m, n : m = Cardinality(ClickLog(c)) /\ n = Cardinality(Held(c))
    OBVIOUS
  <2>2. m \in Nat /\ n \in Nat /\ m <= n
    BY <2>1, ClicksAreHeld, HeldIsFinite, FS_CardinalityType
  <2>3. Cost[c] \in Nat /\ doc[c].total \in Nat /\ doc[c].total >= Cost[c] * n
    BY <2>1, LegacyAssumption DEF Inv, Bounded, Charging, Covers
  <2>4. Cost[c] * m \in Nat /\ Cost[c] * n \in Nat /\ Cost[c] * m <= Cost[c] * n
    BY <2>2, <2>3, CostsAddUp
  <2> QED
    BY <2>1, <2>3, <2>4
<1> QED
  BY <1>1, InvInit, InvNext, SettlingInit, SettlingNext, ChargingInit, ChargingNext, PTL DEF Spec
=============================================================================
