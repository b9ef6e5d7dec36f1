------------------------------ MODULE ClickFlow ------------------------------
(***************************************************************************)
(* Recording views, clicks and dismisses of winner-only auctions: the      *)
(* handlers of SdkService between the auction keys (AuctionKeys), the      *)
(* deduplication keys in Redis and the view and click logs in the          *)
(* database.                                                               *)
(*                                                                         *)
(* A handler awaits after every call, so each call is an action, and any   *)
(* other handler, the sweep or the end of a TTL can fall in between.  The  *)
(* GET and the script of commitAuction are one action here: the script     *)
(* tests everything again (AuctionLedger models the gap).                  *)
(***************************************************************************)
EXTENDS AuctionKeys, FiniteSets, Sequences

CONSTANTS
    PageOf,    \* what a view of the auction is deduplicated on: post, visitor, intent
    Viewers,   \* view requests handled at the same time
    Clickers,  \* click requests handled at the same time
    HoldTtl,   \* auctionReservationTtlMs
    ViewTtl,   \* VIEW_IDEMPOTENCY_TTL_MS
    ClickTtl,  \* CLICK_IDEMPOTENCY_TTL_MS
    CallLife,  \* longest time a click request is handled
    MaxViews,  \* bound: view logs
    MaxClicks, \* bound: click logs
    MayCrash   \* TRUE: a handler may stop for good between two calls

Pages   == {PageOf[a] : a \in Auctions}
ViewIds == 1..MaxViews

ASSUME ClickAssumption ==
    /\ {HoldTtl, ViewTtl, ClickTtl, MarkerTtl} \subseteq Nat \ {0}
    /\ CallLife \in Nat
    /\ {MaxViews, MaxClicks, MaxClock} \subseteq Nat
    /\ MayCrash \in BOOLEAN
    /\ IsFiniteSet(Viewers)

VARIABLES
    billed,   \* auctions whose cost was added to the spent of Redis
    views,    \* view_log: the auction of each row, by viewId
    viewKey,  \* dedup:view:{intent}:post:{url}:visitor:{id}, by page
    viewing,  \* the view request each viewer handles
    shown,    \* answers of the view handler: the auction asked for and the viewId
    clickKey, \* dedup:click:view:{viewId}: when it expires, 0 if it is not there
    clicking, \* the click request each clicker handles
    clicks    \* click_log: its rows with what followed from each

viewVars  == <<views, viewKey, viewing, shown>>
clickVars == <<billed, clickKey, clicking, clicks>>
vars      == <<clock, key, viewVars, clickVars>>

-----------------------------------------------------------------------------
\* A dedup key holds LOCK (viewId 0) or a viewId.
Free == [viewId |-> 0, ttlEnd |-> 0]

Idle == [at |-> "idle"]

\* How many handlers are at work.
Busy(handlers) == Cardinality({h \in DOMAIN handlers : handlers[h] # Idle})

ViewSteps  == {"acquire", "peek", "save", "publish"}
ClickSteps == {"commit", "dedup", "recheck", "log"}

TypeOK ==
    /\ clock \in 0..MaxClock
    /\ key \in [Auctions -> [status : {"RESERVED"}, expiresAt : Nat]
                              \union [status : {"COMMITTED", "RELEASED"}, ttlEnd : Nat]
                              \union {Missing}]
    /\ billed \subseteq Auctions
    /\ views \in Seq(Auctions) /\ Len(views) <= MaxViews
    /\ viewKey \in [Pages -> [viewId : {0} \union ViewIds, ttlEnd : Nat]]
    /\ viewing \in [Viewers -> {Idle} \union
                      [at : ViewSteps, auction : Auctions, viewId : {0} \union ViewIds]]
    /\ shown \subseteq Auctions \X ViewIds
    /\ clickKey \in [ViewIds -> Nat]
    /\ clicking \in [Clickers -> {Idle} \union
                      [at : ClickSteps, viewId : ViewIds, since : Nat]]
    /\ clicks \in Seq([viewId : ViewIds, spent : BOOLEAN, paid : BOOLEAN])

Init ==
    /\ KeyInit
    /\ billed = {}
    /\ views = <<>>
    /\ viewKey = [p \in Pages |-> Free]
    /\ viewing = [w \in Viewers |-> Idle]
    /\ shown = {}
    /\ clickKey = [v \in ViewIds |-> 0]
    /\ clicking = [q \in Clickers |-> Idle]
    /\ clicks = <<>>

-----------------------------------------------------------------------------
(***************************************************************************)
(* The decision and the sweep.  A decision wins an auction once; its hold  *)
(* can end before anybody sees the ad.                                     *)
(***************************************************************************)
Decide(a) ==
    /\ a \notin billed
    /\ \A i \in DOMAIN views : views[i] # a
    /\ \A w \in Viewers : viewing[w] # Idle => viewing[w].auction # a
    /\ Win(a, clock + HoldTtl)
    /\ UNCHANGED <<clock, viewVars, clickVars>>

Expired(a) == key[a].status = "RESERVED" /\ key[a].expiresAt <= clock

Sweep(a) ==
    /\ Expired(a)
    /\ End(a, "RELEASED")
    /\ UNCHANGED <<clock, viewVars, clickVars>>

-----------------------------------------------------------------------------
(***************************************************************************)
(* View requests.                                                          *)
(***************************************************************************)
Goto(w, step, viewId) ==
    viewing' = [viewing EXCEPT ![w] = [@ EXCEPT !.at = step, !.viewId = viewId]]

Answer(w, viewId) ==
    /\ shown' = shown \union {<<viewing[w].auction, viewId>>}
    /\ viewing' = [viewing EXCEPT ![w] = Idle]

(***************************************************************************)
(* recordView and the checks of recordReservedView.  Without a standing    *)
(* reservation the answer is 404, and an expired one is released first.    *)
(***************************************************************************)
StartView(w, a) ==
    /\ viewing[w] = Idle
    /\ Len(views) + Busy(viewing) < MaxViews
    /\ key[a].status = "RESERVED"
    /\ ~Expired(a)
    /\ viewing' = [viewing EXCEPT ![w] = [at |-> "acquire", auction |-> a, viewId |-> 0]]
    /\ UNCHANGED <<clock, key, views, viewKey, shown, clickVars>>

StartExpiredView(w, a) ==
    /\ viewing[w] = Idle
    /\ Expired(a)
    /\ End(a, "RELEASED")
    /\ UNCHANGED <<clock, viewVars, clickVars>>

KeyTaken(p) == clock < viewKey[p].ttlEnd

\* SET dedup:view:... LOCK PX NX
AcquireView(w) ==
    LET p == PageOf[viewing[w].auction]
    IN  /\ viewing[w].at = "acquire"
        /\ IF KeyTaken(p)
           THEN Goto(w, "peek", 0) /\ UNCHANGED viewKey
           ELSE /\ viewKey' = [viewKey EXCEPT ![p] = [viewId |-> 0, ttlEnd |-> clock + ViewTtl]]
                /\ Goto(w, "save", 0)
        /\ UNCHANGED <<clock, key, views, shown, clickVars>>

(***************************************************************************)
(* The two GETs after a failed SET: a viewId is answered, LOCK or nothing  *)
(* twice is 409.                                                           *)
(***************************************************************************)
PeekView(w) ==
    LET p == PageOf[viewing[w].auction]
    IN  /\ viewing[w].at = "peek"
        /\ IF KeyTaken(p) /\ viewKey[p].viewId # 0
           THEN Answer(w, viewKey[p].viewId)
           ELSE /\ viewing' = [viewing EXCEPT ![w] = Idle]
                /\ UNCHANGED shown
        /\ UNCHANGED <<clock, key, views, viewKey, clickVars>>

\* saveViewLog
SaveView(w) ==
    /\ viewing[w].at = "save"
    /\ views' = Append(views, viewing[w].auction)
    /\ Goto(w, "publish", Len(views) + 1)
    /\ UNCHANGED <<clock, key, viewKey, shown, clickVars>>

\* setViewIdempotencyKey
PublishView(w) ==
    LET v == viewing[w]
    IN  /\ v.at = "publish"
        /\ viewKey' = [viewKey EXCEPT ![PageOf[v.auction]] =
                         [viewId |-> v.viewId, ttlEnd |-> clock + ViewTtl]]
        /\ Answer(w, v.viewId)
        /\ UNCHANGED <<clock, key, views, clickVars>>

-----------------------------------------------------------------------------
(***************************************************************************)
(* Click requests.                                                         *)
(***************************************************************************)
Step(q, step) == clicking' = [clicking EXCEPT ![q] = [@ EXCEPT !.at = step]]

Stop(q) == clicking' = [clicking EXCEPT ![q] = Idle]

\* recordClick up to its first GET of the auction; without a key there is nothing to do.
StartClick(q, v) ==
    /\ clicking[q] = Idle
    /\ Len(clicks) + Busy(clicking) < MaxClicks
    /\ \E s \in shown : s[2] = v
    /\ key[views[v]] # Missing
    /\ clicking' = [clicking EXCEPT ![q] = [at |-> "commit", viewId |-> v, since |-> clock]]
    /\ UNCHANGED <<clock, key, viewVars, billed, clickKey, clicks>>

\* Mutant: an auction that has ended counts as committed.
CommitAnyEnded(q) ==
    LET a == views[clicking[q].viewId]
    IN  /\ clicking[q].at = "commit"
        /\ IF key[a].status = "RESERVED" /\ ~Expired(a)
           THEN End(a, "COMMITTED") /\ billed' = billed \union {a}
           ELSE UNCHANGED <<key, billed>>
        /\ Step(q, "dedup")
        /\ UNCHANGED <<clock, viewVars, clickKey, clicks>>

(***************************************************************************)
(* commitAuction: committed now or before goes on; a hold that has expired *)
(* is released, and then the click does not count.                         *)
(***************************************************************************)
CommitClick(q) ==
    LET a == views[clicking[q].viewId]
    IN  /\ clicking[q].at = "commit"
        /\ \/ /\ Expired(a)
              /\ End(a, "RELEASED")
              /\ Stop(q)
              /\ UNCHANGED billed
           \/ /\ key[a].status = "RESERVED" /\ ~Expired(a)
              /\ End(a, "COMMITTED")
              /\ billed' = billed \union {a}
              /\ Step(q, "dedup")
           \/ /\ key[a].status = "COMMITTED"
              /\ Step(q, "dedup")
              /\ UNCHANGED <<key, billed>>
           \/ /\ key[a].status \in {"RELEASED", "missing"}
              /\ Stop(q)
              /\ UNCHANGED <<key, billed>>
        /\ UNCHANGED <<clock, viewVars, clickKey, clicks>>

\* Mutant: the key is written without NX.
DedupWithoutNx(q) ==
    LET v == clicking[q].viewId
    IN  /\ clicking[q].at = "dedup"
        /\ clickKey' = [clickKey EXCEPT ![v] = clock + ClickTtl]
        /\ Step(q, "log")
        /\ UNCHANGED <<clock, key, viewVars, billed, clicks>>

\* Mutant: the handler asks whether the key is there after writing it.
DedupOwnKey(q) ==
    LET v == clicking[q].viewId
    IN  /\ clicking[q].at = "dedup"
        /\ clickKey' = [clickKey EXCEPT ![v] = clock + ClickTtl]
        /\ Step(q, "recheck")
        /\ UNCHANGED <<clock, key, viewVars, billed, clicks>>

\* SET dedup:click:view:{viewId} PX NX
DedupClick(q) ==
    LET v == clicking[q].viewId
    IN  /\ clicking[q].at = "dedup"
        /\ IF clock < clickKey[v]
           THEN Step(q, "recheck") /\ UNCHANGED clickKey
           ELSE /\ clickKey' = [clickKey EXCEPT ![v] = clock + ClickTtl]
                /\ Step(q, "log")
        /\ UNCHANGED <<clock, key, viewVars, billed, clicks>>

\* The GET after a failed SET: when the key has expired by now, the click counts after all.
RecheckClick(q) ==
    /\ clicking[q].at = "recheck"
    /\ IF clock < clickKey[clicking[q].viewId] THEN Stop(q) ELSE Step(q, "log")
    /\ UNCHANGED <<clock, key, viewVars, billed, clickKey, clicks>>

\* saveClickLog; the two things that follow it do not wait for each other.
LogClick(q) ==
    /\ clicking[q].at = "log"
    /\ clicks' = Append(clicks, [viewId |-> clicking[q].viewId, spent |-> FALSE, paid |-> FALSE])
    /\ Stop(q)
    /\ UNCHANGED <<clock, key, viewVars, billed, clickKey>>

\* incrementSpent, which nobody awaits; its two columns count as one.
IncrementSpent(i) ==
    /\ ~clicks[i].spent
    /\ clicks' = [clicks EXCEPT ![i].spent = TRUE]
    /\ UNCHANGED <<clock, key, viewVars, billed, clickKey, clicking>>

PayPublisherRevenue(i) ==
    /\ ~clicks[i].paid
    /\ clicks' = [clicks EXCEPT ![i].paid = TRUE]
    /\ UNCHANGED <<clock, key, viewVars, billed, clickKey, clicking>>

-----------------------------------------------------------------------------
\* recordDismiss: releaseAuction of the auction the view was logged for.
Dismiss(v) ==
    /\ \E s \in shown : s[2] = v
    /\ End(views[v], "RELEASED")
    /\ UNCHANGED <<clock, viewVars, clickVars>>

CrashView(w) ==
    /\ MayCrash
    /\ viewing[w] # Idle
    /\ viewing' = [viewing EXCEPT ![w] = Idle]
    /\ UNCHANGED <<clock, key, views, viewKey, shown, clickVars>>

CrashClick(q) ==
    /\ MayCrash
    /\ clicking[q] # Idle
    /\ Stop(q)
    /\ UNCHANGED <<clock, key, viewVars, billed, clickKey, clicks>>

\* A click request is answered, or has died, within CallLife.
Tick ==
    /\ \A q \in Clickers : clicking[q] # Idle => clock < clicking[q].since + CallLife
    /\ Elapse
    /\ UNCHANGED <<viewVars, clickVars>>

View(w) ==
    \/ \E a \in Auctions : StartView(w, a) \/ StartExpiredView(w, a)
    \/ AcquireView(w)
    \/ PeekView(w)
    \/ SaveView(w)
    \/ PublishView(w)
    \/ CrashView(w)

Click(q) ==
    \/ \E v \in DOMAIN views : StartClick(q, v)
    \/ CommitClick(q)
    \/ DedupClick(q)
    \/ RecheckClick(q)
    \/ LogClick(q)
    \/ CrashClick(q)

Next ==
    \/ \E a \in Auctions : Decide(a) \/ Sweep(a)
    \/ \E w \in Viewers : View(w)
    \/ \E q \in Clickers : Click(q)
    \/ \E i \in DOMAIN clicks : IncrementSpent(i) \/ PayPublisherRevenue(i)
    \/ \E v \in DOMAIN views : Dismiss(v)
    \/ Tick

Spec == Init /\ [][Next]_vars

(***************************************************************************)
(* A click request that has started goes on, and so does what follows its  *)
(* row: the event loop runs every continuation.  Visitors, views and time  *)
(* promise nothing.                                                        *)
(***************************************************************************)
ClickStep(q) == CommitClick(q) \/ DedupClick(q) \/ RecheckClick(q) \/ LogClick(q)
FollowUp(i)  == i \in DOMAIN clicks /\ (IncrementSpent(i) \/ PayPublisherRevenue(i))

FairSpec ==
    /\ Spec
    /\ \A q \in Clickers : WF_vars(ClickStep(q))
    /\ \A i \in 1..MaxClicks : WF_vars(FollowUp(i))

-----------------------------------------------------------------------------
(***************************************************************************)
(* Properties.                                                             *)
(***************************************************************************)
AuctionOf(i) == views[clicks[i].viewId]

IsLogged(a) == \E i \in DOMAIN clicks : AuctionOf(i) = a /\ clicks[i].spent /\ clicks[i].paid

(***************************************************************************)
(* A click log is written only for an auction whose hold was billed in     *)
(* Redis: a dismiss, a sweep or an expired view that ends the hold first   *)
(* also stops every click on it, wherever that click has got to.           *)
(***************************************************************************)
ClicksAreBilled == \A i \in DOMAIN clicks : AuctionOf(i) \in billed

(***************************************************************************)
(* A billed auction has one click log: the database is charged, and the    *)
(* publisher paid, once for what Redis billed once (sdk.service.ts:323,    *)
(* "duplicate click ignored").                                             *)
(***************************************************************************)
OneClickPerAuction ==
    \A i, j \in DOMAIN clicks : i # j => AuctionOf(i) # AuctionOf(j)

\* TTLs with which the deduplication keys last as long as what they guard can be
\* asked for: a view, while its auction is held or committed; a click, while the
\* auction is committed, and until a request of that time is over.
Deduplicating ==
    /\ HoldTtl + MarkerTtl <= ViewTtl
    /\ MarkerTtl + CallLife <= ClickTtl

(***************************************************************************)
(* No click is logged for a hold that was not billed and, with TTLs that   *)
(* deduplicate, none is logged twice, even if a post is viewed twice, the  *)
(* requests overlap and handlers die half way.                             *)
(***************************************************************************)
ClicksAreBilledOnce == ClicksAreBilled /\ (Deduplicating => OneClickPerAuction)

(***************************************************************************)
(* The viewId a visitor gets for an ad is the log of that ad's auction     *)
(* (sdk.service.spec.ts:95): clicking or dismissing the ad then settles    *)
(* the hold that was taken for it.                                         *)
(***************************************************************************)
ViewIsOfItsAuction == \A s \in shown : views[s[2]] = s[1]

(***************************************************************************)
(* What Redis billed reaches the database in full, if no handler dies: the *)
(* click that committed may find the deduplication key of another one, but *)
(* then that other one writes the log.                                     *)
(***************************************************************************)
BilledIsLogged ==
    \A a \in Auctions : a \in billed ~> IsLogged(a)
=============================================================================
