---------------------------- MODULE ClickFlow_proofs ----------------------------
(***************************************************************************)
(* No click is logged for a hold that was not billed and, with TTLs that   *)
(* deduplicate, none is logged twice.  A click is logged once because the  *)
(* key of its view outlasts every request that can still find the auction  *)
(* committed, and because only the first view of an auction is clicked     *)
(* while the auction is: the page is locked that long.                     *)
(***************************************************************************)
EXTENDS ClickFlow, FiniteSetTheorems, SequenceTheorems, TLAPS

\* The steps of a click request that follow its commit.
Committed(q) == clicking[q].at \in {"dedup", "recheck", "log"}

\* View requests that may still log their view.
Unsaved == {w \in Viewers : viewing[w].at \in {"acquire", "peek", "save"}}

\* The auction can no longer be committed.
Over(a) ==
    \/ key[a].status \in {"RELEASED", "missing"}
    \/ key[a].status = "RESERVED" /\ key[a].expiresAt <= clock

Saving(w, a) == viewing[w].at = "save" /\ viewing[w].auction = a

ClickTypes ==
    /\ clock \in Nat
    /\ key \in [Auctions -> [status : {"RESERVED"}, expiresAt : Nat]
                              \union [status : {"COMMITTED", "RELEASED"}, ttlEnd : Nat]
                              \union {Missing}]
    /\ billed \subseteq Auctions
    /\ views \in Seq(Auctions)
    /\ viewKey \in [Pages -> [viewId : Nat, ttlEnd : Nat]]
    /\ viewing \in [Viewers -> {Idle} \union
                      [at : ViewSteps, auction : Auctions, viewId : Nat]]
    /\ shown \subseteq Auctions \X DOMAIN views
    /\ clickKey \in [ViewIds -> Nat]
    /\ clicking \in [Clickers -> {Idle} \union
                      [at : ClickSteps, viewId : DOMAIN views, since : Nat]]
    /\ clicks \in Seq([viewId : DOMAIN views, spent : BOOLEAN, paid : BOOLEAN])

Room == Len(views) + Cardinality(Unsaved) <= MaxViews

ViewIdsAreLogged ==
    /\ \A p \in Pages : viewKey[p].viewId = 0 \/ viewKey[p].viewId \in DOMAIN views
    /\ \A w \in Viewers : viewing[w].at = "publish" => viewing[w].viewId \in DOMAIN views

Billing ==
    /\ \A a \in Auctions :
          /\ key[a].status = "COMMITTED" => a \in billed
          /\ a \in billed => key[a].status \in {"COMMITTED", "missing"}
    /\ \A q \in Clickers : Committed(q) => views[clicking[q].viewId] \in billed
    /\ ClicksAreBilled

OnTime ==
    /\ \A a \in Auctions :
          /\ key[a].status = "RESERVED" => key[a].expiresAt <= clock + HoldTtl
          /\ key[a].status = "COMMITTED" =>
                clock < key[a].ttlEnd /\ key[a].ttlEnd <= clock + MarkerTtl
    /\ \A p \in Pages : viewKey[p].ttlEnd <= clock + ViewTtl
    /\ \A q \in Clickers : clicking[q] # Idle =>
          clicking[q].since <= clock /\ clock <= clicking[q].since + CallLife

Viewed(a) == \/ \E v \in DOMAIN views : views[v] = a
             \/ \E w \in Viewers : Saving(w, a)

PageIsLocked ==
    \A a \in Auctions : Viewed(a) =>
        /\ key[a].status = "RESERVED" =>
              key[a].expiresAt + MarkerTtl <= viewKey[PageOf[a]].ttlEnd
        /\ key[a].status = "COMMITTED" => key[a].ttlEnd <= viewKey[PageOf[a]].ttlEnd

OneView ==
    \A a \in Auctions : ~Over(a) =>
        /\ \A u, v \in DOMAIN views : views[u] = a /\ views[v] = a => u = v
        /\ \A v \in DOMAIN views, w \in Viewers : ~(views[v] = a /\ Saving(w, a))
        /\ \A w, x \in Viewers : Saving(w, a) /\ Saving(x, a) => w = x

First(v) == \A u \in DOMAIN views : views[u] = views[v] => v <= u

FirstIsClicked ==
    /\ \A q \in Clickers : Committed(q) => First(clicking[q].viewId)
    /\ \A i \in DOMAIN clicks : First(clicks[i].viewId)

ClickIsLocked ==
    /\ \A v \in DOMAIN views : clickKey[v] # 0 =>
          /\ views[v] \in billed
          /\ key[views[v]].status = "COMMITTED" =>
                key[views[v]].ttlEnd + CallLife <= clickKey[v]
    /\ \A v \in ViewIds : v \notin DOMAIN views => clickKey[v] = 0
    /\ \A q \in Clickers :
          /\ (clicking[q] # Idle /\ clickKey[clicking[q].viewId] # 0) =>
                clicking[q].since + CallLife < clickKey[clicking[q].viewId]
          /\ clicking[q].at \in {"recheck", "log"} => clickKey[clicking[q].viewId] # 0
    /\ \A i \in DOMAIN clicks : clickKey[clicks[i].viewId] # 0

OneLog ==
    /\ \A q, r \in Clickers :
          clicking[q].at = "log" /\ clicking[r].at = "log"
             /\ clicking[q].viewId = clicking[r].viewId => q = r
    /\ \A q \in Clickers, i \in DOMAIN clicks :
          clicking[q].at = "log" => clicks[i].viewId # clicking[q].viewId
    /\ \A i, j \in DOMAIN clicks : clicks[i].viewId = clicks[j].viewId => i = j

Locks == PageIsLocked /\ OneView /\ FirstIsClicked /\ ClickIsLocked /\ OneLog

ClickInv ==
    /\ ClickTypes
    /\ Room
    /\ ViewIdsAreLogged
    /\ Billing
    /\ OnTime
    /\ Deduplicating => Locks

-----------------------------------------------------------------------------
(***************************************************************************)
(* What the requests in hand are.                                          *)
(***************************************************************************)
LEMMA ViewRequest ==
    ASSUME ClickTypes, NEW w \in Viewers, viewing[w] # Idle
    PROVE  /\ viewing[w].at \in ViewSteps
           /\ viewing[w].auction \in Auctions
           /\ viewing[w].viewId \in Nat
           /\ viewing[w] \in [at : ViewSteps, auction : Auctions, viewId : Nat]
BY DEF ClickTypes

LEMMA ClickRequest ==
    ASSUME ClickTypes, NEW q \in Clickers, clicking[q] # Idle
    PROVE  /\ clicking[q].at \in ClickSteps
           /\ clicking[q].viewId \in DOMAIN views
           /\ clicking[q].since \in Nat
           /\ clicking[q] \in [at : ClickSteps, viewId : DOMAIN views, since : Nat]
BY DEF ClickTypes

LEMMA Logged ==
    ASSUME ClickTypes, NEW i \in DOMAIN clicks
    PROVE  /\ clicks[i].viewId \in DOMAIN views
           /\ clicks[i] \in [viewId : DOMAIN views, spent : BOOLEAN, paid : BOOLEAN]
<1> DEFINE R == [viewId : DOMAIN views, spent : BOOLEAN, paid : BOOLEAN]
<1>1. clicks \in Seq(R)
  BY DEF ClickTypes
<1>2. clicks[i] \in R
  <2> HIDE DEF R
  <2> QED
    BY <1>1, LenProperties
<1> QED
  BY <1>2

LEMMA Seen ==
    ASSUME ClickTypes, NEW v \in DOMAIN views
    PROVE  views[v] \in Auctions
BY DEF ClickTypes

LEMMA KeyType ==
    ASSUME ClickTypes, NEW a \in Auctions
    PROVE  /\ clock \in Nat
           /\ key[a].status = "RESERVED" => key[a].expiresAt \in Nat
           /\ key[a].status \in {"COMMITTED", "RELEASED"} => key[a].ttlEnd \in Nat
BY DEF ClickTypes, Missing

\* The view logs have room for one more when a view is saved.
LEMMA ViewIdType ==
    ASSUME ClickTypes, Room, Unsaved \in SUBSET Viewers, NEW v \in DOMAIN views
    PROVE  v \in ViewIds
<1>1. IsFiniteSet(Unsaved)
  BY ClickAssumption, FS_Subset
<1>2. Cardinality(Unsaved) \in Nat
  BY <1>1, FS_CardinalityType
<1>3. Len(views) \in Nat /\ v \in 1..Len(views)
  BY DEF ClickTypes
<1> QED
  BY <1>2, <1>3, ClickAssumption DEF Room, ViewIds

LEMMA NextStep ==
    ASSUME NEW r \in [at : ClickSteps, viewId : DOMAIN views, since : Nat],
           NEW step \in ClickSteps
    PROVE  /\ [r EXCEPT !.at = step] \in [at : ClickSteps, viewId : DOMAIN views, since : Nat]
           /\ [r EXCEPT !.at = step].at = step
           /\ [r EXCEPT !.at = step].viewId = r.viewId
           /\ [r EXCEPT !.at = step].since = r.since
           /\ [r EXCEPT !.at = step] # Idle
BY DEF Idle

LEMMA NextViewStep ==
    ASSUME NEW r \in [at : ViewSteps, auction : Auctions, viewId : Nat],
           NEW step \in ViewSteps, NEW v \in Nat
    PROVE  /\ [r EXCEPT !.at = step, !.viewId = v] \in [at : ViewSteps, auction : Auctions, viewId : Nat]
           /\ [r EXCEPT !.at = step, !.viewId = v].at = step
           /\ [r EXCEPT !.at = step, !.viewId = v].auction = r.auction
           /\ [r EXCEPT !.at = step, !.viewId = v].viewId = v
           /\ [r EXCEPT !.at = step, !.viewId = v] # Idle
BY DEF Idle

\* One case for each action; those that only release an auction are one case.
ReleaseOnly(a) ==
    /\ End(a, "RELEASED")
    /\ UNCHANGED <<clock, billed, views, viewKey, viewing, shown, clickKey, clicking, clicks>>

LEMMA Cases ==
    ASSUME [Next]_vars, ClickTypes
    PROVE  \/ \E a \in Auctions : Decide(a) \/ ReleaseOnly(a)
           \/ \E w \in Viewers : \/ \E a \in Auctions : StartView(w, a)
                                 \/ AcquireView(w) \/ PeekView(w) \/ SaveView(w)
                                 \/ PublishView(w) \/ CrashView(w)
           \/ \E q \in Clickers : \/ \E v \in DOMAIN views : StartClick(q, v)
                                  \/ CommitClick(q) \/ DedupClick(q) \/ RecheckClick(q)
                                  \/ LogClick(q) \/ CrashClick(q)
           \/ \E i \in DOMAIN clicks : IncrementSpent(i) \/ PayPublisherRevenue(i)
           \/ Tick
           \/ UNCHANGED vars
<1>1. ASSUME NEW a \in Auctions, Sweep(a)
      PROVE  ReleaseOnly(a)
  BY <1>1 DEF Sweep, ReleaseOnly, viewVars, clickVars
<1>2. ASSUME NEW a \in Auctions, NEW w \in Viewers, StartExpiredView(w, a)
      PROVE  ReleaseOnly(a)
  BY <1>2 DEF StartExpiredView, ReleaseOnly, viewVars, clickVars
<1>3. ASSUME NEW v \in DOMAIN views, Dismiss(v)
      PROVE  views[v] \in Auctions /\ ReleaseOnly(views[v])
  BY <1>3, Seen DEF Dismiss, ReleaseOnly, viewVars, clickVars
<1>4. CASE \E w \in Viewers : View(w)
  BY <1>2, <1>4 DEF View
<1>5. CASE \E q \in Clickers : Click(q)
  BY <1>5 DEF Click
<1>6. CASE \E a \in Auctions : Decide(a) \/ Sweep(a)
  BY <1>1, <1>6
<1>7. CASE \E v \in DOMAIN views : Dismiss(v)
  BY <1>3, <1>7
<1> QED
  BY <1>4, <1>5, <1>6, <1>7 DEF Next

-----------------------------------------------------------------------------
LEMMA TypesKept ==
    ASSUME ClickInv, [Next]_vars
    PROVE  ClickTypes'
<1> USE DEF ClickInv
<1>1. ASSUME NEW a \in Auctions, Decide(a)
      PROVE  ClickTypes'
  <2>1. clock + HoldTtl \in Nat
    BY ClickAssumption DEF ClickTypes
  <2> QED
    BY <1>1, <2>1 DEF ClickTypes, Decide, Win, Reserved, viewVars, clickVars
<1>2. ASSUME NEW a \in Auctions, ReleaseOnly(a)
      PROVE  ClickTypes'
  <2>1. clock + MarkerTtl \in Nat
    BY ClickAssumption DEF ClickTypes
  <2> QED
    BY <1>2, <2>1 DEF ClickTypes, ReleaseOnly, End, Ended
<1>3. ASSUME NEW w \in Viewers, NEW a \in Auctions, StartView(w, a)
      PROVE  ClickTypes'
  BY <1>3 DEF ClickTypes, StartView, clickVars, ViewSteps
<1>4. ASSUME NEW w \in Viewers, AcquireView(w)
      PROVE  ClickTypes'
  <2>1. clock + ViewTtl \in Nat
    BY ClickAssumption DEF ClickTypes
  <2>2. viewing[w] # Idle
    BY <1>4 DEF AcquireView, Idle
  <2>3. PageOf[viewing[w].auction] \in Pages
    BY <2>2, ViewRequest DEF Pages
  <2>4. viewKey' \in [Pages -> [viewId : Nat, ttlEnd : Nat]]
    <3>1. [viewId |-> 0, ttlEnd |-> clock + ViewTtl] \in [viewId : Nat, ttlEnd : Nat]
      BY <2>1
    <3>2. CASE KeyTaken(PageOf[viewing[w].auction])
      BY <1>4, <3>2 DEF ClickTypes, AcquireView
    <3>3. CASE ~KeyTaken(PageOf[viewing[w].auction])
      BY <1>4, <3>1, <3>3, <2>3 DEF ClickTypes, AcquireView
    <3> QED
      BY <3>2, <3>3
  <2>5. \A step \in ViewSteps : [viewing[w] EXCEPT !.at = step, !.viewId = 0]
                                  \in [at : ViewSteps, auction : Auctions, viewId : Nat]
    BY <2>2, ViewRequest, NextViewStep
  <2>6. viewing' \in [Viewers -> {Idle} \union [at : ViewSteps, auction : Auctions, viewId : Nat]]
    <3>1. \E step \in ViewSteps : Goto(w, step, 0)
      BY <1>4 DEF AcquireView, ViewSteps
    <3> QED
      BY <3>1, <2>5 DEF ClickTypes, Goto
  <2> QED
    BY <1>4, <2>4, <2>6 DEF ClickTypes, AcquireView, clickVars
<1>5. ASSUME NEW w \in Viewers, PeekView(w)
      PROVE  ClickTypes'
  <2>2. viewing[w] # Idle
    BY <1>5 DEF PeekView, Idle
  <2>3. PageOf[viewing[w].auction] \in Pages
    BY <2>2, ViewRequest DEF Pages
  <2>4. viewKey[PageOf[viewing[w].auction]].viewId # 0 =>
          viewKey[PageOf[viewing[w].auction]].viewId \in DOMAIN views
    BY <2>3 DEF ViewIdsAreLogged
  <2> QED
    BY <1>5, <2>2, <2>4, ViewRequest DEF ClickTypes, PeekView, Answer, clickVars
<1>6. ASSUME NEW w \in Viewers, SaveView(w)
      PROVE  ClickTypes'
  <2>2. viewing[w] # Idle
    BY <1>6 DEF SaveView, Idle
  <2>3. /\ views' \in Seq(Auctions)
        /\ DOMAIN views \subseteq DOMAIN views'
    BY <1>6, <2>2, ViewRequest DEF SaveView, ClickTypes
  <2>4. Len(views) + 1 \in Nat
    BY DEF ClickTypes
  <2>5. viewing' \in [Viewers -> {Idle} \union [at : ViewSteps, auction : Auctions, viewId : Nat]]
    <3>1. [viewing[w] EXCEPT !.at = "publish", !.viewId = Len(views) + 1]
             \in [at : ViewSteps, auction : Auctions, viewId : Nat]
      BY <2>2, <2>4, ViewRequest, NextViewStep DEF ViewSteps
    <3> QED
      BY <1>6, <3>1 DEF SaveView, Goto, ClickTypes
  <2>6. clicking' \in [Clickers -> {Idle} \union [at : ClickSteps, viewId : DOMAIN views', since : Nat]]
    BY <1>6, <2>3 DEF SaveView, ClickTypes, clickVars
  <2>7. clicks' \in Seq([viewId : DOMAIN views', spent : BOOLEAN, paid : BOOLEAN])
    <3> DEFINE R == [viewId : DOMAIN views, spent : BOOLEAN, paid : BOOLEAN]
               Q == [viewId : DOMAIN views', spent : BOOLEAN, paid : BOOLEAN]
    <3>1. R \subseteq Q
      BY <2>3
    <3>2. clicks' = clicks /\ clicks \in Seq(R)
      BY <1>6 DEF SaveView, clickVars, ClickTypes
    <3>3. clicks \in Seq(Q)
      <4> HIDE DEF R, Q
      <4> QED
        BY <3>1, <3>2
    <3> QED
      BY <3>2, <3>3
  <2>8. shown' \subseteq Auctions \X DOMAIN views'
    BY <1>6, <2>3 DEF SaveView, ClickTypes
  <2> QED
    BY <1>6, <2>3, <2>5, <2>6, <2>7, <2>8 DEF ClickTypes, SaveView, clickVars
<1>7. ASSUME NEW w \in Viewers, PublishView(w)
      PROVE  ClickTypes'
  <2>1. clock + ViewTtl \in Nat
    BY ClickAssumption DEF ClickTypes
  <2>2. viewing[w] # Idle
    BY <1>7 DEF PublishView, Idle
  <2>3. PageOf[viewing[w].auction] \in Pages
    BY <2>2, ViewRequest DEF Pages
  <2>4. viewing[w].viewId \in DOMAIN views
    BY <1>7 DEF PublishView, ViewIdsAreLogged
  <2> QED
    BY <1>7, <2>1, <2>2, <2>3, <2>4, ViewRequest DEF ClickTypes, PublishView, Answer, clickVars
<1>8. ASSUME NEW q \in Clickers, NEW v \in DOMAIN views, StartClick(q, v)
      PROVE  ClickTypes'
  BY <1>8 DEF ClickTypes, StartClick, viewVars, ClickSteps
<1>9. ASSUME NEW q \in Clickers, CommitClick(q)
      PROVE  ClickTypes'
  <2>1. clock + MarkerTtl \in Nat
    BY ClickAssumption DEF ClickTypes
  <2>2. clicking[q] # Idle
    BY <1>9 DEF CommitClick, Idle
  <2>3. views[clicking[q].viewId] \in Auctions
    BY <2>2, ClickRequest, Seen
  <2>4. key' \in [Auctions -> [status : {"RESERVED"}, expiresAt : Nat]
                              \union [status : {"COMMITTED", "RELEASED"}, ttlEnd : Nat]
                              \union {Missing}]
    <3>1. UNCHANGED key \/ \E status \in {"COMMITTED", "RELEASED"} :
                              End(views[clicking[q].viewId], status)
      BY <1>9 DEF CommitClick
    <3>2. \A status \in {"COMMITTED", "RELEASED"} :
            Ended(status) \in [status : {"COMMITTED", "RELEASED"}, ttlEnd : Nat]
      BY <2>1 DEF Ended
    <3>3. \/ key' = key
          \/ \E e \in [status : {"COMMITTED", "RELEASED"}, ttlEnd : Nat] :
               key' = [key EXCEPT ![views[clicking[q].viewId]] = e]
      BY <3>1, <3>2 DEF End
    <3> QED
      BY <3>3, <2>3 DEF ClickTypes
  <2>5. clicking' \in [Clickers -> {Idle} \union [at : ClickSteps, viewId : DOMAIN views, since : Nat]]
    <3>1. [clicking[q] EXCEPT !.at = "dedup"] \in [at : ClickSteps, viewId : DOMAIN views, since : Nat]
      BY <2>2, ClickRequest, NextStep DEF ClickSteps
    <3>2. Stop(q) \/ Step(q, "dedup")
      BY <1>9 DEF CommitClick
    <3> QED
      BY <3>1, <3>2 DEF Stop, Step, ClickTypes
  <2>6. billed' \subseteq Auctions
    BY <1>9, <2>3 DEF CommitClick, ClickTypes
  <2> QED
    BY <1>9, <2>4, <2>5, <2>6 DEF ClickTypes, CommitClick, viewVars
<1>10. ASSUME NEW q \in Clickers, DedupClick(q)
       PROVE  ClickTypes'
  <2>1. clock + ClickTtl \in Nat
    BY ClickAssumption DEF ClickTypes
  <2>2. clicking[q] # Idle
    BY <1>10 DEF DedupClick, Idle
  <2>3. clickKey' \in [ViewIds -> Nat]
    BY <1>10, <2>1 DEF ClickTypes, DedupClick
  <2>4. \A step \in ClickSteps : [clicking[q] EXCEPT !.at = step]
                                   \in [at : ClickSteps, viewId : DOMAIN views, since : Nat]
    BY <2>2, ClickRequest, NextStep
  <2>5. \E step \in ClickSteps : Step(q, step)
    BY <1>10 DEF DedupClick, ClickSteps
  <2>6. clicking' \in [Clickers -> {Idle} \union [at : ClickSteps, viewId : DOMAIN views, since : Nat]]
    BY <2>4, <2>5 DEF Step, ClickTypes
  <2> QED
    BY <1>10, <2>3, <2>6 DEF ClickTypes, DedupClick, viewVars
<1>11. ASSUME NEW q \in Clickers, RecheckClick(q)
       PROVE  ClickTypes'
  <2>2. clicking[q] # Idle
    BY <1>11 DEF RecheckClick, Idle
  <2>3. [clicking[q] EXCEPT !.at = "log"] \in [at : ClickSteps, viewId : DOMAIN views, since : Nat]
    BY <2>2, ClickRequest, NextStep DEF ClickSteps
  <2>4. Stop(q) \/ Step(q, "log")
    BY <1>11 DEF RecheckClick
  <2>5. clicking' \in [Clickers -> {Idle} \union [at : ClickSteps, viewId : DOMAIN views, since : Nat]]
    BY <2>3, <2>4 DEF Step, Stop, ClickTypes
  <2> QED
    BY <1>11, <2>5 DEF ClickTypes, RecheckClick, viewVars
<1>12. ASSUME NEW q \in Clickers, LogClick(q)
       PROVE  ClickTypes'
  <2>2. clicking[q] # Idle
    BY <1>12 DEF LogClick, Idle
  <2> QED
    BY <1>12, <2>2, ClickRequest DEF ClickTypes, LogClick, Stop, viewVars
<1>13. ASSUME NEW i \in DOMAIN clicks, IncrementSpent(i) \/ PayPublisherRevenue(i)
       PROVE  ClickTypes'
  <2>1. /\ [clicks[i] EXCEPT !.spent = TRUE] \in [viewId : DOMAIN views, spent : BOOLEAN, paid : BOOLEAN]
        /\ [clicks[i] EXCEPT !.paid = TRUE] \in [viewId : DOMAIN views, spent : BOOLEAN, paid : BOOLEAN]
    BY Logged
  <2>2. clicks' \in Seq([viewId : DOMAIN views, spent : BOOLEAN, paid : BOOLEAN])
    <3> DEFINE R == [viewId : DOMAIN views, spent : BOOLEAN, paid : BOOLEAN]
    <3>1. \E r \in R : clicks' = [clicks EXCEPT ![i] = r]
      BY <1>13, <2>1 DEF IncrementSpent, PayPublisherRevenue
    <3>2. clicks \in Seq(R)
      BY DEF ClickTypes
    <3>3. clicks' \in Seq(R)
      <4> HIDE DEF R
      <4> QED
        BY <3>1, <3>2, ExceptSeq, LenProperties
    <3> QED
      BY <3>3
  <2> QED
    BY <1>13, <2>2 DEF ClickTypes, IncrementSpent, PayPublisherRevenue, viewVars
<1>14. ASSUME NEW w \in Viewers, CrashView(w)
       PROVE  ClickTypes'
  BY <1>14 DEF ClickTypes, CrashView, clickVars
<1>15. ASSUME NEW q \in Clickers, CrashClick(q)
       PROVE  ClickTypes'
  BY <1>15 DEF ClickTypes, CrashClick, Stop, viewVars
<1>16. ASSUME Tick
       PROVE  ClickTypes'
  BY <1>16 DEF ClickTypes, Tick, Elapse, viewVars, clickVars
<1>17. ASSUME UNCHANGED vars
       PROVE  ClickTypes'
  BY <1>17 DEF ClickTypes, vars, viewVars, clickVars
<1> QED
  <2>1. ClickTypes
    BY DEF ClickInv
  <2> HIDE DEF ClickInv
  <2> QED
    BY <2>1, <1>1, <1>2, <1>3, <1>4, <1>5, <1>6, <1>7, <1>8, <1>9, <1>10, <1>11, <1>12, <1>13,
       <1>14, <1>15, <1>16, <1>17, Cases

-----------------------------------------------------------------------------
(***************************************************************************)
(* The view logs never outnumber the viewIds.                              *)
(***************************************************************************)
LEMMA UnsavedIsFinite ==
    /\ IsFiniteSet(Unsaved)
    /\ Cardinality(Unsaved) \in Nat
BY ClickAssumption, FS_Subset, FS_CardinalityType DEF Unsaved

LEMMA FewerUnsaved ==
    ASSUME Unsaved' \subseteq Unsaved, Len(views') = Len(views), Len(views) \in Nat, Room
    PROVE  Room'
<1>1. Cardinality(Unsaved') <= Cardinality(Unsaved)
  BY UnsavedIsFinite, FS_Subset
<1>2. Cardinality(Unsaved') \in Nat
  BY UnsavedIsFinite, FS_Subset, FS_CardinalityType
<1> QED
  BY <1>1, <1>2, UnsavedIsFinite, ClickAssumption DEF Room

LEMMA RoomKept ==
    ASSUME ClickInv, [Next]_vars
    PROVE  Room'
<1> USE DEF ClickInv
<1>1. Len(views) \in Nat
  BY DEF ClickTypes
<1>2. CASE UNCHANGED <<views, viewing>>
  BY <1>1, <1>2, FewerUnsaved DEF Unsaved
<1>3. ASSUME NEW w \in Viewers, NEW a \in Auctions, StartView(w, a)
      PROVE  Room'
  <2> DEFINE Working == {x \in DOMAIN viewing : viewing[x] # Idle}
  <2>1. IsFiniteSet(Working) /\ Cardinality(Working) \in Nat /\ Unsaved \subseteq Working
    BY ClickAssumption, FS_Subset, FS_CardinalityType DEF ClickTypes, Unsaved, Idle
  <2>2. Len(views) + Cardinality(Working) < MaxViews
    BY <1>3 DEF StartView, Busy
  <2>3. Cardinality(Unsaved) <= Cardinality(Working)
    BY <2>1, FS_Subset
  <2>4. Unsaved' \subseteq Unsaved \union {w}
    BY <1>3 DEF StartView, Unsaved, ClickTypes
  <2>5. /\ IsFiniteSet(Unsaved \union {w})
        /\ Cardinality(Unsaved \union {w}) \in Nat
        /\ Cardinality(Unsaved \union {w}) <= Cardinality(Unsaved) + 1
    <3>1. /\ IsFiniteSet(Unsaved \union {w})
          /\ \/ Cardinality(Unsaved \union {w}) = Cardinality(Unsaved)
             \/ Cardinality(Unsaved \union {w}) = Cardinality(Unsaved) + 1
      BY UnsavedIsFinite, FS_AddElement
    <3> QED
      BY <3>1, UnsavedIsFinite
  <2>6. /\ Cardinality(Unsaved') <= Cardinality(Unsaved \union {w})
        /\ Cardinality(Unsaved') \in Nat
    BY <2>4, <2>5, FS_Subset, FS_CardinalityType
  <2>7. views' = views
    BY <1>3 DEF StartView
  <2> QED
    BY <1>1, <2>1, <2>2, <2>3, <2>5, <2>6, <2>7, UnsavedIsFinite, ClickAssumption DEF Room
<1>4. ASSUME NEW w \in Viewers, AcquireView(w) \/ PeekView(w) \/ PublishView(w) \/ CrashView(w)
      PROVE  Room'
  <2>1. views' = views
    BY <1>4 DEF AcquireView, PeekView, PublishView, CrashView
  <2>2. \A x \in Viewers \ {w} : viewing'[x] = viewing[x]
    BY <1>4 DEF ClickTypes, AcquireView, PeekView, PublishView, CrashView, Goto, Answer
  <2>3. w \in Unsaved' => w \in Unsaved
    <3>1. CASE AcquireView(w)
      BY <3>1 DEF AcquireView, Unsaved
    <3>2. CASE PeekView(w) \/ PublishView(w) \/ CrashView(w)
      BY <3>2 DEF PeekView, PublishView, CrashView, Answer, Unsaved, ClickTypes, Idle
    <3> QED
      BY <1>4, <3>1, <3>2
  <2>4. Unsaved' \subseteq Unsaved
    BY <2>2, <2>3 DEF Unsaved
  <2> QED
    BY <1>1, <2>1, <2>4, FewerUnsaved
<1>5. ASSUME NEW w \in Viewers, SaveView(w)
      PROVE  Room'
  <2>1. viewing[w] # Idle /\ w \in Unsaved
    BY <1>5 DEF SaveView, Idle, Unsaved
  <2>2. Len(views) + 1 \in Nat
    BY <1>1
  <2>3. [viewing[w] EXCEPT !.at = "publish", !.viewId = Len(views) + 1].at = "publish"
    <3>1. "publish" \in ViewSteps
      BY DEF ViewSteps
    <3>2. viewing[w] \in [at : ViewSteps, auction : Auctions, viewId : Nat]
      BY <2>1, ViewRequest
    <3> QED
      BY <2>2, <3>1, <3>2, NextViewStep
  <2>4. viewing' = [viewing EXCEPT ![w] = [viewing[w] EXCEPT !.at = "publish", !.viewId = Len(views) + 1]]
    BY <1>5 DEF SaveView, Goto
  <2>5. Unsaved' \subseteq Unsaved \ {w}
    BY <2>3, <2>4 DEF Unsaved, ClickTypes
  <2>6. /\ IsFiniteSet(Unsaved \ {w})
        /\ Cardinality(Unsaved \ {w}) = Cardinality(Unsaved) - 1
    BY <2>1, UnsavedIsFinite, FS_RemoveElement
  <2>7. /\ Cardinality(Unsaved') <= Cardinality(Unsaved) - 1
        /\ Cardinality(Unsaved') \in Nat
    BY <2>5, <2>6, FS_Subset, FS_CardinalityType
  <2>8. Len(views') = Len(views) + 1
    <3>1. viewing[w].auction \in Auctions
      BY <2>1, ViewRequest
    <3> QED
      BY <1>5, <3>1 DEF SaveView, ClickTypes
  <2> QED
    BY <1>1, <2>7, <2>8, UnsavedIsFinite, ClickAssumption DEF Room
<1>6. CASE \E a \in Auctions : Decide(a) \/ ReleaseOnly(a)
  BY <1>2, <1>6 DEF Decide, ReleaseOnly, viewVars
<1>7. CASE \E q \in Clickers : \/ \E v \in DOMAIN views : StartClick(q, v)
                               \/ CommitClick(q) \/ DedupClick(q) \/ RecheckClick(q)
                               \/ LogClick(q) \/ CrashClick(q)
  BY <1>2, <1>7 DEF StartClick, CommitClick, DedupClick, RecheckClick, LogClick, CrashClick, viewVars
<1>8. CASE \/ \E i \in DOMAIN clicks : IncrementSpent(i) \/ PayPublisherRevenue(i)
           \/ Tick
           \/ UNCHANGED vars
  BY <1>2, <1>8 DEF IncrementSpent, PayPublisherRevenue, Tick, vars, viewVars
<1>9. ClickTypes
  OBVIOUS
<1> HIDE DEF ClickInv
<1> QED
  BY <1>3, <1>4, <1>5, <1>6, <1>7, <1>8, <1>9, Cases

-----------------------------------------------------------------------------
\* What a request for a view carries on, or answers, is the viewId of a row.
LEMMA ViewIdsKept ==
    ASSUME ClickInv, [Next]_vars
    PROVE  ViewIdsAreLogged'
<1> USE DEF ClickInv
<1>1. CASE UNCHANGED <<views, viewKey, viewing>>
  BY <1>1 DEF ViewIdsAreLogged
<1>2. ASSUME NEW w \in Viewers, NEW a \in Auctions, StartView(w, a)
      PROVE  ViewIdsAreLogged'
  BY <1>2 DEF ViewIdsAreLogged, StartView, ClickTypes
<1>3. ASSUME NEW w \in Viewers, AcquireView(w)
      PROVE  ViewIdsAreLogged'
  <2>1. viewing[w] # Idle
    BY <1>3 DEF AcquireView, Idle
  <2>2. \A step \in ViewSteps : [viewing[w] EXCEPT !.at = step, !.viewId = 0].at = step
    BY <2>1, ViewRequest, NextViewStep
  <2>3. \E step \in {"peek", "save"} : Goto(w, step, 0)
    BY <1>3 DEF AcquireView
  <2>4. viewing'[w].at # "publish" /\ \A x \in Viewers \ {w} : viewing'[x] = viewing[x]
    BY <2>2, <2>3 DEF Goto, ClickTypes, ViewSteps
  <2>5. \A p \in Pages : viewKey'[p] = viewKey[p] \/ viewKey'[p].viewId = 0
    BY <1>3 DEF AcquireView, ClickTypes
  <2>6. views' = views
    BY <1>3 DEF AcquireView
  <2> QED
    BY <2>4, <2>5, <2>6 DEF ViewIdsAreLogged
<1>4. ASSUME NEW w \in Viewers, PeekView(w) \/ PublishView(w) \/ CrashView(w)
      PROVE  ViewIdsAreLogged'
  <2>1. viewing'[w] = Idle /\ \A x \in Viewers \ {w} : viewing'[x] = viewing[x]
    BY <1>4 DEF PeekView, PublishView, CrashView, Answer, ClickTypes
  <2>2. views' = views
    BY <1>4 DEF PeekView, PublishView, CrashView
  <2>3. \A p \in Pages : viewKey'[p] = viewKey[p] \/ viewKey'[p].viewId \in DOMAIN views
    BY <1>4 DEF PeekView, PublishView, CrashView, ClickTypes, ViewIdsAreLogged
  <2> QED
    BY <2>1, <2>2, <2>3 DEF ViewIdsAreLogged, Idle
<1>5. ASSUME NEW w \in Viewers, SaveView(w)
      PROVE  ViewIdsAreLogged'
  <2>1. viewing[w] # Idle
    BY <1>5 DEF SaveView, Idle
  <2>2. Len(views) \in Nat /\ viewing[w].auction \in Auctions
    BY <2>1, ViewRequest DEF ClickTypes
  <2>3. DOMAIN views' = 1..(Len(views) + 1) /\ DOMAIN views = 1..Len(views)
    BY <1>5, <2>2 DEF SaveView, ClickTypes
  <2>4. [viewing[w] EXCEPT !.at = "publish", !.viewId = Len(views) + 1].viewId = Len(views) + 1
    BY <2>1, <2>2, ViewRequest, NextViewStep DEF ViewSteps
  <2>5. /\ viewing'[w].viewId = Len(views) + 1
        /\ \A x \in Viewers \ {w} : viewing'[x] = viewing[x]
    BY <1>5, <2>4 DEF SaveView, Goto, ClickTypes
  <2>6. viewKey' = viewKey
    BY <1>5 DEF SaveView
  <2> QED
    BY <2>2, <2>3, <2>5, <2>6 DEF ViewIdsAreLogged
<1>6. CASE \E a \in Auctions : Decide(a) \/ ReleaseOnly(a)
  BY <1>1, <1>6 DEF Decide, ReleaseOnly, viewVars
<1>7. CASE \E q \in Clickers : \/ \E v \in DOMAIN views : StartClick(q, v)
                               \/ CommitClick(q) \/ DedupClick(q) \/ RecheckClick(q)
                               \/ LogClick(q) \/ CrashClick(q)
  BY <1>1, <1>7 DEF StartClick, CommitClick, DedupClick, RecheckClick, LogClick, CrashClick, viewVars
<1>8. CASE \/ \E i \in DOMAIN clicks : IncrementSpent(i) \/ PayPublisherRevenue(i)
           \/ Tick
           \/ UNCHANGED vars
  BY <1>1, <1>8 DEF IncrementSpent, PayPublisherRevenue, Tick, vars, viewVars
<1>9. ClickTypes
  OBVIOUS
<1> HIDE DEF ClickInv
<1> QED
  BY <1>2, <1>3, <1>4, <1>5, <1>6, <1>7, <1>8, <1>9, Cases

-----------------------------------------------------------------------------
(***************************************************************************)
(* What the calls do, entry by entry.                                      *)
(***************************************************************************)
LEMMA StepEffect ==
    ASSUME ClickTypes, NEW q \in Clickers, clicking[q] # Idle,
           NEW step \in ClickSteps, Step(q, step)
    PROVE  /\ clicking'[q].at = step
           /\ clicking'[q].viewId = clicking[q].viewId
           /\ clicking'[q].since = clicking[q].since
           /\ clicking'[q] # Idle
           /\ \A r \in Clickers \ {q} : clicking'[r] = clicking[r]
<1>1. clicking[q] \in [at : ClickSteps, viewId : DOMAIN views, since : Nat]
  BY ClickRequest
<1>2. clicking' = [clicking EXCEPT ![q] = [clicking[q] EXCEPT !.at = step]]
  BY DEF Step
<1>3. clicking'[q] = [clicking[q] EXCEPT !.at = step]
      /\ \A r \in Clickers \ {q} : clicking'[r] = clicking[r]
  BY <1>2 DEF ClickTypes
<1> QED
  BY <1>1, <1>3, NextStep

LEMMA StopEffect ==
    ASSUME ClickTypes, NEW q \in Clickers, Stop(q)
    PROVE  /\ clicking'[q] = Idle
           /\ \A r \in Clickers \ {q} : clicking'[r] = clicking[r]
BY DEF Stop, ClickTypes

LEMMA GotoEffect ==
    ASSUME ClickTypes, NEW w \in Viewers, viewing[w] # Idle,
           NEW step \in ViewSteps, NEW v \in Nat, Goto(w, step, v)
    PROVE  /\ viewing'[w].at = step
           /\ viewing'[w].auction = viewing[w].auction
           /\ viewing'[w].viewId = v
           /\ viewing'[w] # Idle
           /\ \A x \in Viewers \ {w} : viewing'[x] = viewing[x]
<1>1. viewing[w] \in [at : ViewSteps, auction : Auctions, viewId : Nat]
  BY ViewRequest
<1>2. viewing' = [viewing EXCEPT ![w] = [viewing[w] EXCEPT !.at = step, !.viewId = v]]
  BY DEF Goto
<1>3. viewing'[w] = [viewing[w] EXCEPT !.at = step, !.viewId = v]
      /\ \A x \in Viewers \ {w} : viewing'[x] = viewing[x]
  BY <1>2 DEF ClickTypes
<1> DEFINE r == viewing[w]
<1>4. /\ [r EXCEPT !.at = step, !.viewId = v].at = step
      /\ [r EXCEPT !.at = step, !.viewId = v].auction = r.auction
      /\ [r EXCEPT !.at = step, !.viewId = v].viewId = v
      /\ [r EXCEPT !.at = step, !.viewId = v] # Idle
  <2>1. r \in [at : ViewSteps, auction : Auctions, viewId : Nat]
    BY <1>1
  <2> HIDE DEF r
  <2> QED
    BY <2>1 DEF Idle
<1> QED
  BY <1>3, <1>4

LEMMA EndEffect ==
    ASSUME ClickTypes, NEW a \in Auctions, NEW status \in {"COMMITTED", "RELEASED"}, End(a, status)
    PROVE  /\ key[a].status = "RESERVED"
           /\ key'[a].status = status
           /\ key'[a].ttlEnd = clock + MarkerTtl
           /\ \A b \in Auctions \ {a} : key'[b] = key[b]
BY DEF End, Ended, ClickTypes

LEMMA DecideEffect ==
    ASSUME ClickTypes, NEW a \in Auctions, Decide(a)
    PROVE  /\ key[a].status = "missing"
           /\ key'[a].status = "RESERVED"
           /\ key'[a].expiresAt = clock + HoldTtl
           /\ \A b \in Auctions \ {a} : key'[b] = key[b]
           /\ a \notin billed
           /\ \A v \in DOMAIN views : views[v] # a
           /\ \A w \in Viewers : viewing[w] # Idle => viewing[w].auction # a
           /\ UNCHANGED <<clock, billed, views, viewKey, viewing, shown, clickKey, clicking, clicks>>
BY DEF Decide, Win, Reserved, Missing, ClickTypes, viewVars, clickVars

LEMMA TickEffect ==
    ASSUME ClickTypes, Tick
    PROVE  /\ clock' = clock + 1
           /\ \A a \in Auctions :
                 \/ /\ key'[a] = key[a]
                    /\ key[a].status \in {"COMMITTED", "RELEASED"} => clock + 1 < key[a].ttlEnd
                 \/ /\ key'[a].status = "missing"
                    /\ key[a].status \in {"COMMITTED", "RELEASED"}
           /\ \A q \in Clickers : clicking[q] # Idle => clock < clicking[q].since + CallLife
           /\ UNCHANGED <<billed, views, viewKey, viewing, shown, clickKey, clicking, clicks>>
<1>1. ASSUME NEW a \in Auctions
      PROVE  \/ /\ key'[a] = key[a]
                /\ key[a].status \in {"COMMITTED", "RELEASED"} => clock + 1 < key[a].ttlEnd
             \/ /\ key'[a].status = "missing"
                /\ key[a].status \in {"COMMITTED", "RELEASED"}
  <2>1. key'[a] = IF key[a].status \in {"COMMITTED", "RELEASED"} /\ key[a].ttlEnd <= clock + 1
                  THEN Missing ELSE key[a]
    BY DEF Tick, Elapse
  <2>2. key[a].status \in {"COMMITTED", "RELEASED"} => key[a].ttlEnd \in Nat
    BY DEF ClickTypes, Missing
  <2>3. clock \in Nat
    BY DEF ClickTypes
  <2> QED
    BY <2>1, <2>2, <2>3 DEF Missing
<1> QED
  BY <1>1 DEF Tick, Elapse, viewVars, clickVars

LEMMA SaveEffect ==
    ASSUME ClickTypes, NEW w \in Viewers, SaveView(w)
    PROVE  /\ viewing[w] # Idle
           /\ viewing[w].at = "save"
           /\ viewing[w].auction \in Auctions
           /\ Len(views) + 1 \notin DOMAIN views
           /\ DOMAIN views' = DOMAIN views \union {Len(views) + 1}
           /\ \A v \in DOMAIN views : v \in Nat /\ v < Len(views) + 1 /\ views'[v] = views[v]
           /\ views'[Len(views) + 1] = viewing[w].auction
           /\ viewing'[w].at = "publish"
           /\ viewing'[w].auction = viewing[w].auction
           /\ viewing'[w] # Idle
           /\ \A x \in Viewers \ {w} : viewing'[x] = viewing[x]
           /\ UNCHANGED <<clock, key, billed, viewKey, shown, clickKey, clicking, clicks>>
<1>1. viewing[w] # Idle
  BY DEF SaveView, Idle
<1>2. Len(views) \in Nat /\ Len(views) + 1 \in Nat /\ viewing[w].auction \in Auctions
  BY <1>1, ViewRequest DEF ClickTypes
<1>3. /\ Len(views) + 1 \notin DOMAIN views
      /\ DOMAIN views' = DOMAIN views \union {Len(views) + 1}
      /\ \A v \in DOMAIN views : v \in Nat /\ v < Len(views) + 1 /\ views'[v] = views[v]
      /\ views'[Len(views) + 1] = viewing[w].auction
  BY <1>2 DEF SaveView, ClickTypes
<1>4. "publish" \in ViewSteps /\ Goto(w, "publish", Len(views) + 1)
  BY DEF SaveView, ViewSteps
<1>5. /\ viewing'[w].at = "publish"
      /\ viewing'[w].auction = viewing[w].auction
      /\ viewing'[w] # Idle
      /\ \A x \in Viewers \ {w} : viewing'[x] = viewing[x]
  BY <1>1, <1>2, <1>4, GotoEffect
<1> QED
  BY <1>1, <1>2, <1>3, <1>5 DEF SaveView, clickVars

LEMMA LogEffect ==
    ASSUME ClickTypes, NEW q \in Clickers, LogClick(q)
    PROVE  /\ clicking[q] # Idle
           /\ clicking[q].at = "log"
           /\ clicking[q].viewId \in DOMAIN views
           /\ Len(clicks) + 1 \notin DOMAIN clicks
           /\ DOMAIN clicks' = DOMAIN clicks \union {Len(clicks) + 1}
           /\ \A i \in DOMAIN clicks : clicks'[i] = clicks[i]
           /\ clicks'[Len(clicks) + 1].viewId = clicking[q].viewId
           /\ clicking'[q] = Idle
           /\ \A r \in Clickers \ {q} : clicking'[r] = clicking[r]
           /\ UNCHANGED <<clock, key, billed, views, viewKey, viewing, shown, clickKey>>
<1>1. clicking[q] # Idle
  BY DEF LogClick, Idle
<1>2. clicking[q].viewId \in DOMAIN views
  BY <1>1, ClickRequest
<1> DEFINE R == [viewId : DOMAIN views, spent : BOOLEAN, paid : BOOLEAN]
           r == [viewId |-> clicking[q].viewId, spent |-> FALSE, paid |-> FALSE]
<1>3. clicks \in Seq(R) /\ r \in R /\ clicks' = Append(clicks, r)
  BY <1>2 DEF LogClick, ClickTypes
<1>4. /\ Len(clicks) + 1 \notin DOMAIN clicks
      /\ DOMAIN clicks' = DOMAIN clicks \union {Len(clicks) + 1}
      /\ \A i \in DOMAIN clicks : clicks'[i] = clicks[i]
      /\ clicks'[Len(clicks) + 1] = r
  <2> HIDE DEF R, r
  <2> QED
    BY <1>3
<1> QED
  BY <1>1, <1>2, <1>4, StopEffect DEF LogClick, viewVars

\* The flags of a click log change, its viewId does not.
LEMMA FollowUpEffect ==
    ASSUME ClickTypes, NEW i \in DOMAIN clicks, IncrementSpent(i) \/ PayPublisherRevenue(i)
    PROVE  /\ DOMAIN clicks' = DOMAIN clicks
           /\ \A j \in DOMAIN clicks : clicks'[j].viewId = clicks[j].viewId
           /\ UNCHANGED <<clock, key, billed, views, viewKey, viewing, shown, clickKey, clicking>>
<1>1. clicks[i] \in [viewId : DOMAIN views, spent : BOOLEAN, paid : BOOLEAN]
  BY Logged
<1>2. \E r \in [viewId : DOMAIN views, spent : BOOLEAN, paid : BOOLEAN] :
         r.viewId = clicks[i].viewId /\ clicks' = [clicks EXCEPT ![i] = r]
  <2>1. CASE IncrementSpent(i)
    BY <1>1, <2>1 DEF IncrementSpent
  <2>2. CASE PayPublisherRevenue(i)
    BY <1>1, <2>2 DEF PayPublisherRevenue
  <2> QED
    BY <2>1, <2>2
<1>3. /\ DOMAIN clicks' = DOMAIN clicks
      /\ \A j \in DOMAIN clicks : clicks'[j].viewId = clicks[j].viewId
  BY <1>2
<1> QED
  BY <1>3 DEF IncrementSpent, PayPublisherRevenue, viewVars

\* A commit that goes on has found, or made, the auction committed.
LEMMA CommitEffect ==
    ASSUME ClickTypes, NEW q \in Clickers, CommitClick(q)
    PROVE  LET a == views[clicking[q].viewId] IN
           /\ clicking[q] # Idle
           /\ clicking[q].at = "commit"
           /\ clicking[q].viewId \in DOMAIN views
           /\ a \in Auctions
           /\ \/ /\ clicking'[q] = Idle
                 /\ billed' = billed
                 /\ UNCHANGED key \/ End(a, "RELEASED")
              \/ /\ clicking'[q].at = "dedup"
                 /\ clicking'[q].viewId = clicking[q].viewId
                 /\ clicking'[q].since = clicking[q].since
                 /\ \/ ~Over(a) /\ End(a, "COMMITTED") /\ billed' = billed \union {a}
                    \/ key[a].status = "COMMITTED" /\ UNCHANGED <<key, billed>>
           /\ \A r \in Clickers \ {q} : clicking'[r] = clicking[r]
           /\ UNCHANGED <<clock, views, viewKey, viewing, shown, clickKey, clicks>>
<1> DEFINE a == views[clicking[q].viewId]
<1>1. clicking[q] # Idle
  BY DEF CommitClick, Idle
<1>2. clicking[q].viewId \in DOMAIN views
  BY <1>1, ClickRequest
<1>3. a \in Auctions
  BY <1>2, Seen
<1>4. "dedup" \in ClickSteps
  BY DEF ClickSteps
<1>5. CASE Expired(a) /\ End(a, "RELEASED") /\ Stop(q) /\ UNCHANGED billed
  BY <1>1, <1>2, <1>3, <1>5, StopEffect DEF CommitClick, viewVars
<1>6. CASE key[a].status = "RESERVED" /\ ~Expired(a) /\ End(a, "COMMITTED")
             /\ billed' = billed \union {a} /\ Step(q, "dedup")
  <2>1. ~Over(a)
    BY <1>6 DEF Over, Expired
  <2>2. /\ clicking'[q].at = "dedup"
        /\ clicking'[q].viewId = clicking[q].viewId
        /\ clicking'[q].since = clicking[q].since
        /\ \A r \in Clickers \ {q} : clicking'[r] = clicking[r]
    BY <1>1, <1>4, <1>6, StepEffect
  <2> QED
    BY <1>1, <1>2, <1>3, <1>6, <2>1, <2>2 DEF CommitClick, viewVars
<1>7. CASE key[a].status = "COMMITTED" /\ Step(q, "dedup") /\ UNCHANGED <<key, billed>>
  <2>2. /\ clicking'[q].at = "dedup"
        /\ clicking'[q].viewId = clicking[q].viewId
        /\ clicking'[q].since = clicking[q].since
        /\ \A r \in Clickers \ {q} : clicking'[r] = clicking[r]
    BY <1>1, <1>4, <1>7, StepEffect
  <2> QED
    BY <1>1, <1>2, <1>3, <1>7, <2>2 DEF CommitClick, viewVars
<1>8. CASE Stop(q) /\ UNCHANGED <<key, billed>>
  BY <1>1, <1>2, <1>3, <1>8, StopEffect DEF CommitClick, viewVars
<1> QED
  BY <1>5, <1>6, <1>7, <1>8 DEF CommitClick

-----------------------------------------------------------------------------
(***************************************************************************)
(* Whatever got past its commit is billed, and a billed auction stays so.  *)
(***************************************************************************)
LEMMA BillingKept ==
    ASSUME ClickInv, [Next]_vars
    PROVE  Billing'
<1>0. ClickTypes /\ Billing
  BY DEF ClickInv
<1>t. /\ \A q \in Clickers : clicking[q] # Idle =>
            clicking[q].viewId \in DOMAIN views /\ views[clicking[q].viewId] \in Auctions
      /\ \A i \in DOMAIN clicks :
            clicks[i].viewId \in DOMAIN views /\ views[clicks[i].viewId] \in Auctions
      /\ \A q \in Clickers : Committed(q) => clicking[q] # Idle
  BY <1>0, ClickRequest, Logged, Seen DEF Committed, Idle
<1>1. ASSUME NEW a \in Auctions, Decide(a)
      PROVE  Billing'
  BY <1>0, <1>1, DecideEffect DEF Billing, Committed, ClicksAreBilled, AuctionOf
<1>2. ASSUME NEW a \in Auctions, ReleaseOnly(a)
      PROVE  Billing'
  <2>1. End(a, "RELEASED")
    BY <1>2 DEF ReleaseOnly
  <2>2. /\ key[a].status = "RESERVED" /\ key'[a].status = "RELEASED"
        /\ \A b \in Auctions \ {a} : key'[b] = key[b]
    BY <1>0, <2>1, EndEffect
  <2> QED
    BY <1>0, <1>2, <2>2 DEF Billing, Committed, ClicksAreBilled, AuctionOf, ReleaseOnly
<1>3. CASE UNCHANGED <<key, billed, views, clicking, clicks>>
  BY <1>0, <1>3 DEF Billing, Committed, ClicksAreBilled, AuctionOf
<1>4. ASSUME NEW w \in Viewers, SaveView(w)
      PROVE  Billing'
  <2>1. /\ \A v \in DOMAIN views : views'[v] = views[v]
        /\ UNCHANGED <<key, billed, clicking, clicks>>
    BY <1>0, <1>4, SaveEffect
  <2> QED
    BY <1>0, <1>t, <2>1 DEF Billing, Committed, ClicksAreBilled, AuctionOf
<1>5. ASSUME NEW q \in Clickers, NEW v \in DOMAIN views, StartClick(q, v)
      PROVE  Billing'
  <2>1. /\ clicking'[q].at = "commit"
        /\ \A r \in Clickers \ {q} : clicking'[r] = clicking[r]
        /\ UNCHANGED <<key, billed, views, clicks>>
    BY <1>0, <1>5 DEF StartClick, ClickTypes, viewVars
  <2> QED
    BY <1>0, <2>1 DEF Billing, Committed, ClicksAreBilled, AuctionOf
<1>6. ASSUME NEW q \in Clickers, CommitClick(q)
      PROVE  Billing'
  <2> DEFINE a == views[clicking[q].viewId]
  <2>1. /\ a \in Auctions
        /\ \A r \in Clickers \ {q} : clicking'[r] = clicking[r]
        /\ UNCHANGED <<views, clicks>>
    BY <1>0, <1>6, CommitEffect
  <2>2. CASE clicking'[q] = Idle /\ UNCHANGED <<key, billed>>
    BY <1>0, <2>1, <2>2 DEF Billing, Committed, ClicksAreBilled, AuctionOf, Idle
  <2>3. CASE clicking'[q] = Idle /\ UNCHANGED billed /\ End(a, "RELEASED")
    <3>1. /\ key[a].status = "RESERVED" /\ key'[a].status = "RELEASED"
          /\ \A b \in Auctions \ {a} : key'[b] = key[b]
      BY <1>0, <2>1, <2>3, EndEffect
    <3> QED
      BY <1>0, <2>1, <2>3, <3>1 DEF Billing, Committed, ClicksAreBilled, AuctionOf, Idle
  <2>4. CASE clicking'[q].viewId = clicking[q].viewId /\ End(a, "COMMITTED") /\ billed' = billed \union {a}
    <3>1. /\ key'[a].status = "COMMITTED"
          /\ \A b \in Auctions \ {a} : key'[b] = key[b]
      BY <1>0, <2>1, <2>4, EndEffect
    <3> QED
      BY <1>0, <2>1, <2>4, <3>1 DEF Billing, Committed, ClicksAreBilled, AuctionOf
  <2>5. CASE clicking'[q].viewId = clicking[q].viewId /\ key[a].status = "COMMITTED" /\ UNCHANGED <<key, billed>>
    BY <1>0, <2>1, <2>5 DEF Billing, Committed, ClicksAreBilled, AuctionOf
  <2> QED
    BY <1>0, <1>6, <2>2, <2>3, <2>4, <2>5, CommitEffect
<1>7. ASSUME NEW q \in Clickers, DedupClick(q) \/ RecheckClick(q) \/ CrashClick(q)
      PROVE  Billing'
  <2>1. UNCHANGED <<key, billed, views, clicks>>
    BY <1>7 DEF DedupClick, RecheckClick, CrashClick, viewVars
  <2>2. clicking[q] # Idle
    BY <1>7 DEF DedupClick, RecheckClick, CrashClick, Idle
  <2>3. /\ \/ clicking'[q] = Idle
           \/ Committed(q) /\ clicking'[q].viewId = clicking[q].viewId
        /\ \A r \in Clickers \ {q} : clicking'[r] = clicking[r]
    <3>1. CASE Stop(q)
      BY <1>0, <3>1, StopEffect
    <3>2. CASE Committed(q) /\ \E step \in ClickSteps : Step(q, step)
      BY <1>0, <2>2, <3>2, StepEffect
    <3> QED
      BY <1>7, <3>1, <3>2 DEF DedupClick, RecheckClick, CrashClick, Committed, ClickSteps
  <2> QED
    BY <1>0, <2>1, <2>3 DEF Billing, Committed, ClicksAreBilled, AuctionOf, Idle
<1>8. ASSUME NEW q \in Clickers, LogClick(q)
      PROVE  Billing'
  <2>1. /\ clicking[q].at = "log"
        /\ DOMAIN clicks' = DOMAIN clicks \union {Len(clicks) + 1}
        /\ \A i \in DOMAIN clicks : clicks'[i] = clicks[i]
        /\ clicks'[Len(clicks) + 1].viewId = clicking[q].viewId
        /\ clicking'[q] = Idle
        /\ \A r \in Clickers \ {q} : clicking'[r] = clicking[r]
        /\ UNCHANGED <<key, billed, views>>
    BY <1>0, <1>8, LogEffect
  <2>2. views[clicking[q].viewId] \in billed
    BY <1>0, <2>1 DEF Billing, Committed
  <2> QED
    BY <1>0, <2>1, <2>2 DEF Billing, Committed, ClicksAreBilled, AuctionOf, Idle
<1>9. ASSUME NEW i \in DOMAIN clicks, IncrementSpent(i) \/ PayPublisherRevenue(i)
      PROVE  Billing'
  <2>1. /\ DOMAIN clicks' = DOMAIN clicks
        /\ \A j \in DOMAIN clicks : clicks'[j].viewId = clicks[j].viewId
        /\ UNCHANGED <<key, billed, views, clicking>>
    BY <1>0, <1>9, FollowUpEffect
  <2> QED
    BY <1>0, <2>1 DEF Billing, Committed, ClicksAreBilled, AuctionOf
<1>10. CASE Tick
  <2>1. /\ \A a \in Auctions : key'[a] = key[a] \/ (key'[a].status = "missing" /\ key[a].status # "RESERVED")
        /\ UNCHANGED <<billed, views, clicking, clicks>>
    BY <1>0, <1>10, TickEffect
  <2> QED
    BY <1>0, <2>1 DEF Billing, Committed, ClicksAreBilled, AuctionOf
<1>11. ASSUME NEW w \in Viewers, NEW a \in Auctions, StartView(w, a)
       PROVE  Billing'
  BY <1>3, <1>11 DEF StartView, clickVars
<1>12. ASSUME NEW w \in Viewers, AcquireView(w) \/ PeekView(w) \/ PublishView(w) \/ CrashView(w)
       PROVE  Billing'
  BY <1>3, <1>12 DEF AcquireView, PeekView, PublishView, CrashView, clickVars
<1>13. CASE UNCHANGED vars
  BY <1>3, <1>13 DEF vars, viewVars, clickVars
<1> QED
  BY <1>0, <1>1, <1>2, <1>4, <1>5, <1>6, <1>7, <1>8, <1>9, <1>10, <1>11, <1>12, <1>13, Cases

-----------------------------------------------------------------------------
(***************************************************************************)
(* Every key was set by now, and no click request is older than CallLife.  *)
(***************************************************************************)
LEMMA OnTimeKept ==
    ASSUME ClickInv, [Next]_vars
    PROVE  OnTime'
<1>0. ClickTypes /\ OnTime
  BY DEF ClickInv
<1>t. /\ clock \in Nat /\ {HoldTtl, ViewTtl, MarkerTtl} \subseteq Nat \ {0} /\ CallLife \in Nat
      /\ \A p \in Pages : viewKey[p].ttlEnd \in Nat
  BY <1>0, ClickAssumption DEF ClickTypes
<1>k. ASSUME NEW a \in Auctions
      PROVE  /\ key[a].status = "RESERVED" => key[a].expiresAt \in Nat
             /\ key[a].status \in {"COMMITTED", "RELEASED"} => key[a].ttlEnd \in Nat
  BY <1>0 DEF ClickTypes, Missing
<1>1. ASSUME NEW a \in Auctions, Decide(a)
      PROVE  OnTime'
  BY <1>0, <1>t, <1>1, DecideEffect DEF OnTime
<1>2. ASSUME NEW a \in Auctions, ReleaseOnly(a)
      PROVE  OnTime'
  <2>1. End(a, "RELEASED")
    BY <1>2 DEF ReleaseOnly
  <2>2. /\ key'[a].status = "RELEASED"
        /\ \A b \in Auctions \ {a} : key'[b] = key[b]
    BY <1>0, <2>1, EndEffect
  <2> QED
    BY <1>0, <1>2, <2>2 DEF OnTime, ReleaseOnly
<1>3. CASE UNCHANGED <<clock, key, viewKey, clicking>>
  BY <1>0, <1>3 DEF OnTime
<1>4. ASSUME NEW w \in Viewers, AcquireView(w) \/ PublishView(w)
      PROVE  OnTime'
  <2>1. UNCHANGED <<clock, key, clicking>>
    BY <1>4 DEF AcquireView, PublishView, clickVars
  <2>2. \A p \in Pages : viewKey'[p] = viewKey[p] \/ viewKey'[p].ttlEnd = clock + ViewTtl
    BY <1>0, <1>4 DEF AcquireView, PublishView, ClickTypes
  <2> QED
    BY <1>0, <1>t, <2>1, <2>2 DEF OnTime
<1>5. ASSUME NEW q \in Clickers, NEW v \in DOMAIN views, StartClick(q, v)
      PROVE  OnTime'
  <2>1. /\ clicking'[q].since = clock
        /\ \A r \in Clickers \ {q} : clicking'[r] = clicking[r]
        /\ UNCHANGED <<clock, key, viewKey>>
    BY <1>0, <1>5 DEF StartClick, ClickTypes, viewVars
  <2> QED
    BY <1>0, <1>t, <2>1 DEF OnTime
<1>6. ASSUME NEW q \in Clickers, CommitClick(q)
      PROVE  OnTime'
  <2> DEFINE a == views[clicking[q].viewId]
  <2>1. /\ a \in Auctions
        /\ clicking[q] # Idle
        /\ clicking'[q] = Idle \/ clicking'[q].since = clicking[q].since
        /\ \A r \in Clickers \ {q} : clicking'[r] = clicking[r]
        /\ UNCHANGED <<clock, viewKey>>
    BY <1>0, <1>6, CommitEffect
  <2>2. \A r \in Clickers : clicking'[r] # Idle =>
           clicking'[r].since <= clock /\ clock <= clicking'[r].since + CallLife
    BY <1>0, <2>1 DEF OnTime
  <2>3. CASE UNCHANGED key
    BY <1>0, <2>1, <2>2, <2>3 DEF OnTime
  <2>4. CASE \E status \in {"COMMITTED", "RELEASED"} : End(a, status)
    <3>1. /\ key'[a].status # "RESERVED"
          /\ key'[a].ttlEnd = clock + MarkerTtl
          /\ \A b \in Auctions \ {a} : key'[b] = key[b]
      BY <1>0, <2>1, <2>4, EndEffect
    <3> QED
      BY <1>0, <1>t, <2>1, <2>2, <3>1 DEF OnTime
  <2> QED
    BY <1>0, <1>6, <2>3, <2>4, CommitEffect
<1>7. ASSUME NEW q \in Clickers, DedupClick(q) \/ RecheckClick(q) \/ LogClick(q) \/ CrashClick(q)
      PROVE  OnTime'
  <2>1. UNCHANGED <<clock, key, viewKey>>
    BY <1>7 DEF DedupClick, RecheckClick, LogClick, CrashClick, viewVars
  <2>2. clicking[q] # Idle
    BY <1>7 DEF DedupClick, RecheckClick, LogClick, CrashClick, Idle
  <2>3. /\ clicking'[q] = Idle \/ clicking'[q].since = clicking[q].since
        /\ \A r \in Clickers \ {q} : clicking'[r] = clicking[r]
    <3>1. CASE Stop(q)
      BY <1>0, <3>1, StopEffect
    <3>2. CASE \E step \in ClickSteps : Step(q, step)
      BY <1>0, <2>2, <3>2, StepEffect
    <3> QED
      BY <1>7, <3>1, <3>2 DEF DedupClick, RecheckClick, LogClick, CrashClick, ClickSteps
  <2> QED
    BY <1>0, <2>1, <2>2, <2>3 DEF OnTime
<1>8. CASE Tick
  <2>1. /\ clock' = clock + 1
        /\ \A q \in Clickers : clicking[q] # Idle => clock < clicking[q].since + CallLife
        /\ UNCHANGED <<viewKey, clicking>>
    BY <1>0, <1>8, TickEffect
  <2>2. ASSUME NEW q \in Clickers, clicking[q] # Idle
        PROVE  clicking[q].since <= clock + 1 /\ clock + 1 <= clicking[q].since + CallLife
    <3>1. clicking[q].since \in Nat /\ clicking[q].since <= clock /\ clock < clicking[q].since + CallLife
      BY <1>0, <2>1, <2>2, ClickRequest DEF OnTime
    <3> QED
      BY <1>t, <3>1
  <2>3. ASSUME NEW p \in Pages
        PROVE  viewKey[p].ttlEnd <= clock + 1 + ViewTtl
    BY <1>0, <1>t DEF OnTime
  <2>4. ASSUME NEW a \in Auctions
        PROVE  /\ key'[a].status = "RESERVED" => key'[a].expiresAt <= clock + 1 + HoldTtl
               /\ key'[a].status = "COMMITTED" =>
                     clock + 1 < key'[a].ttlEnd /\ key'[a].ttlEnd <= clock + 1 + MarkerTtl
    <3>1. CASE key'[a].status = "missing"
      BY <3>1
    <3>2. CASE /\ key'[a] = key[a]
               /\ key[a].status \in {"COMMITTED", "RELEASED"} => clock + 1 < key[a].ttlEnd
      BY <1>0, <1>t, <1>k, <3>2 DEF OnTime
    <3> QED
      BY <1>0, <1>8, <3>1, <3>2, TickEffect
  <2> QED
    BY <2>1, <2>2, <2>3, <2>4 DEF OnTime
<1>9. ASSUME NEW i \in DOMAIN clicks, IncrementSpent(i) \/ PayPublisherRevenue(i)
      PROVE  OnTime'
  BY <1>0, <1>3, <1>9, FollowUpEffect
<1>10. ASSUME NEW w \in Viewers, NEW a \in Auctions, StartView(w, a)
       PROVE  OnTime'
  BY <1>3, <1>10 DEF StartView, clickVars
<1>11. ASSUME NEW w \in Viewers, PeekView(w) \/ SaveView(w) \/ CrashView(w)
       PROVE  OnTime'
  BY <1>3, <1>11 DEF PeekView, SaveView, CrashView, clickVars
<1>12. CASE UNCHANGED vars
  BY <1>3, <1>12 DEF vars, viewVars, clickVars
<1> QED
  BY <1>0, <1>1, <1>2, <1>4, <1>5, <1>6, <1>7, <1>8, <1>9, <1>10, <1>11, <1>12, Cases

-----------------------------------------------------------------------------
(***************************************************************************)
(* With TTLs that deduplicate, an auction has one view while it can be     *)
(* clicked: the page is locked at least that long.                         *)
(***************************************************************************)
LEMMA AcquireEffect ==
    ASSUME ClickTypes, NEW w \in Viewers, AcquireView(w)
    PROVE  LET p == PageOf[viewing[w].auction] IN
           /\ viewing[w] # Idle /\ viewing[w].at = "acquire"
           /\ viewing[w].auction \in Auctions /\ p \in Pages
           /\ viewing'[w].auction = viewing[w].auction
           /\ \/ viewing'[w].at = "peek" /\ viewKey' = viewKey
              \/ /\ viewing'[w].at = "save"
                 /\ viewKey[p].ttlEnd <= clock
                 /\ viewKey'[p].ttlEnd = clock + ViewTtl
                 /\ \A r \in Pages \ {p} : viewKey'[r] = viewKey[r]
           /\ \A x \in Viewers \ {w} : viewing'[x] = viewing[x]
           /\ UNCHANGED <<clock, key, views, shown, billed, clickKey, clicking, clicks>>
<1> DEFINE p == PageOf[viewing[w].auction]
<1>1. viewing[w] # Idle /\ viewing[w].at = "acquire"
  BY DEF AcquireView, Idle
<1>2. viewing[w].auction \in Auctions /\ p \in Pages
  BY <1>1, ViewRequest DEF Pages
<1>3. clock \in Nat /\ viewKey[p].ttlEnd \in Nat
  BY <1>2 DEF ClickTypes
<1>4. "peek" \in ViewSteps /\ "save" \in ViewSteps
  BY DEF ViewSteps
<1>5. CASE KeyTaken(p)
  <2>1. Goto(w, "peek", 0) /\ viewKey' = viewKey
    BY <1>5 DEF AcquireView
  <2> QED
    BY <1>1, <1>2, <1>4, <2>1, GotoEffect DEF AcquireView, clickVars
<1>6. CASE ~KeyTaken(p)
  <2>1. Goto(w, "save", 0) /\ viewKey' = [viewKey EXCEPT ![p] = [viewId |-> 0, ttlEnd |-> clock + ViewTtl]]
    BY <1>6 DEF AcquireView
  <2>2. viewKey[p].ttlEnd <= clock
    BY <1>3, <1>6 DEF KeyTaken
  <2>3. viewKey'[p].ttlEnd = clock + ViewTtl /\ \A r \in Pages \ {p} : viewKey'[r] = viewKey[r]
    BY <1>2, <2>1 DEF ClickTypes
  <2> QED
    BY <1>1, <1>2, <1>4, <2>1, <2>2, <2>3, GotoEffect DEF AcquireView, clickVars
<1> QED
  BY <1>5, <1>6

LEMMA PublishEffect ==
    ASSUME ClickTypes, NEW w \in Viewers, PublishView(w)
    PROVE  LET p == PageOf[viewing[w].auction] IN
           /\ p \in Pages
           /\ viewKey'[p].ttlEnd = clock + ViewTtl
           /\ \A r \in Pages \ {p} : viewKey'[r] = viewKey[r]
           /\ viewing'[w] = Idle
           /\ \A x \in Viewers \ {w} : viewing'[x] = viewing[x]
           /\ UNCHANGED <<clock, key, views, billed, clickKey, clicking, clicks>>
<1>1. viewing[w] # Idle
  BY DEF PublishView, Idle
<1>2. PageOf[viewing[w].auction] \in Pages
  BY <1>1, ViewRequest DEF Pages
<1> QED
  BY <1>1, <1>2 DEF PublishView, Answer, ClickTypes, clickVars

\* A view request that starts, finds its page taken or ends logs nothing more.
LEMMA NoMoreViews ==
    ASSUME ClickTypes, NEW w \in Viewers,
           PeekView(w) \/ CrashView(w) \/ \E a \in Auctions : StartView(w, a)
    PROVE  /\ \A x \in Viewers, a \in Auctions : Saving(x, a)' => Saving(x, a)
           /\ UNCHANGED <<clock, key, views, viewKey, billed, clickKey, clicking, clicks>>
<1>1. CASE PeekView(w) \/ CrashView(w)
  <2>1. viewing'[w] = Idle /\ \A x \in Viewers \ {w} : viewing'[x] = viewing[x]
    BY <1>1 DEF PeekView, CrashView, Answer, ClickTypes
  <2>2. \A x \in Viewers, a \in Auctions : Saving(x, a)' => Saving(x, a)
    BY <2>1 DEF Saving, Idle
  <2> QED
    BY <1>1, <2>2 DEF PeekView, CrashView, clickVars
<1>2. ASSUME NEW a \in Auctions, StartView(w, a)
      PROVE  /\ \A x \in Viewers, b \in Auctions : Saving(x, b)' => Saving(x, b)
             /\ UNCHANGED <<clock, key, views, viewKey, billed, clickKey, clicking, clicks>>
  BY <1>2 DEF StartView, Saving, ClickTypes, clickVars
<1> QED
  BY <1>1, <1>2

\* No page key that is set now ends before what it guards.
LEMMA KeyOutlasts ==
    ASSUME ClickTypes, OnTime, Deduplicating, NEW a \in Auctions
    PROVE  /\ key[a].status = "RESERVED" => key[a].expiresAt + MarkerTtl <= clock + ViewTtl
           /\ key[a].status = "COMMITTED" => key[a].ttlEnd <= clock + ViewTtl
<1>1. /\ key[a].status = "RESERVED" => key[a].expiresAt \in Nat
      /\ key[a].status = "COMMITTED" => key[a].ttlEnd \in Nat
      /\ clock \in Nat
  BY DEF ClickTypes, Missing
<1>2. {HoldTtl, ViewTtl, MarkerTtl} \subseteq Nat
  BY ClickAssumption
<1> QED
  BY <1>1, <1>2 DEF OnTime, Deduplicating

LEMMA PageIsLockedKept ==
    ASSUME ClickInv, [Next]_vars, Deduplicating
    PROVE  PageIsLocked'
<1>0. ClickTypes /\ OnTime /\ PageIsLocked
  BY DEF ClickInv, Locks
<1>p. \A a \in Auctions : PageOf[a] \in Pages
  BY DEF Pages
<1> DEFINE Lasts(a) ==
             /\ key[a].status = "RESERVED" =>
                   key[a].expiresAt + MarkerTtl <= viewKey[PageOf[a]].ttlEnd
             /\ key[a].status = "COMMITTED" => key[a].ttlEnd <= viewKey[PageOf[a]].ttlEnd
<1>a. PageIsLocked <=> \A a \in Auctions : Viewed(a) => Lasts(a)
  BY DEF PageIsLocked
<1>b. PageIsLocked' <=> \A a \in Auctions : Viewed(a)' => Lasts(a)'
  BY DEF PageIsLocked
<1>1. ASSUME NEW a \in Auctions, Decide(a)
      PROVE  PageIsLocked'
  <2>1. ~Viewed(a)'
    BY <1>0, <1>1, DecideEffect DEF Viewed, Saving, Idle
  <2>2. ASSUME NEW b \in Auctions \ {a}, Viewed(b)'
        PROVE  Lasts(b)'
    <3>1. Viewed(b)
      BY <1>0, <1>1, <2>2, DecideEffect DEF Viewed, Saving
    <3>2. Lasts(b)
      BY <1>0, <1>a, <3>1
    <3> QED
      BY <1>0, <1>1, <3>2, DecideEffect
  <2> QED
    BY <1>b, <2>1, <2>2
<1>2. ASSUME NEW a \in Auctions, ReleaseOnly(a)
      PROVE  PageIsLocked'
  <2>1. End(a, "RELEASED")
    BY <1>2 DEF ReleaseOnly
  <2>2. /\ key'[a].status = "RELEASED"
        /\ \A b \in Auctions \ {a} : key'[b] = key[b]
    BY <1>0, <2>1, EndEffect
  <2> QED
    BY <1>0, <1>2, <2>2 DEF PageIsLocked, Viewed, Saving, ReleaseOnly
<1>3. CASE UNCHANGED <<key, views, viewKey, viewing>>
  BY <1>0, <1>3 DEF PageIsLocked, Viewed, Saving
<1>4. ASSUME NEW w \in Viewers, AcquireView(w)
      PROVE  PageIsLocked'
  <2> DEFINE p == PageOf[viewing[w].auction]
  <2>1. /\ \A x \in Viewers \ {w} : viewing'[x] = viewing[x]
        /\ viewing'[w].auction = viewing[w].auction
        /\ p \in Pages
        /\ UNCHANGED <<clock, key, views>>
    BY <1>0, <1>4, AcquireEffect
  <2>2. CASE viewing'[w].at = "peek" /\ viewKey' = viewKey
    BY <1>0, <2>1, <2>2 DEF PageIsLocked, Viewed, Saving
  <2>3. CASE viewKey'[p].ttlEnd = clock + ViewTtl /\ \A r \in Pages \ {p} : viewKey'[r] = viewKey[r]
    <3>1. ASSUME NEW a \in Auctions, Viewed(a)', PageOf[a] = p
          PROVE  Lasts(a)'
      BY <1>0, <2>1, <2>3, <3>1, KeyOutlasts
    <3>2. ASSUME NEW a \in Auctions, Viewed(a)', PageOf[a] # p
          PROVE  Lasts(a)'
      <4>1. Viewed(a)
        BY <2>1, <3>2 DEF Viewed, Saving
      <4>2. Lasts(a)
        BY <1>0, <1>a, <4>1
      <4> QED
        BY <1>p, <2>1, <2>3, <3>2, <4>2
    <3> QED
      BY <1>b, <3>1, <3>2
  <2> QED
    BY <1>0, <1>4, <2>2, <2>3, AcquireEffect
<1>5. ASSUME NEW w \in Viewers, PublishView(w)
      PROVE  PageIsLocked'
  <2> DEFINE p == PageOf[viewing[w].auction]
  <2>1. /\ \A x \in Viewers \ {w} : viewing'[x] = viewing[x]
        /\ viewing'[w] = Idle
        /\ p \in Pages
        /\ viewKey'[p].ttlEnd = clock + ViewTtl
        /\ \A r \in Pages \ {p} : viewKey'[r] = viewKey[r]
        /\ UNCHANGED <<clock, key, views>>
    BY <1>0, <1>5, PublishEffect
  <2>2. ASSUME NEW a \in Auctions, Viewed(a)', PageOf[a] = p
        PROVE  Lasts(a)'
    BY <1>0, <2>1, <2>2, KeyOutlasts
  <2>3. ASSUME NEW a \in Auctions, Viewed(a)', PageOf[a] # p
        PROVE  Lasts(a)'
    <3>1. Viewed(a)
      BY <2>1, <2>3 DEF Viewed, Saving, Idle
    <3>2. Lasts(a)
      BY <1>0, <1>a, <3>1
    <3> QED
      BY <1>p, <2>1, <2>3, <3>2
  <2> QED
    BY <1>b, <2>2, <2>3
<1>6. ASSUME NEW w \in Viewers, SaveView(w)
      PROVE  PageIsLocked'
  <2>1. \A a \in Auctions : Viewed(a)' => Viewed(a)
    BY <1>0, <1>6, SaveEffect DEF Viewed, Saving
  <2>2. UNCHANGED <<key, viewKey>>
    BY <1>0, <1>6, SaveEffect
  <2> QED
    BY <1>0, <2>1, <2>2 DEF PageIsLocked
<1>7. ASSUME NEW w \in Viewers, PeekView(w) \/ CrashView(w) \/ \E a \in Auctions : StartView(w, a)
      PROVE  PageIsLocked'
  <2>1. \A a \in Auctions : Viewed(a)' => Viewed(a)
    BY <1>0, <1>7, NoMoreViews DEF Viewed
  <2>2. UNCHANGED <<key, viewKey>>
    BY <1>0, <1>7, NoMoreViews
  <2> QED
    BY <1>0, <2>1, <2>2 DEF PageIsLocked
<1>8. ASSUME NEW q \in Clickers, CommitClick(q)
      PROVE  PageIsLocked'
  <2>1. UNCHANGED <<clock, views, viewKey, viewing>>
    BY <1>0, <1>8, CommitEffect
  <2>a. PICK a \in Auctions : a = views[clicking[q].viewId]
    BY <1>0, <1>8, CommitEffect
  <2>2. CASE UNCHANGED key
    BY <1>3, <2>1, <2>2
  <2>3. CASE End(a, "RELEASED")
    <3>1. /\ key'[a].status = "RELEASED"
          /\ \A b \in Auctions \ {a} : key'[b] = key[b]
      BY <1>0, <2>3, EndEffect
    <3> QED
      BY <1>0, <2>1, <3>1 DEF PageIsLocked, Viewed, Saving
  <2>4. CASE ~Over(a) /\ End(a, "COMMITTED")
    <3>1. /\ key[a].status = "RESERVED"
          /\ key'[a].status = "COMMITTED"
          /\ key'[a].ttlEnd = clock + MarkerTtl
          /\ \A b \in Auctions \ {a} : key'[b] = key[b]
      BY <1>0, <2>4, EndEffect
    <3>2. ASSUME Viewed(a)
          PROVE  Lasts(a)'
      <4>1. key[a].expiresAt + MarkerTtl <= viewKey[PageOf[a]].ttlEnd
        BY <1>0, <1>a, <2>1, <3>1, <3>2
      <4>2. ~(key[a].expiresAt <= clock)
        BY <2>4, <3>1 DEF Over
      <4>3. /\ key[a].expiresAt \in Nat /\ clock \in Nat /\ MarkerTtl \in Nat
            /\ viewKey[PageOf[a]].ttlEnd \in Nat
        <5>1. key[a].expiresAt \in Nat /\ clock \in Nat
          BY <1>0, <3>1, KeyType
        <5>2. viewKey[PageOf[a]].ttlEnd \in Nat
          BY <1>0, <1>p DEF ClickTypes
        <5> QED
          BY <5>1, <5>2, ClickAssumption
      <4>4. clock + MarkerTtl <= viewKey[PageOf[a]].ttlEnd
        BY <4>1, <4>2, <4>3
      <4> QED
        BY <2>1, <3>1, <4>4
    <3>3. ASSUME NEW b \in Auctions \ {a}, Viewed(b)
          PROVE  Lasts(b)'
      <4>1. Lasts(b)
        BY <1>0, <1>a, <3>3
      <4> QED
        BY <2>1, <3>1, <4>1
    <3>4. \A b \in Auctions : Viewed(b)' => Viewed(b)
      BY <2>1 DEF Viewed, Saving
    <3> QED
      BY <1>b, <3>2, <3>3, <3>4
  <2> QED
    BY <1>0, <1>8, <2>a, <2>2, <2>3, <2>4, CommitEffect
<1>9. CASE Tick
  <2>1. /\ \A a \in Auctions : key'[a] = key[a] \/ key'[a].status = "missing"
        /\ UNCHANGED <<views, viewKey, viewing>>
    BY <1>0, <1>9, TickEffect
  <2> QED
    BY <1>0, <2>1 DEF PageIsLocked, Viewed, Saving
<1>10. ASSUME NEW q \in Clickers,
              \/ \E v \in DOMAIN views : StartClick(q, v)
              \/ DedupClick(q) \/ RecheckClick(q) \/ LogClick(q) \/ CrashClick(q)
       PROVE  PageIsLocked'
  BY <1>3, <1>10 DEF StartClick, DedupClick, RecheckClick, LogClick, CrashClick, viewVars
<1>11. ASSUME NEW i \in DOMAIN clicks, IncrementSpent(i) \/ PayPublisherRevenue(i)
       PROVE  PageIsLocked'
  BY <1>0, <1>3, <1>11, FollowUpEffect
<1>12. CASE UNCHANGED vars
  BY <1>3, <1>12 DEF vars, viewVars, clickVars
<1> HIDE DEF Lasts
<1> QED
  BY <1>0, <1>1, <1>2, <1>4, <1>5, <1>6, <1>7, <1>8, <1>9, <1>10, <1>11, <1>12, Cases

\* An auction that is over is never open again once it is looked at.
LEMMA OverIsOver ==
    ASSUME ClickInv, [Next]_vars, NEW a \in Auctions, Over(a)
    PROVE  Over(a)' \/ Decide(a)
<1>0. ClickTypes
  BY DEF ClickInv
<1>1. ASSUME NEW b \in Auctions, b # a, Decide(b)
      PROVE  Over(a)'
  BY <1>0, <1>1, DecideEffect DEF Over
<1>2. ASSUME NEW b \in Auctions, NEW status \in {"COMMITTED", "RELEASED"}, End(b, status), UNCHANGED clock,
             ~Over(b) \/ status = "RELEASED"
      PROVE  Over(a)'
  BY <1>0, <1>2, EndEffect DEF Over
<1>3. ASSUME UNCHANGED <<clock, key>>
      PROVE  Over(a)'
  BY <1>3 DEF Over
<1>4. CASE Tick
  <2>1. clock \in Nat /\ clock' = clock + 1
    BY <1>0, <1>4, TickEffect DEF ClickTypes
  <2>2. key'[a] = key[a] \/ key'[a].status = "missing"
    BY <1>0, <1>4, TickEffect
  <2>3. key[a].status = "RESERVED" => key[a].expiresAt \in Nat
    BY <1>0, KeyType
  <2> QED
    BY <2>1, <2>2, <2>3 DEF Over
<1>5. ASSUME NEW b \in Auctions, ReleaseOnly(b)
      PROVE  Over(a)'
  BY <1>2, <1>5 DEF ReleaseOnly
<1>6. ASSUME NEW q \in Clickers, CommitClick(q)
      PROVE  Over(a)'
  <2>a. PICK b \in Auctions : b = views[clicking[q].viewId]
    BY <1>0, <1>6, CommitEffect
  <2>1. UNCHANGED clock
    BY <1>0, <1>6, CommitEffect
  <2>2. CASE UNCHANGED key
    BY <1>3, <2>1, <2>2
  <2>3. CASE End(b, "RELEASED")
    BY <1>2, <2>1, <2>3
  <2>4. CASE ~Over(b) /\ End(b, "COMMITTED")
    BY <1>2, <2>1, <2>4
  <2> QED
    BY <1>0, <1>6, <2>a, <2>2, <2>3, <2>4, CommitEffect
<1>7. ASSUME NEW w \in Viewers,
             \/ \E b \in Auctions : StartView(w, b)
             \/ AcquireView(w) \/ PeekView(w) \/ SaveView(w) \/ PublishView(w) \/ CrashView(w)
      PROVE  Over(a)'
  BY <1>3, <1>7 DEF StartView, AcquireView, PeekView, SaveView, PublishView, CrashView, viewVars, clickVars
<1>8. ASSUME NEW q \in Clickers,
              \/ \E v \in DOMAIN views : StartClick(q, v)
              \/ DedupClick(q) \/ RecheckClick(q) \/ LogClick(q) \/ CrashClick(q)
      PROVE  Over(a)'
  BY <1>3, <1>8 DEF StartClick, DedupClick, RecheckClick, LogClick, CrashClick, viewVars, clickVars
<1>9. ASSUME NEW i \in DOMAIN clicks, IncrementSpent(i) \/ PayPublisherRevenue(i)
      PROVE  Over(a)'
  BY <1>3, <1>9 DEF IncrementSpent, PayPublisherRevenue, viewVars
<1>10. CASE UNCHANGED vars
  BY <1>3, <1>10 DEF vars, viewVars, clickVars
<1> QED
  BY <1>0, <1>1, <1>4, <1>5, <1>6, <1>7, <1>8, <1>9, <1>10, Cases

LEMMA OneViewKept ==
    ASSUME ClickInv, [Next]_vars, Deduplicating
    PROVE  OneView'
<1>0. ClickTypes /\ OnTime /\ PageIsLocked /\ OneView
  BY DEF ClickInv, Locks
<1>1. SUFFICES ASSUME NEW a \in Auctions, ~Over(a)'
               PROVE  /\ \A u, v \in DOMAIN views' : views'[u] = a /\ views'[v] = a => u = v
                      /\ \A v \in DOMAIN views', w \in Viewers : ~(views'[v] = a /\ Saving(w, a)')
                      /\ \A w, x \in Viewers : Saving(w, a)' /\ Saving(x, a)' => w = x
  BY DEF OneView
<1>2. CASE Decide(a)
  <2>1. /\ \A v \in DOMAIN views' : views'[v] # a
        /\ \A w \in Viewers : ~Saving(w, a)'
    BY <1>0, <1>2, DecideEffect DEF Saving, Idle
  <2> QED
    BY <2>1
<1>3. CASE ~Decide(a)
  <2>0. ~Over(a)
    BY <1>1, <1>3, OverIsOver
  <2>1. /\ \A u, v \in DOMAIN views : views[u] = a /\ views[v] = a => u = v
        /\ \A v \in DOMAIN views, w \in Viewers : ~(views[v] = a /\ Saving(w, a))
        /\ \A w, x \in Viewers : Saving(w, a) /\ Saving(x, a) => w = x
    BY <1>0, <2>0 DEF OneView
  <2>2. CASE views' = views /\ \A w \in Viewers : Saving(w, a)' => Saving(w, a)
    BY <2>1, <2>2
  <2>3. CASE UNCHANGED <<views, viewing>>
    BY <2>2, <2>3 DEF Saving
  <2>4. ASSUME NEW w \in Viewers, AcquireView(w)
        PROVE  \/ views' = views /\ \A x \in Viewers : Saving(x, a)' => Saving(x, a)
               \/ /\ views' = views
                  /\ \A v \in DOMAIN views : views[v] # a
                  /\ \A x \in Viewers : Saving(x, a)' => x = w
    <3>1. /\ \A x \in Viewers \ {w} : viewing'[x] = viewing[x]
          /\ viewing'[w].auction = viewing[w].auction
          /\ views' = views
      BY <1>0, <2>4, AcquireEffect
    <3>2. CASE viewing'[w].at = "peek" \/ viewing[w].auction # a
      BY <3>1, <3>2 DEF Saving
    <3>3. CASE viewKey[PageOf[a]].ttlEnd <= clock /\ viewing[w].auction = a
      <4>1. ~Viewed(a)
        <5>1. SUFFICES ASSUME Viewed(a) PROVE FALSE
          OBVIOUS
        <5>2. /\ key[a].status = "RESERVED" =>
                    key[a].expiresAt + MarkerTtl <= viewKey[PageOf[a]].ttlEnd
              /\ key[a].status = "COMMITTED" => key[a].ttlEnd <= viewKey[PageOf[a]].ttlEnd
          BY <1>0, <5>1 DEF PageIsLocked
        <5>3. /\ key[a].status \in {"RESERVED", "COMMITTED"}
              /\ key[a].status = "RESERVED" => ~(key[a].expiresAt <= clock)
          <6>1. key[a].status \in {"RESERVED", "COMMITTED", "RELEASED", "missing"}
            BY <1>0 DEF ClickTypes, Missing
          <6> QED
            BY <2>0, <6>1 DEF Over
        <5>4. viewKey[PageOf[a]].ttlEnd \in Nat /\ MarkerTtl \in Nat
          BY <1>0, ClickAssumption DEF ClickTypes, Pages
        <5>5. key[a].status = "COMMITTED" => clock < key[a].ttlEnd
          BY <1>0 DEF OnTime
        <5> QED
          BY <1>0, <3>3, <5>2, <5>3, <5>4, <5>5, KeyType
      <4> QED
        BY <3>1, <4>1 DEF Viewed, Saving
    <3> QED
      BY <1>0, <2>4, <3>2, <3>3, AcquireEffect
  <2>5. ASSUME NEW w \in Viewers, SaveView(w)
        PROVE  /\ \A u, v \in DOMAIN views' : views'[u] = a /\ views'[v] = a => u = v
               /\ \A v \in DOMAIN views', x \in Viewers : ~(views'[v] = a /\ Saving(x, a)')
               /\ \A v, x \in Viewers : Saving(v, a)' /\ Saving(x, a)' => v = x
    <3> DEFINE n == Len(views) + 1
    <3>1. /\ viewing[w].at = "save"
          /\ DOMAIN views' = DOMAIN views \union {n}
          /\ \A v \in DOMAIN views : views'[v] = views[v]
          /\ views'[n] = viewing[w].auction
          /\ viewing'[w].at = "publish"
          /\ \A x \in Viewers \ {w} : viewing'[x] = viewing[x]
      BY <1>0, <2>5, SaveEffect
    <3>2. \A x \in Viewers : Saving(x, a)' => Saving(x, a) /\ x # w
      BY <3>1 DEF Saving
    <3>3. views'[n] = a => Saving(w, a)
      BY <3>1 DEF Saving
    <3> HIDE DEF n
    <3> QED
      BY <2>1, <3>1, <3>2, <3>3
  <2>6. ASSUME NEW w \in Viewers, PublishView(w)
        PROVE  views' = views /\ \A x \in Viewers : Saving(x, a)' => Saving(x, a)
    BY <1>0, <2>6, PublishEffect DEF Saving, Idle
  <2>7. ASSUME NEW w \in Viewers, PeekView(w) \/ CrashView(w) \/ \E b \in Auctions : StartView(w, b)
        PROVE  views' = views /\ \A x \in Viewers : Saving(x, a)' => Saving(x, a)
    BY <1>0, <2>7, NoMoreViews
  <2>8. CASE \E b \in Auctions : Decide(b) \/ ReleaseOnly(b)
    BY <1>0, <2>3, <2>8, DecideEffect DEF ReleaseOnly
  <2>9. CASE \E q \in Clickers :
               \/ \E v \in DOMAIN views : StartClick(q, v)
               \/ CommitClick(q) \/ DedupClick(q) \/ RecheckClick(q) \/ LogClick(q) \/ CrashClick(q)
    BY <2>3, <2>9 DEF StartClick, CommitClick, DedupClick, RecheckClick, LogClick, CrashClick, viewVars
  <2>10. CASE \/ \E i \in DOMAIN clicks : IncrementSpent(i) \/ PayPublisherRevenue(i)
              \/ Tick
              \/ UNCHANGED vars
    BY <2>3, <2>10 DEF IncrementSpent, PayPublisherRevenue, Tick, vars, viewVars
  <2>11. CASE \E w \in Viewers : AcquireView(w)
    BY <2>2, <2>4, <2>11
  <2>12. CASE \E w \in Viewers : SaveView(w)
    BY <2>5, <2>12
  <2>13. CASE \E w \in Viewers : PublishView(w) \/ PeekView(w) \/ CrashView(w) \/ \E b \in Auctions : StartView(w, b)
    BY <2>2, <2>6, <2>7, <2>13
  <2> QED
    BY <1>0, <2>8, <2>9, <2>10, <2>11, <2>12, <2>13, Cases
<1> QED
  BY <1>2, <1>3

LEMMA FirstKept ==
    ASSUME ClickInv, [Next]_vars, Deduplicating
    PROVE  FirstIsClicked'
<1>0. ClickTypes /\ OneView /\ FirstIsClicked
  BY DEF ClickInv, Locks
<1>t. /\ \A q \in Clickers : clicking[q] # Idle => clicking[q].viewId \in DOMAIN views
      /\ \A i \in DOMAIN clicks : clicks[i].viewId \in DOMAIN views
      /\ \A q \in Clickers : Committed(q) => clicking[q] # Idle
  BY <1>0, ClickRequest, Logged DEF Committed, Idle
<1>1. CASE UNCHANGED <<views, clicking, clicks>>
  BY <1>0, <1>1 DEF FirstIsClicked, First, Committed
<1>2. ASSUME NEW w \in Viewers, SaveView(w)
      PROVE  FirstIsClicked'
  <2>1. /\ DOMAIN views' = DOMAIN views \union {Len(views) + 1}
        /\ \A v \in DOMAIN views : v \in Nat /\ v < Len(views) + 1 /\ views'[v] = views[v]
        /\ UNCHANGED <<clicking, clicks>>
    BY <1>0, <1>2, SaveEffect
  <2>2. Len(views) \in Nat
    BY <1>0 DEF ClickTypes
  <2>3. ASSUME NEW v \in DOMAIN views, First(v)
        PROVE  First(v)'
    BY <2>1, <2>2, <2>3 DEF First
  <2> QED
    BY <1>0, <1>t, <2>1, <2>3 DEF FirstIsClicked, Committed
<1>3. ASSUME NEW q \in Clickers, NEW v \in DOMAIN views, StartClick(q, v)
      PROVE  FirstIsClicked'
  <2>1. /\ clicking'[q].at = "commit"
        /\ \A r \in Clickers \ {q} : clicking'[r] = clicking[r]
        /\ UNCHANGED <<views, clicks>>
    BY <1>0, <1>3 DEF StartClick, ClickTypes, viewVars
  <2> QED
    BY <1>0, <2>1 DEF FirstIsClicked, First, Committed
<1>4. ASSUME NEW q \in Clickers, CommitClick(q)
      PROVE  FirstIsClicked'
  <2>1. /\ clicking[q].viewId \in DOMAIN views
        /\ \A r \in Clickers \ {q} : clicking'[r] = clicking[r]
        /\ UNCHANGED <<views, clicks>>
    BY <1>0, <1>4, CommitEffect
  <2>2. CASE clicking'[q] = Idle
    BY <1>0, <2>1, <2>2 DEF FirstIsClicked, First, Committed, Idle
  <2>3. CASE /\ clicking'[q].viewId = clicking[q].viewId
             /\ \/ ~Over(views[clicking[q].viewId])
                \/ key[views[clicking[q].viewId]].status = "COMMITTED"
    <3>a. PICK a \in Auctions : a = views[clicking[q].viewId]
      BY <1>0, <1>4, CommitEffect
    <3>1. ~Over(a)
      BY <2>3, <3>a DEF Over
    <3>2. \A u, v \in DOMAIN views : views[u] = a /\ views[v] = a => u = v
      BY <1>0, <3>1 DEF OneView
    <3>3. clicking[q].viewId \in Nat
      BY <1>0, <2>1 DEF ClickTypes
    <3>4. First(clicking[q].viewId)
      BY <2>1, <3>a, <3>2, <3>3 DEF First
    <3> QED
      BY <1>0, <2>1, <2>3, <3>4 DEF FirstIsClicked, First, Committed
  <2> QED
    BY <1>0, <1>4, <2>2, <2>3, CommitEffect
<1>5. ASSUME NEW q \in Clickers, DedupClick(q) \/ RecheckClick(q) \/ CrashClick(q)
      PROVE  FirstIsClicked'
  <2>1. UNCHANGED <<views, clicks>>
    BY <1>5 DEF DedupClick, RecheckClick, CrashClick, viewVars
  <2>2. clicking[q] # Idle
    BY <1>5 DEF DedupClick, RecheckClick, CrashClick, Idle
  <2>3. /\ \/ clicking'[q] = Idle
           \/ Committed(q) /\ clicking'[q].viewId = clicking[q].viewId
        /\ \A r \in Clickers \ {q} : clicking'[r] = clicking[r]
    <3>1. CASE Stop(q)
      BY <1>0, <3>1, StopEffect
    <3>2. CASE Committed(q) /\ \E step \in ClickSteps : Step(q, step)
      BY <1>0, <2>2, <3>2, StepEffect
    <3> QED
      BY <1>5, <3>1, <3>2 DEF DedupClick, RecheckClick, CrashClick, Committed, ClickSteps
  <2> QED
    BY <1>0, <2>1, <2>3 DEF FirstIsClicked, First, Committed, Idle
<1>6. ASSUME NEW q \in Clickers, LogClick(q)
      PROVE  FirstIsClicked'
  <2>1. /\ clicking[q].at = "log"
        /\ DOMAIN clicks' = DOMAIN clicks \union {Len(clicks) + 1}
        /\ \A i \in DOMAIN clicks : clicks'[i] = clicks[i]
        /\ clicks'[Len(clicks) + 1].viewId = clicking[q].viewId
        /\ clicking'[q] = Idle
        /\ \A r \in Clickers \ {q} : clicking'[r] = clicking[r]
        /\ UNCHANGED views
    BY <1>0, <1>6, LogEffect
  <2>2. First(clicking[q].viewId)
    BY <1>0, <2>1 DEF FirstIsClicked, Committed
  <2>3. \A v : First(v)' <=> First(v)
    BY <2>1 DEF First
  <2> QED
    BY <1>0, <2>1, <2>2, <2>3 DEF FirstIsClicked, Committed, Idle
<1>7. ASSUME NEW i \in DOMAIN clicks, IncrementSpent(i) \/ PayPublisherRevenue(i)
      PROVE  FirstIsClicked'
  <2>1. /\ DOMAIN clicks' = DOMAIN clicks
        /\ \A j \in DOMAIN clicks : clicks'[j].viewId = clicks[j].viewId
        /\ UNCHANGED <<views, clicking>>
    BY <1>0, <1>7, FollowUpEffect
  <2> QED
    BY <1>0, <2>1 DEF FirstIsClicked, First, Committed
<1>8. ASSUME NEW a \in Auctions, Decide(a) \/ ReleaseOnly(a)
      PROVE  FirstIsClicked'
  BY <1>0, <1>1, <1>8, DecideEffect DEF ReleaseOnly
<1>9. ASSUME NEW w \in Viewers,
             \/ \E a \in Auctions : StartView(w, a)
             \/ AcquireView(w) \/ PeekView(w) \/ PublishView(w) \/ CrashView(w)
      PROVE  FirstIsClicked'
  BY <1>1, <1>9 DEF StartView, AcquireView, PeekView, PublishView, CrashView, clickVars
<1>10. CASE Tick \/ UNCHANGED vars
  BY <1>1, <1>10 DEF Tick, vars, viewVars, clickVars
<1> QED
  BY <1>0, <1>2, <1>3, <1>4, <1>5, <1>6, <1>7, <1>8, <1>9, <1>10, Cases

-----------------------------------------------------------------------------
(***************************************************************************)
(* With TTLs that deduplicate, the key of a click outlasts every request   *)
(* that finds the auction committed.  So it is set once, and the request   *)
(* that set it is the only one that logs.                                  *)
(***************************************************************************)
LEMMA DedupEffect ==
    ASSUME ClickInv, Deduplicating, NEW q \in Clickers, DedupClick(q)
    PROVE  LET v == clicking[q].viewId IN
           /\ clicking[q] # Idle /\ v \in DOMAIN views /\ v \in ViewIds
           /\ views[v] \in billed
           /\ clicking'[q].viewId = v /\ clicking'[q].since = clicking[q].since
           /\ \/ clicking'[q].at = "recheck" /\ clickKey[v] # 0 /\ clickKey' = clickKey
              \/ /\ clicking'[q].at = "log" /\ clickKey[v] = 0
                 /\ clickKey' = [clickKey EXCEPT ![v] = clock + ClickTtl]
           /\ \A r \in Clickers \ {q} : clicking'[r] = clicking[r]
           /\ UNCHANGED <<clock, key, billed, views, clicks>>
<1> DEFINE v == clicking[q].viewId
<1>0. ClickTypes /\ Room /\ Billing /\ OnTime /\ ClickIsLocked
  BY DEF ClickInv, Locks
<1>1. clicking[q] # Idle /\ clicking[q].at = "dedup"
  BY DEF DedupClick, Idle
<1>2. v \in DOMAIN views /\ clicking[q].since \in Nat
  BY <1>0, <1>1, ClickRequest
<1>3. v \in ViewIds
  BY <1>0, <1>2, ViewIdType DEF Unsaved
<1>4. clock \in Nat /\ clickKey[v] \in Nat
  BY <1>0, <1>3 DEF ClickTypes
<1>5. views[v] \in billed
  BY <1>0, <1>1 DEF Billing, Committed
<1>6. clickKey[v] # 0 => clock < clickKey[v]
  <2>1. clock <= clicking[q].since + CallLife
    BY <1>0, <1>1 DEF OnTime
  <2>2. clickKey[v] # 0 => clicking[q].since + CallLife < clickKey[v]
    BY <1>0, <1>1 DEF ClickIsLocked
  <2> QED
    BY <1>2, <1>4, <2>1, <2>2, ClickAssumption
<1>7. "recheck" \in ClickSteps /\ "log" \in ClickSteps
  BY DEF ClickSteps
<1>8. CASE clock < clickKey[v]
  <2>1. Step(q, "recheck") /\ clickKey' = clickKey
    BY <1>8 DEF DedupClick
  <2>2. clickKey[v] # 0
    BY <1>4, <1>8
  <2> QED
    BY <1>0, <1>1, <1>2, <1>3, <1>5, <1>7, <2>1, <2>2, StepEffect DEF DedupClick, viewVars
<1>9. CASE ~(clock < clickKey[v])
  <2>1. Step(q, "log") /\ clickKey' = [clickKey EXCEPT ![v] = clock + ClickTtl]
    BY <1>9 DEF DedupClick
  <2>2. clickKey[v] = 0
    BY <1>6, <1>9
  <2> QED
    BY <1>0, <1>1, <1>2, <1>3, <1>5, <1>7, <2>1, <2>2, StepEffect DEF DedupClick, viewVars
<1> QED
  BY <1>8, <1>9

\* A recheck finds the key still there.
LEMMA RecheckEffect ==
    ASSUME ClickInv, Deduplicating, NEW q \in Clickers, RecheckClick(q)
    PROVE  Stop(q)
<1> DEFINE v == clicking[q].viewId
<1>0. ClickTypes /\ Room /\ OnTime /\ ClickIsLocked
  BY DEF ClickInv, Locks
<1>1. clicking[q] # Idle /\ clicking[q].at = "recheck"
  BY DEF RecheckClick, Idle
<1>2. v \in DOMAIN views /\ clicking[q].since \in Nat
  BY <1>0, <1>1, ClickRequest
<1>3. v \in ViewIds
  BY <1>0, <1>2, ViewIdType DEF Unsaved
<1>4. clock \in Nat /\ clickKey[v] \in Nat
  BY <1>0, <1>3 DEF ClickTypes
<1>5. clock <= clicking[q].since + CallLife
  BY <1>0, <1>1 DEF OnTime
<1>6. clicking[q].since + CallLife < clickKey[v]
  BY <1>0, <1>1 DEF ClickIsLocked
<1>7. clock < clickKey[v]
  BY <1>2, <1>4, <1>5, <1>6, ClickAssumption
<1> QED
  BY <1>7 DEF RecheckClick

LEMMA ClickIsLockedKept ==
    ASSUME ClickInv, [Next]_vars, Deduplicating
    PROVE  ClickIsLocked'
<1>0. ClickTypes /\ Room /\ Billing /\ OnTime /\ ClickIsLocked
  BY DEF ClickInv, Locks
<1>t. /\ \A q \in Clickers : clicking[q] # Idle => clicking[q].viewId \in DOMAIN views
      /\ \A i \in DOMAIN clicks : clicks[i].viewId \in DOMAIN views
      /\ \A v \in DOMAIN views : views[v] \in Auctions /\ v \in ViewIds
      /\ \A q \in Clickers : clicking[q].at \in {"recheck", "log"} => clicking[q] # Idle
  BY <1>0, ClickRequest, Logged, Seen, ViewIdType DEF Idle, Unsaved
<1> DEFINE Outlasts(v) ==
             clickKey[v] # 0 =>
               /\ views[v] \in billed
               /\ key[views[v]].status = "COMMITTED" =>
                     key[views[v]].ttlEnd + CallLife <= clickKey[v]
           Waits(q) ==
             /\ (clicking[q] # Idle /\ clickKey[clicking[q].viewId] # 0) =>
                   clicking[q].since + CallLife < clickKey[clicking[q].viewId]
             /\ clicking[q].at \in {"recheck", "log"} => clickKey[clicking[q].viewId] # 0
           Rest == /\ \A v \in ViewIds : v \notin DOMAIN views => clickKey[v] = 0
                   /\ \A i \in DOMAIN clicks : clickKey[clicks[i].viewId] # 0
<1>a. /\ \A v \in DOMAIN views : Outlasts(v)
      /\ \A q \in Clickers : Waits(q)
      /\ Rest
  BY <1>0 DEF ClickIsLocked
<1>b. ASSUME /\ \A v \in DOMAIN views' : Outlasts(v)'
             /\ \A q \in Clickers : Waits(q)'
             /\ Rest'
      PROVE  ClickIsLocked'
  BY <1>b DEF ClickIsLocked
<1>1. ASSUME NEW a \in Auctions, Decide(a)
      PROVE  ClickIsLocked'
  <2>1. /\ \A b \in Auctions \ {a} : key'[b] = key[b]
        /\ \A v \in DOMAIN views : views[v] # a
        /\ UNCHANGED <<billed, views, clickKey, clicking, clicks>>
    BY <1>0, <1>1, DecideEffect
  <2>2. \A v \in DOMAIN views : Outlasts(v)'
    BY <1>a, <1>t, <2>1
  <2> QED
    BY <1>a, <1>b, <2>1, <2>2
<1>2. ASSUME NEW a \in Auctions, End(a, "RELEASED"), UNCHANGED <<billed, views, clickKey>>
      PROVE  \A v \in DOMAIN views : Outlasts(v)'
  <2>1. /\ key'[a].status = "RELEASED"
        /\ \A b \in Auctions \ {a} : key'[b] = key[b]
    BY <1>0, <1>2, EndEffect
  <2> QED
    BY <1>a, <1>t, <1>2, <2>1
<1>3. ASSUME NEW a \in Auctions, ReleaseOnly(a)
      PROVE  ClickIsLocked'
  <2>1. \A v \in DOMAIN views : Outlasts(v)'
    BY <1>2, <1>3 DEF ReleaseOnly
  <2> QED
    BY <1>a, <1>b, <1>3, <2>1 DEF ReleaseOnly
<1>4. CASE UNCHANGED <<key, billed, views, clickKey, clicking, clicks>>
  BY <1>0, <1>4 DEF ClickIsLocked
<1>5. ASSUME NEW w \in Viewers, SaveView(w)
      PROVE  ClickIsLocked'
  <2> DEFINE n == Len(views) + 1
  <2>1. /\ DOMAIN views' = DOMAIN views \union {n}
        /\ n \notin DOMAIN views
        /\ \A v \in DOMAIN views : views'[v] = views[v]
        /\ UNCHANGED <<key, billed, clickKey, clicking, clicks>>
    BY <1>0, <1>5, SaveEffect
  <2>2. n \in ViewIds
    <3>1. w \in Unsaved
      BY <1>0, <1>5, SaveEffect DEF Unsaved
    <3>2. Cardinality(Unsaved) >= 1
      BY <3>1, UnsavedIsFinite, FS_EmptySet
    <3>3. Len(views) \in Nat
      BY <1>0 DEF ClickTypes
    <3> QED
      BY <1>0, <3>2, <3>3, UnsavedIsFinite, ClickAssumption DEF Room, ViewIds
  <2>3. clickKey[n] = 0
    BY <1>a, <2>1, <2>2
  <2>4. \A v \in DOMAIN views' : Outlasts(v)'
    BY <1>a, <2>1, <2>3
  <2> HIDE DEF n
  <2> QED
    BY <1>a, <1>b, <2>1, <2>4
<1>6. ASSUME NEW q \in Clickers, NEW v \in DOMAIN views, StartClick(q, v)
      PROVE  ClickIsLocked'
  <2>1. /\ clicking'[q] = [at |-> "commit", viewId |-> v, since |-> clock]
        /\ \A r \in Clickers \ {q} : clicking'[r] = clicking[r]
        /\ UNCHANGED <<key, billed, views, clickKey, clicks>>
    BY <1>0, <1>6 DEF StartClick, ClickTypes, viewVars
  <2>2. clickKey[v] # 0 => clock + CallLife < clickKey[v]
    <3>1. SUFFICES ASSUME clickKey[v] # 0
                   PROVE  clock + CallLife < clickKey[v]
      OBVIOUS
    <3> DEFINE a == views[v]
    <3>2. a \in Auctions /\ a \in billed
      BY <1>a, <1>t, <3>1
    <3>3. key[a].status \in {"COMMITTED", "missing"} /\ key[a] # Missing
      BY <1>0, <1>6, <3>2 DEF Billing, StartClick
    <3>4. key[a].status = "COMMITTED"
      BY <1>0, <3>2, <3>3 DEF ClickTypes
    <3>5. key[a].ttlEnd + CallLife <= clickKey[v] /\ clock < key[a].ttlEnd
      BY <1>0, <1>a, <3>1, <3>2, <3>4 DEF OnTime
    <3>6. key[a].ttlEnd \in Nat /\ clock \in Nat /\ clickKey[v] \in Nat
      BY <1>0, <1>t, <3>2, <3>4, KeyType DEF ClickTypes
    <3> QED
      BY <3>5, <3>6, ClickAssumption
  <2>3. Waits(q)'
    BY <2>1, <2>2
  <2>4. \A r \in Clickers \ {q} : Waits(r)'
    BY <1>a, <2>1
  <2> QED
    BY <1>a, <1>b, <2>1, <2>3, <2>4
<1>7. ASSUME NEW q \in Clickers, CommitClick(q)
      PROVE  ClickIsLocked'
  <2>1. /\ clicking[q] # Idle
        /\ \A r \in Clickers \ {q} : clicking'[r] = clicking[r]
        /\ \/ clicking'[q] = Idle
           \/ /\ clicking'[q].at = "dedup"
              /\ clicking'[q].viewId = clicking[q].viewId
              /\ clicking'[q].since = clicking[q].since
        /\ UNCHANGED <<views, clickKey, clicks>>
    BY <1>0, <1>7, CommitEffect
  <2>a. PICK a \in Auctions : a = views[clicking[q].viewId]
    BY <1>0, <1>7, CommitEffect
  <2>2. \A r \in Clickers : Waits(r)'
    BY <1>a, <2>1 DEF Idle
  <2>3. CASE UNCHANGED <<key, billed>>
    BY <1>a, <1>b, <2>1, <2>2, <2>3
  <2>4. CASE End(a, "RELEASED") /\ UNCHANGED billed
    BY <1>2, <1>a, <1>b, <2>1, <2>2, <2>4
  <2>5. CASE End(a, "COMMITTED") /\ billed' = billed \union {a}
    <3>1. /\ key[a].status = "RESERVED"
          /\ \A b \in Auctions \ {a} : key'[b] = key[b]
      BY <1>0, <2>5, EndEffect
    <3>2. a \notin billed
      BY <1>0, <3>1 DEF Billing
    <3>3. \A v \in DOMAIN views : Outlasts(v)'
      BY <1>a, <1>t, <2>1, <2>5, <3>1, <3>2
    <3> QED
      BY <1>a, <1>b, <2>1, <2>2, <3>3
  <2> QED
    BY <1>0, <1>7, <2>a, <2>3, <2>4, <2>5, CommitEffect
<1>8. ASSUME NEW q \in Clickers, DedupClick(q)
      PROVE  ClickIsLocked'
  <2>v. PICK v \in DOMAIN views : v = clicking[q].viewId
    BY <1>8, DedupEffect
  <2>1. /\ clicking[q] # Idle /\ v \in ViewIds /\ views[v] \in billed
        /\ clicking'[q].viewId = v /\ clicking'[q].since = clicking[q].since
        /\ \A r \in Clickers \ {q} : clicking'[r] = clicking[r]
        /\ UNCHANGED <<clock, key, billed, views, clicks>>
    BY <1>8, <2>v, DedupEffect
  <2>2. CASE clickKey[v] # 0 /\ clickKey' = clickKey
    <3>1. \A r \in Clickers : Waits(r)'
      BY <1>a, <2>1, <2>2, <2>v
    <3> QED
      BY <1>a, <1>b, <2>1, <2>2, <3>1
  <2>3. CASE clickKey[v] = 0 /\ clickKey' = [clickKey EXCEPT ![v] = clock + ClickTtl]
    <3>1. clock \in Nat /\ {MarkerTtl, ClickTtl} \subseteq Nat \ {0} /\ CallLife \in Nat
      BY <1>0, ClickAssumption DEF ClickTypes
    <3>2. clickKey'[v] = clock + ClickTtl /\ \A u \in ViewIds \ {v} : clickKey'[u] = clickKey[u]
      BY <1>0, <2>1, <2>3 DEF ClickTypes
    <3>3. clickKey'[v] # 0
      BY <3>1, <3>2
    <3>4. Outlasts(v)'
      <4>1. key[views[v]].status = "COMMITTED" =>
               key[views[v]].ttlEnd \in Nat /\ key[views[v]].ttlEnd <= clock + MarkerTtl
        BY <1>0, <1>t, KeyType DEF OnTime
      <4>2. key[views[v]].status = "COMMITTED" => key[views[v]].ttlEnd + CallLife <= clock + ClickTtl
        BY <3>1, <4>1 DEF Deduplicating
      <4> QED
        BY <2>1, <3>2, <4>2
    <3>5. \A u \in DOMAIN views : u # v => Outlasts(u)'
      BY <1>a, <1>t, <2>1, <3>2
    <3>6. ASSUME NEW r \in Clickers
          PROVE  Waits(r)'
      <4>1. CASE r # q /\ clicking[r].viewId # v
        BY <1>a, <1>t, <2>1, <3>2, <4>1
      <4>2. CASE clicking[r] # Idle /\ clicking[r].viewId = v
        <5>1. clicking[r].since \in Nat /\ clicking[r].since <= clock
          BY <1>0, <4>2, ClickRequest DEF OnTime
        <5>2. clicking[r].since + CallLife < clock + ClickTtl
          BY <3>1, <5>1 DEF Deduplicating
        <5>3. clicking'[r].since = clicking[r].since /\ clicking'[r].viewId = v
          BY <2>1, <4>2
        <5> QED
          BY <3>2, <3>3, <5>2, <5>3
      <4>3. CASE r # q /\ clicking[r] = Idle
        BY <2>1, <4>3 DEF Idle
      <4> QED
        BY <2>1, <2>v, <4>1, <4>2, <4>3
    <3>7. Rest'
      BY <1>a, <1>t, <2>1, <3>2, <3>3
    <3> QED
      BY <1>b, <2>1, <3>4, <3>5, <3>6, <3>7
  <2> QED
    BY <1>8, <2>v, <2>2, <2>3, DedupEffect
<1>9. ASSUME NEW q \in Clickers, RecheckClick(q) \/ CrashClick(q)
      PROVE  ClickIsLocked'
  <2>1. Stop(q)
    BY <1>9, RecheckEffect DEF CrashClick
  <2>2. clicking'[q] = Idle /\ \A r \in Clickers \ {q} : clicking'[r] = clicking[r]
    BY <1>0, <2>1, StopEffect
  <2>3. UNCHANGED <<key, billed, views, clickKey, clicks>>
    BY <1>9 DEF RecheckClick, CrashClick, viewVars
  <2>4. \A r \in Clickers : Waits(r)'
    BY <1>a, <2>2, <2>3 DEF Idle
  <2> QED
    BY <1>a, <1>b, <2>3, <2>4
<1>10. ASSUME NEW q \in Clickers, LogClick(q)
       PROVE  ClickIsLocked'
  <2>1. /\ clicking[q].at = "log"
        /\ DOMAIN clicks' = DOMAIN clicks \union {Len(clicks) + 1}
        /\ \A i \in DOMAIN clicks : clicks'[i] = clicks[i]
        /\ clicks'[Len(clicks) + 1].viewId = clicking[q].viewId
        /\ clicking'[q] = Idle
        /\ \A r \in Clickers \ {q} : clicking'[r] = clicking[r]
        /\ UNCHANGED <<key, billed, views, clickKey>>
    BY <1>0, <1>10, LogEffect
  <2>2. \A r \in Clickers : Waits(r)'
    BY <1>a, <2>1 DEF Idle
  <2>3. Rest'
    BY <1>a, <2>1
  <2> QED
    BY <1>a, <1>b, <2>1, <2>2, <2>3
<1>11. ASSUME NEW i \in DOMAIN clicks, IncrementSpent(i) \/ PayPublisherRevenue(i)
       PROVE  ClickIsLocked'
  <2>1. /\ DOMAIN clicks' = DOMAIN clicks
        /\ \A j \in DOMAIN clicks : clicks'[j].viewId = clicks[j].viewId
        /\ UNCHANGED <<key, billed, views, clickKey, clicking>>
    BY <1>0, <1>11, FollowUpEffect
  <2> QED
    BY <1>a, <1>b, <2>1
<1>12. CASE Tick
  <2>1. /\ \A a \in Auctions : key'[a] = key[a] \/ key'[a].status = "missing"
        /\ UNCHANGED <<billed, views, clickKey, clicking, clicks>>
    BY <1>0, <1>12, TickEffect
  <2>2. \A v \in DOMAIN views : Outlasts(v)'
    BY <1>a, <1>t, <2>1
  <2> QED
    BY <1>a, <1>b, <2>1, <2>2
<1>13. ASSUME NEW w \in Viewers,
              \/ \E a \in Auctions : StartView(w, a)
              \/ AcquireView(w) \/ PeekView(w) \/ PublishView(w) \/ CrashView(w)
       PROVE  ClickIsLocked'
  BY <1>4, <1>13 DEF StartView, AcquireView, PeekView, PublishView, CrashView, clickVars
<1>14. CASE UNCHANGED vars
  BY <1>4, <1>14 DEF vars, viewVars, clickVars
<1> HIDE DEF Outlasts, Waits, Rest
<1> QED
  BY <1>0, <1>1, <1>3, <1>5, <1>6, <1>7, <1>8, <1>9, <1>10, <1>11, <1>12, <1>13, <1>14, Cases

LEMMA OneLogKept ==
    ASSUME ClickInv, [Next]_vars, Deduplicating
    PROVE  OneLog'
<1>0. ClickTypes /\ ClickIsLocked /\ OneLog
  BY DEF ClickInv, Locks
<1>1. CASE UNCHANGED <<clicking, clicks>>
  BY <1>0, <1>1 DEF OneLog
<1>2. ASSUME NEW q \in Clickers, clicking'[q].at # "log", UNCHANGED clicks,
             \A r \in Clickers \ {q} : clicking'[r] = clicking[r]
      PROVE  OneLog'
  BY <1>0, <1>2 DEF OneLog
<1>3. ASSUME NEW q \in Clickers,
             \/ \E v \in DOMAIN views : StartClick(q, v)
             \/ CommitClick(q) \/ RecheckClick(q) \/ CrashClick(q)
      PROVE  OneLog'
  <2>1. CASE \E v \in DOMAIN views : StartClick(q, v)
    BY <1>0, <1>2, <2>1 DEF StartClick, ClickTypes
  <2>2. CASE CommitClick(q)
    BY <1>0, <1>2, <2>2, CommitEffect DEF Idle
  <2>3. CASE RecheckClick(q) \/ CrashClick(q)
    <3>1. Stop(q) /\ UNCHANGED clicks
      BY <2>3, RecheckEffect DEF CrashClick, RecheckClick
    <3> QED
      BY <1>0, <1>2, <3>1, StopEffect DEF Idle
  <2> QED
    BY <1>3, <2>1, <2>2, <2>3
<1>4. ASSUME NEW q \in Clickers, DedupClick(q)
      PROVE  OneLog'
  <2>v. PICK v \in DOMAIN views : v = clicking[q].viewId
    BY <1>4, DedupEffect
  <2>1. /\ clicking'[q].viewId = v
        /\ \A r \in Clickers \ {q} : clicking'[r] = clicking[r]
        /\ UNCHANGED clicks
    BY <1>4, <2>v, DedupEffect
  <2>2. CASE clicking'[q].at = "recheck"
    BY <1>2, <2>1, <2>2
  <2>3. CASE clicking'[q].at = "log" /\ clickKey[v] = 0
    <3>1. /\ \A r \in Clickers : clicking[r].at = "log" => clicking[r].viewId # v
          /\ \A i \in DOMAIN clicks : clicks[i].viewId # v
      BY <1>0, <2>3 DEF ClickIsLocked
    <3> QED
      BY <1>0, <2>1, <2>3, <3>1 DEF OneLog
  <2> QED
    BY <1>4, <2>v, <2>2, <2>3, DedupEffect
<1>5. ASSUME NEW q \in Clickers, LogClick(q)
      PROVE  OneLog'
  <2>1. /\ clicking[q].at = "log"
        /\ DOMAIN clicks' = DOMAIN clicks \union {Len(clicks) + 1}
        /\ \A i \in DOMAIN clicks : clicks'[i] = clicks[i]
        /\ clicks'[Len(clicks) + 1].viewId = clicking[q].viewId
        /\ clicking'[q] = Idle
        /\ \A r \in Clickers \ {q} : clicking'[r] = clicking[r]
    BY <1>0, <1>5, LogEffect
  <2> QED
    BY <1>0, <2>1 DEF OneLog, Idle
<1>6. ASSUME NEW i \in DOMAIN clicks, IncrementSpent(i) \/ PayPublisherRevenue(i)
      PROVE  OneLog'
  <2>1. /\ DOMAIN clicks' = DOMAIN clicks
        /\ \A j \in DOMAIN clicks : clicks'[j].viewId = clicks[j].viewId
        /\ UNCHANGED clicking
    BY <1>0, <1>6, FollowUpEffect
  <2> QED
    BY <1>0, <2>1 DEF OneLog
<1>7. ASSUME NEW a \in Auctions, Decide(a) \/ ReleaseOnly(a)
      PROVE  OneLog'
  BY <1>0, <1>1, <1>7, DecideEffect DEF ReleaseOnly
<1>8. ASSUME NEW w \in Viewers,
             \/ \E a \in Auctions : StartView(w, a)
             \/ AcquireView(w) \/ PeekView(w) \/ SaveView(w) \/ PublishView(w) \/ CrashView(w)
      PROVE  OneLog'
  BY <1>1, <1>8 DEF StartView, AcquireView, PeekView, SaveView, PublishView, CrashView, clickVars
<1>9. CASE Tick \/ UNCHANGED vars
  BY <1>1, <1>9 DEF Tick, vars, viewVars, clickVars
<1> QED
  BY <1>0, <1>3, <1>4, <1>5, <1>6, <1>7, <1>8, <1>9, Cases

-----------------------------------------------------------------------------
LEMMA ClickInit ==
    ASSUME Init
    PROVE  ClickInv
<1>1. ClickTypes
  BY DEF Init, KeyInit, ClickTypes, Free, Missing
<1>2. Room
  <2>1. Unsaved = {}
    BY DEF Init, Unsaved, Idle
  <2> QED
    BY <2>1, FS_EmptySet, ClickAssumption DEF Room, Init
<1>3. /\ \A v \in DOMAIN views : FALSE
      /\ \A i \in DOMAIN clicks : FALSE
      /\ \A q \in Clickers : clicking[q] = Idle
      /\ \A w \in Viewers : viewing[w] = Idle
      /\ \A a \in Auctions : key[a].status = "missing"
      /\ \A v \in ViewIds : clickKey[v] = 0
      /\ billed = {}
  BY DEF Init, KeyInit, Missing
<1>4. ViewIdsAreLogged /\ Billing
  BY <1>3 DEF Init, ViewIdsAreLogged, Billing, Free, Idle, Committed, ClicksAreBilled
<1>5. OnTime
  BY <1>3, ClickAssumption DEF Init, KeyInit, OnTime, Free
<1>6. PageIsLocked /\ OneView /\ FirstIsClicked
  BY <1>3 DEF PageIsLocked, OneView, FirstIsClicked, Over, Viewed, Saving, Committed, Idle
<1>7. ClickIsLocked /\ OneLog
  BY <1>3 DEF ClickIsLocked, OneLog, Idle
<1> QED
  BY <1>1, <1>2, <1>4, <1>5, <1>6, <1>7 DEF ClickInv, Locks

LEMMA ClickStepKeepsInv ==
    ASSUME ClickInv, [Next]_vars
    PROVE  ClickInv'
<1>1. ClickTypes' /\ Room' /\ ViewIdsAreLogged' /\ Billing' /\ OnTime'
  BY TypesKept, RoomKept, ViewIdsKept, BillingKept, OnTimeKept
<1>2. ASSUME Deduplicating
      PROVE  Locks'
  BY <1>2, PageIsLockedKept, OneViewKept, FirstKept, ClickIsLockedKept, OneLogKept DEF Locks
<1> QED
  BY <1>1, <1>2 DEF ClickInv, Deduplicating

LEMMA ClickInvBills ==
    ASSUME ClickInv
    PROVE  ClicksAreBilledOnce
<1>1. ClicksAreBilled
  BY DEF ClickInv, Billing
<1>2. ASSUME Deduplicating, NEW i \in DOMAIN clicks, NEW j \in DOMAIN clicks, i # j
      PROVE  AuctionOf(i) # AuctionOf(j)
  <2>1. SUFFICES ASSUME AuctionOf(i) = AuctionOf(j) PROVE FALSE
    OBVIOUS
  <2>2. First(clicks[i].viewId) /\ First(clicks[j].viewId) /\ clicks[i].viewId # clicks[j].viewId
    BY <1>2 DEF ClickInv, Locks, FirstIsClicked, OneLog
  <2>3. clicks[i].viewId \in DOMAIN views /\ clicks[j].viewId \in DOMAIN views
    BY Logged DEF ClickInv
  <2>4. clicks[i].viewId <= clicks[j].viewId /\ clicks[j].viewId <= clicks[i].viewId
    BY <2>1, <2>2, <2>3 DEF First, AuctionOf
  <2>5. DOMAIN views \subseteq Nat
    BY DEF ClickInv, ClickTypes
  <2> QED
    BY <2>2, <2>3, <2>4, <2>5
<1> QED
  BY <1>1, <1>2 DEF ClicksAreBilledOnce, OneClickPerAuction

(***************************************************************************)
(* A click log is written only for an auction that Redis billed and, with  *)
(* TTLs that deduplicate, at most once for each: whatever overlaps,        *)
(* expires, is viewed twice or dies half way (recordClick).                *)
(***************************************************************************)
THEOREM ClicksAreBilledAtMostOnce == Spec => []ClicksAreBilledOnce
<1>1. Init => ClickInv
  BY ClickInit
<1>2. ClickInv /\ [Next]_vars => ClickInv'
  BY ClickStepKeepsInv
<1>3. ClickInv => ClicksAreBilledOnce
  BY ClickInvBills
<1> QED
  BY <1>1, <1>2, <1>3, PTL DEF Spec

=============================================================================
