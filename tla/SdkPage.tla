-------------------------------- MODULE SdkPage --------------------------------
(***************************************************************************)
(* The script in a blog's page: which ads it asks for, and what it reports *)
(* of them.  In automatic mode the page shows one ad, and another in its   *)
(* place once the visitor is interested; in manual mode it fills the zones *)
(* it finds, and looks again when the document changes.  All ads share one *)
(* tracker, which knows the last of them.                                  *)
(***************************************************************************)
EXTENDS Integers, Sequences, SequencesExt

CONSTANTS
    Urls,       \* pages of a single-page application, 1 the first; automatic mode has one
    ZonesOf,    \* the ad zones of each page, in document order; zones are numbers
    Loads,      \* calls of loadAdsForZones that may run at the same time
    NoZone,
    MaxMetrics, \* bound: what the visitor does, by kind
    PageRegimes \* sets of hazards; one of them is what may happen

(***************************************************************************)
(* Hazards.  zones: the visitor clicks an ad that is not the last one, or  *)
(* the next one is rendered beside it; early: a click before the view is   *)
(* answered; late: the answer comes after the next ad is rendered;         *)
(* navigate: the page changes while ads are being loaded; mutate: the      *)
(* document changes after the zones have been filled.                      *)
(***************************************************************************)

ASSUME PageAssumption ==
    /\ \A u \in Urls : NoZone \notin ToSet(ZonesOf[u])
    /\ ZonesOf[1][1] # ZonesOf[1][2]

VARIABLES
    auto,       \* isAutoMode
    url,
    rendered,   \* renderedZones
    context,    \* contextUrl and contextId, a page standing for its id
    load,       \* what each load is doing
    shown,      \* zones that show an ad
    view,       \* trackView of each ad
    tracker,    \* currentViewId, currentAdUrl, hasClicked, hasSentDismiss
    metrics,    \* of the BehaviorTracker
    interest,   \* thresholdReached and hasRequestedSecondAd
    closed,     \* the page has been left
    asked,      \* history: what each decision was asked with
    clicks,     \* history: the ad clicked, the view reported, the ad opened
    dismissed,  \* history: views reported as dismissed
    habit       \* the hazards of this behaviour

requests == <<rendered, context, load, asked>>
reader   == <<metrics, interest>>
pageVars == <<auto, url, requests, shown, view, tracker, reader, closed, clicks, dismissed, habit>>

-----------------------------------------------------------------------------
Ads == UNION {ToSet(ZonesOf[u]) : u \in Urls}

\* Automatic mode fills the first two zones of the first page, one after the other.
First  == ZonesOf[1][1]
Second == ZonesOf[1][2]

NoLoad    == [at |-> "idle", url |-> 1, todo |-> <<>>]
NoMetrics == [scroll |-> 0, seconds |-> 0, copies |-> 0, code |-> 0, links |-> 0]
Unasked   == [url |-> 0, context |-> 0, score |-> 0, intent |-> FALSE]
NewAd(z)  == [view |-> NoZone, ad |-> z, clicked |-> FALSE, sent |-> FALSE]

PageInit ==
    /\ auto \in BOOLEAN /\ url = 1 /\ rendered = {}
    /\ context = [url |-> 0, id |-> 0]
    /\ load = [l \in Loads |-> NoLoad]
    /\ shown = {} /\ view = [z \in Ads |-> "none"] /\ tracker = NewAd(NoZone)
    /\ metrics = NoMetrics /\ interest = "off"
    /\ closed = FALSE
    /\ asked = [z \in Ads |-> Unasked] /\ clicks = {} /\ dismissed = {}
    /\ habit \in PageRegimes

Does(hazard) == hazard \in habit

Loading == \E l \in Loads : load[l].at # "idle"

-----------------------------------------------------------------------------
(***************************************************************************)
(* Dismissals.  A view is reported as dismissed when the page is hidden or *)
(* left, and when the next ad is rendered.                                 *)
(***************************************************************************)
Dismissable == tracker.view # NoZone /\ ~tracker.clicked /\ ~tracker.sent

SendDismissBeacon ==
    /\ dismissed' = IF Dismissable THEN dismissed \union {tracker.view} ELSE dismissed
    /\ tracker' = [tracker EXCEPT !.sent = @ \/ Dismissable]

ResetKeepingView(z) ==
    /\ dismissed' = IF Dismissable THEN dismissed \union {tracker.view} ELSE dismissed
    /\ tracker' = [NewAd(z) EXCEPT !.view = tracker.view]

ResetSilently(z) == tracker' = NewAd(z) /\ UNCHANGED dismissed

Reset(z) ==
    /\ dismissed' = IF Dismissable THEN dismissed \union {tracker.view} ELSE dismissed
    /\ tracker' = NewAd(z)

-----------------------------------------------------------------------------
(***************************************************************************)
(* Asking for ads.  The page is observed once; the answer may be that      *)
(* there is no context.  Two zones are taken at a time.                    *)
(***************************************************************************)
StartLoad(l, zones, observes) ==
    /\ load[l].at = "idle"
    /\ load' = [load EXCEPT ![l] = [at |-> IF observes THEN "observe" ELSE "decide", url |-> url, todo |-> zones]]
    /\ context' = IF observes THEN [context EXCEPT !.url = url] ELSE context

InitAutoMode(l) ==
    /\ auto /\ rendered = {} /\ ~closed
    /\ rendered' = {First}
    /\ StartLoad(l, <<First>>, TRUE)
    /\ UNCHANGED <<auto, url, asked, shown, view, tracker, reader, closed, clicks, dismissed, habit>>

\* The first two zones of the page that have no ad yet, or the only one.
NewZones ==
    LET Z      == ZonesOf[url]
        places == {i \in DOMAIN Z : Z[i] \notin rendered}
    IN  {<<Z[i]>> : i \in {k \in places : places = {k}}} \union
        {<<Z[p[1]], Z[p[2]]>> : p \in {q \in places \X places :
            q[1] < q[2] /\ \A k \in places : k = q[1] \/ q[2] <= k}}

CheckAndObserveOnce(l) ==
    /\ ~auto /\ ~closed
    /\ Does("mutate") \/ rendered \intersect ToSet(ZonesOf[url]) = {}
    /\ \E zones \in NewZones :
         /\ rendered' = rendered \union ToSet(zones)
         /\ StartLoad(l, zones, context.url = 0)
    /\ UNCHANGED <<auto, url, asked, shown, view, tracker, reader, closed, clicks, dismissed, habit>>

CheckAndLoadAds(l) ==
    /\ ~auto /\ ~closed
    /\ Does("mutate") \/ rendered \intersect ToSet(ZonesOf[url]) = {}
    /\ \E zones \in NewZones :
         /\ rendered' = rendered \union ToSet(zones)
         /\ StartLoad(l, zones, context.url # url)
    /\ UNCHANGED <<auto, url, asked, shown, view, tracker, reader, closed, clicks, dismissed, habit>>

ObserveContext(l) ==
    /\ load[l].at = "observe"
    /\ context' \in {[context EXCEPT !.id = load[l].url], [context EXCEPT !.id = 0]}
    /\ load' = [load EXCEPT ![l].at = "decide"]
    /\ UNCHANGED <<auto, url, rendered, asked, shown, view, tracker, reader, closed, clicks, dismissed, habit>>

Capped(n, cap) == IF n > cap THEN cap ELSE n

CalculateScore ==
    (IF metrics.scroll >= 80 THEN 30 ELSE IF metrics.scroll >= 50 THEN 20 ELSE 0)
    + Capped(metrics.seconds \div 2, 40)
    + 5 * metrics.copies + 15 * metrics.code + 10 * metrics.links

IsHighIntent == CalculateScore >= 70

FetchDecision(l) ==
    LET z      == Head(load[l].todo)
        second == auto /\ z = Second
    IN  /\ load[l].at = "decide"
        /\ asked' = [asked EXCEPT ![z] = [url |-> load[l].url, context |-> context.id,
                                          score |-> IF second THEN CalculateScore ELSE 0,
                                          intent |-> second /\ IsHighIntent]]
        /\ load' = [load EXCEPT ![l].at = "answer"]
        /\ UNCHANGED <<auto, url, rendered, context, shown, view, tracker, reader, closed, clicks, dismissed, habit>>

TakeNext(l) ==
    load' = [load EXCEPT ![l] = IF Len(load[l].todo) = 1 THEN NoLoad
                                ELSE [at |-> "decide", url |-> load[l].url, todo |-> Tail(load[l].todo)]]

\* After the first ad, automatic mode begins to watch the visitor.
WatchReader == interest' = IF auto /\ interest = "off" THEN "tracking" ELSE interest

\* Rendering goes on in a zone that has left the document, where nobody sees it.
Render(l) ==
    LET z == Head(load[l].todo)
    IN  /\ load[l].at = "answer" /\ ~closed
        /\ Does("zones") \/ shown = {}
        /\ Does("late") \/ \A y \in Ads : view[y] # "sent"
        /\ Reset(z)
        /\ shown' = IF z \in ToSet(ZonesOf[url]) THEN shown \union {z} ELSE shown
        /\ view' = [view EXCEPT ![z] = "sent"]
        /\ TakeNext(l) /\ WatchReader
        /\ UNCHANGED <<auto, url, rendered, context, asked, metrics, closed, clicks, habit>>

RenderNothing(l) ==
    /\ load[l].at = "answer" /\ ~closed
    /\ TakeNext(l) /\ WatchReader
    /\ UNCHANGED <<auto, url, rendered, context, asked, shown, view, tracker, metrics, closed, clicks, dismissed, habit>>

-----------------------------------------------------------------------------
\* trackView: the answer sets the id of the view, an error leaves it.
ViewAnswered(z) ==
    /\ view[z] = "sent" /\ ~closed
    /\ view' = [view EXCEPT ![z] = "recorded"]
    /\ tracker' = [tracker EXCEPT !.view = z]
    /\ UNCHANGED <<auto, url, requests, shown, reader, closed, clicks, dismissed, habit>>

ViewFails(z) ==
    /\ view[z] = "sent" /\ ~closed
    /\ view' = [view EXCEPT ![z] = "failed"]
    /\ UNCHANGED <<auto, url, requests, shown, tracker, reader, closed, clicks, dismissed, habit>>

\* trackClick: without a view nothing is reported and nothing is opened.
TrackClick(z) ==
    /\ z \in shown /\ ~closed
    /\ Does("early") \/ tracker.view # NoZone
    /\ clicks' = IF tracker.view = NoZone THEN clicks
                 ELSE clicks \union {[on |-> z, bills |-> tracker.view, opens |-> tracker.ad]}
    /\ tracker' = [tracker EXCEPT !.clicked = TRUE]
    /\ UNCHANGED <<auto, url, requests, shown, view, reader, closed, dismissed, habit>>

\* visibilitychange and the back-forward cache: the page may come back, and be left again.
Hide ==
    /\ ~closed /\ SendDismissBeacon
    /\ UNCHANGED <<auto, url, requests, shown, view, reader, closed, clicks, habit>>

ComeBack ==
    /\ ~closed /\ tracker.sent /\ ~tracker.clicked
    /\ tracker' = [tracker EXCEPT !.sent = FALSE]
    /\ UNCHANGED <<auto, url, requests, shown, view, reader, closed, clicks, dismissed, habit>>

\* The page is left, with no answer outstanding but for a late one.
Close ==
    /\ ~closed /\ closed' = TRUE
    /\ Does("late") \/ \A y \in Ads : view[y] # "sent"
    /\ SendDismissBeacon
    /\ UNCHANGED <<auto, url, requests, shown, view, reader, clicks, habit>>

\* A single-page application changes its page; the zones of the old one are gone.
Navigate(u) ==
    /\ ~auto /\ ~closed /\ u # url
    /\ Does("navigate") \/ ~Loading
    /\ url' = u /\ shown' = {}
    /\ UNCHANGED <<auto, requests, view, tracker, reader, closed, clicks, dismissed, habit>>

-----------------------------------------------------------------------------
(***************************************************************************)
(* The BehaviorTracker.  The deepest scroll counts; seventy points call    *)
(* for the second ad, five seconds later and once.                         *)
(***************************************************************************)
Track(m) ==
    /\ interest \in {"tracking", "reached"} /\ ~closed
    /\ metrics' = m
    /\ interest' = IF CalculateScore' >= 70 THEN "reached" ELSE interest
    /\ UNCHANGED <<auto, url, requests, shown, view, tracker, closed, clicks, dismissed, habit>>

HandleScroll ==
    \E depth \in {50, 80} : depth > metrics.scroll /\ Track([metrics EXCEPT !.scroll = depth])

Stay          == metrics.seconds < MaxMetrics.seconds /\ Track([metrics EXCEPT !.seconds = @ + 40])
HandleCopy    == \/ metrics.copies < MaxMetrics.copies /\ Track([metrics EXCEPT !.copies = @ + 1])
                 \/ metrics.code < MaxMetrics.code /\ Track([metrics EXCEPT !.code = @ + 1])
HandleDocClick == metrics.links < MaxMetrics.links /\ Track([metrics EXCEPT !.links = @ + 1])

\* The first ad goes, whether or not there is a place for the second.
RequestSecondAd(l) ==
    /\ interest = "reached" /\ ~closed
    /\ interest' = "asked"
    /\ shown' = shown \ {First}
    /\ StartLoad(l, <<Second>>, FALSE) \/ UNCHANGED <<load, context>>
    /\ UNCHANGED <<auto, url, rendered, asked, view, tracker, metrics, closed, clicks, dismissed, habit>>

-----------------------------------------------------------------------------
PageNext ==
    \/ \E l \in Loads : \/ InitAutoMode(l) \/ CheckAndLoadAds(l) \/ RequestSecondAd(l)
                        \/ ObserveContext(l) \/ FetchDecision(l) \/ Render(l) \/ RenderNothing(l)
    \/ \E z \in Ads : ViewAnswered(z) \/ ViewFails(z) \/ TrackClick(z)
    \/ Hide \/ ComeBack \/ Close
    \/ \E u \in Urls : Navigate(u)
    \/ HandleScroll \/ Stay \/ HandleCopy \/ HandleDocClick

PageSpec == PageInit /\ [][PageNext]_pageVars

-----------------------------------------------------------------------------
(***************************************************************************)
(* A click bills and opens the ad that was clicked, though the tracker     *)
(* knows one ad only: as long as there is one ad at a time, and its view   *)
(* is answered before the next one is rendered.                            *)
(***************************************************************************)
ClickIsOfItsAd ==
    habit \intersect {"zones", "late"} = {} =>
        \A c \in clicks : c.bills = c.on /\ c.opens = c.on

(***************************************************************************)
(* Once the page is left, a view that was recorded has been reported as    *)
(* clicked or as dismissed, so that nobody waits for its hold to expire;   *)
(* a click that came too early and a view answered too late are forgotten. *)
(***************************************************************************)
ViewsAreSettled ==
    closed /\ habit \intersect {"early", "late", "zones"} = {} =>
        \A z \in Ads : view[z] = "recorded" => z \in dismissed \union {c.bills : c \in clicks}

(***************************************************************************)
(* A decision is asked with what is true of its page: the context is that  *)
(* of the page, unless the application changed pages, or found another     *)
(* zone, while it was being observed; and the second ad is asked for with  *)
(* a high intent, in place of the first.                                   *)
(***************************************************************************)
DecisionsAreOfTheirPage ==
    \A z \in Ads : asked[z] # Unasked =>
        /\ habit \intersect {"navigate", "mutate"} = {} => asked[z].context \in {0, asked[z].url}
        /\ auto /\ z = Second => asked[z].intent /\ First \notin shown

=============================================================================
