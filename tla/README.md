# BoostAD: specification and proofs

BoostAD sells the ad slots of developer blogs. A script on the blog asks the
server for an ad, the server ranks campaigns and reserves the winner's cost per
click, the visitor's browser reports the view and perhaps a click, and only a
click turns the reserved amount into money spent. This directory holds TLA+
modules of that server, of the jobs behind it and of the script in the blog, TLC
runs that check them on small instances, and TLAPS proofs of what matters most. Paths below are relative to `src/backend/src`
unless they start with `sdk/` or `frontend/`.

## 1. The system

### Components and their state

| component | state | operations | module |
|---|---|---|---|
| winner-only reservation (`campaign/scripts/lua-script.ts`, `rtb/rtb.service.ts`, `campaign/repository/redis-campaign.cache.repository.ts`, `worker/redis-ttl.worker.ts`) | Redis: campaign documents with spent and reserved amounts, `auction:{id}` keys, the ZSET of expirations | reserve, commit, release, sweep, daily reset, status change, delete | `AuctionLedger`, `AuctionDays` |
| legacy budget mode, the default (same files, and the keyspace listener of `redis-ttl.worker.ts`) | Redis: amounts spent, auction data, rollback and backup records | increment, rollback of losers, view, click, dismiss, rollback of a record that expires | `LegacyBudget` |
| impression and click recording (`sdk/sdk.service.ts`, `cache/repository/redis-cache.repository.ts`) | Redis: deduplication keys. MySQL: view log, click log, spent columns, publisher balance | recordView, recordClick, recordDismiss | `ClickFlow` |
| daily cron and reconciliation (`campaign/campaign-cron.service.ts`) | none of its own; writes spent and status in MySQL and Redis | nightly and hourly job, manual start, migration | `Settlement` |
| campaign editing, credit, payment (`campaign/campaign.service.ts`, `advertiser/`, `payment/`) | MySQL: campaigns, user balance, credit history; their copy in Redis | create, update, delete, charge | `CampaignCredit` |
| copies of a campaign (`campaign/campaign-serving-snapshot.service.ts`, the cache repository, `worker/embedding.worker.ts`) | Redis: documents, set of keys, vector documents. Per process: list of all campaigns, serving snapshot | write, embed, publish, refresh, build, repair, expire | `CampaignCopies` |
| decision (`rtb/matchers`, `rtb/retrieval`, `rtb/selectors`) | none between requests | embed, search, load, fuse, score, rank | `Matching`, and the reservation half in `AuctionLedger` |
| context embedding (`rtb/context/`, `worker/embedding.worker.ts`) | Redis: state of each page, job lock; the BullMQ queue; a map per process | observe, worker attempt, resolve | `ContextEmbedding` |
| request embedding cache (`rtb/ml/request-embedding-cache.service.ts`) | per process: LRU map, flights, background queue; Redis L2 | resolve, resolveCachedOrSchedule | `EmbeddingCache` |
| bid log pipeline (`bidlogworker/`, `bid-log/`) | the BullMQ queue, MySQL rows, pub/sub channel, open streams | enqueue, save, publish, stream | `BidLogPipeline` |
| blogs and blog keys (`blog/`, `common/guards`) | MySQL blogs, two Redis keys each | create, load, validate | `BlogKeys` |
| registration and login (`auth/`, `user/`) | Redis: OAuth states. MySQL: users, accounts, first login | redirect, callback, first login | `Accounts` |
| campaign images (`image/`, clean-up in `campaign-cron.service.ts`) | the bucket; image URLs in campaign rows | upload, use, nightly clean-up | `OrphanImages` |
| browser SDK (`sdk/src/features`) | per page: zones, context, one tracker, the reader's score | load, render, view, click, dismiss, navigate | `SdkPage` |
| user, publisher and log queries; metrics and load test; dashboard front end | - | - | not modelled (section 6) |

### How they interact

* The script observes its page, which may queue an embedding job, and asks for a
  decision with the context it got. The guard lets the request through by the
  blog's key.
* A decision reads campaigns (snapshot, list or vector index), ranks them and
  calls the reserve script for the ranking, `TOP_K` candidates at a time. The
  answer and the bid log job follow the reservation.
* A view, a click or a dismiss of a browser finds the auction key, and ends it
  by the commit or release script. So do the sweep and a view that comes too late.
* A click then writes MySQL: the click log, the campaign's spent, the
  publisher's balance. The cron jobs later sum the click logs, and put the sums
  into MySQL and Redis.
* Campaign edits pause a campaign in Redis, change MySQL, copy the row to Redis
  and queue an embedding job. Each writer publishes what it read back, which
  throws the cached list away and updates the snapshot of its own process. The
  embedding worker is another process (`worker/embedding-worker.module.ts`): what it
  publishes changes Redis and nothing that the server keeps in memory.

In the modules this shows as follows. `ClickFlow` is built on `AuctionKeys`, which
`AuctionLedger` is shown to implement. `AuctionLedger` takes any ranking, hence
also those of `Matching`, and any reset and status change, hence those of
`Settlement`. `Settlement` has the click handler's writes and the owner's edits as
actions of its own, `LegacyBudget` the view, click and dismiss of its mode.
`Matching` lets any campaign change in its copies between two reads, which is
what `CampaignCopies` shows they do.

### What is hard here

Redis runs one script atomically. Everything between two calls is open: every
handler is a chain of awaits, there may be several server processes, and time
passes in the middle (midnight, TTLs). `PROJECT.json` lists the hazards, each with
its line: decisions racing for the last of a budget, a click racing a dismiss
and the sweep, scripts run twice after a lost reply, dates stamped before
midnight and used after it, deduplication keys that expire before what they
guard, handlers that die half way, records whose expiry is heard at most once,
jobs that go by a snapshot, edits that queue work before they write, copies
published out of order, jobs retried after they took effect, answers that come
after the page has gone on, registrations that stop between two rows.

Some more were left out of the list as weaker or as variants of a listed one: a
view whose log fails leaves its key at LOCK for 15 minutes (`sdk/sdk.service.ts:283`);
a payment approved but never charged (`payment/payment.service.ts:81`); the
campaign id of a transition read before the script
(`redis-campaign.cache.repository.ts:488`, proved harmless by `Linked`); holds of
yesterday settled today (`lua-script.ts:211`, checked in `daily`); a backup that
must outlive its record (`redis-cache.repository.ts:23`, a parameter of
`LegacyBudget`); the hourly and the nightly job at midnight
(`campaign-cron.service.ts:91`, checked in `settlement`).

### What makes each component correct

* Reservation: held and billed amounts are exact and never exceed a total budget,
  nor a daily one but for disturbed midnights; one hold an auction; every hold ends,
  once; no ad is shown without a hold.
* Legacy mode: no budget is exceeded at any moment; what is spent covers the
  clicks; a rollback record is used once, and is used.
* Recording: a logged click was billed, a billed one is logged and paid, once.
* Settlement: jobs release what they lock, sell no stopped campaign, and bring
  the documents to the click logs after whatever happened.
* Editing and credit: balance plus budgets plus spent is what was charged.
* Copies: at rest the server's agree with the document, up to vectors made elsewhere;
  what is embedded is the text; a list that is served converges.
* Decision: what is ranked was eligible; extras never overtake the winner of the search.
* Context embedding: PENDING has a job and ends. Embedding cache: one generation
  a text, bounded queue and map, every caller answered.
* Bid log: one row a bid, whatever is retried. Blog keys: served if and only if registered.
* Accounts: who is told she is registered can log in; one welcome credit each.
* Images: the clean-up deletes nothing in use. SDK: a report is about the ad it names.

## 2. Modules

Every module states its state, one action per call or handler, a specification
and its properties; `MC` modules add values of constants. `PROJECT.json` "map" says which
lines each definition stands for. A definition that no `Next` uses and whose name
says what it leaves out (`DedupWithoutNx`, `EmitOnceReady`) is a plausible error:
put in the place of the definition that follows it, it breaks a property of section 3.

Proofs are in modules of their own: `AuctionLedger_proofs` (with those about the
ledger and `AuctionDays`), `ClickFlow_proofs`, `LegacyBudget_proofs`, `Settlement_proofs`,
`CampaignCredit_proofs`, `CampaignCopies_proofs`, `Jobs_proofs` (embedding cache,
context embedding, bid log) and `Requests_proofs` (decision, blog keys, images,
accounts, SDK).

### HoldLedger and BudgetPromise

`HoldLedger` is the vocabulary of the abstract view: a ledger with one entry an
auction (open, or a campaign, a cost, a date and a fate: held, billed, freed)
and `Amount`, what a campaign has in the ledger under given fates and dates.
An amount is the cardinality of a set of coins, so that no recursion is needed
and the library's theorems about finite sets apply.

`BudgetPromise` is the promise to an advertiser with nothing of Redis in it:
an auction takes budget from one campaign once, what it took is billed or given
back once and for good, and a total budget is never exceeded.

### AuctionLedger

| module | code |
|---|---|
| `doc` | `campaign:{id}` JSON: status, spent, reserved, dates |
| `auction`, `expirations` | `auction:{id}` keys with their TTL, the ZSET |
| `request` | one `reserveFirstRankedCandidate` per auction id, with what it stamped |
| `call` | `commitAuction` and `releaseAuction` between their GET and their script |
| `ledger` | history: `HoldLedger` entries, never read by an action |
| `StartDecision`, `ReserveWins`, `ReserveFindsExisting`, `ReserveExhausted`, `AbandonDecision` | the reserve script and its caller, window by window |
| `BeginTransition`, `BeginFindsNothing`, `CommitScript`, `ReleaseScript` | commit and release: GET, then the script |
| `UpdateStatus`, `DeleteCampaign`, `ResetDaily` | other writers of the documents |
| `Replied` | a reply is lost and the script sent again |

A ranking is an arbitrary member of the constant `Rankings`, so nothing depends
on how campaigns are matched and scored. `ResetMode` says when the daily reset may
come and `Straddling` whether a script stamped before midnight may arrive after it;
as deployed, a reset comes at any time of a KST day and scripts may straddle.

### AuctionDays

`AuctionLedger` with one history variable more, `disturbed`: for each campaign and KST
day, how often midnight was out of order. A reset counts for its day if something has been
sold that day (`ForgottenDays`). A reservation that arrives after its midnight counts
for the day it is stamped with, and for today if it replaces today's `dailyReserved`
(`StrayDays`). The actions are those of `AuctionLedger`. Nothing is assumed of midnights:
the daily budget is stated in terms of the count.

### AuctionKeys and ClickFlow

`AuctionKeys` is the life of an auction key as the handlers see it: missing,
RESERVED, one of COMMITTED and RELEASED for the marker's TTL, gone.
`AuctionLedger` implements it (`KeysFollow`), and `ClickFlow` is built on it.

`ClickFlow` has the handlers of `SdkService` for winner-only auctions. Each
call to Redis or MySQL is a step: `StartView`, `AcquireView` (SET NX),
`PeekView`, `SaveView`, `PublishView`; `StartClick`, `CommitClick`, `DedupClick`
(SET NX), `RecheckClick` (GET), `LogClick`, and then `IncrementSpent`, which
nobody awaits, and `PayPublisherRevenue`. `Dismiss` and `Sweep` release.
`CrashView` and `CrashClick` stop a handler for good between two steps.

### LegacyBudget

The budget mode `legacy_topk`, which is the default. A decision is a chain of
`Increment` over a window, `SelectWinner`, `RollbackLoser` and `CacheAuction`. A
view (`ReadAuctionData`, `AcquirePage`, `SaveViewLog`, `PublishPage`) attaches a
rollback record and its backup (`SetRollbackInfo`, `SetRollbackBackup`). Three kinds
of `handler` work on a view: a click, a dismiss, and the worker that hears of the
record's expiry (`HearExpiry`), each a chain of single Redis calls. `Fault` is a
crash or a missed event, `Midnight` the reset. `allowed` names the hazards of a behaviour.

### Settlement

Four kinds of `job`, hourly, nightly, the same started by hand and the migration, each
with the `Plan` of its phases: end, pause, start, sum, lock, replace, reset, unlock. A job goes through its batch call by
call with what it read at the beginning; where the code awaits all of a batch,
campaigns go in any order. Around it are the click handler (`Bill`, `SaveClickLog`,
`IncrementDaily`, `IncrementTotal`), the owner's edits (`PauseFirst`, `SaveRow`,
`CopyStatus`, `DropDoc`, `MarkRow`), `Restart` with `LoadDoc`, `Fail` and `Crash`.

### CampaignCopies

One campaign: `row`, `doc`, `listed` (the set of keys), `tagVec` and `docVec`, the
`list` and the `snapshot` of a process, and the `jobs` queue. A `writer` is a load,
an edit, a status change, a deletion or an embedding job; each changes the
document, reads it back, writes the vectors and publishes, and every call is a
step. `Emit` is synchronous: it throws the list away and is taken by the snapshot. The
worker's process has a list and events of its own and no snapshot, so its `PublishCopy`
leaves `list` and `snapshot`, which are the server's, alone. A job has one attempt:
`FailJob` ends it for good at any of its calls (`lost`), or the process dies and the
job is handed out again, or a reply of the pipeline holds an error that nobody looks at.
Readers are a refresh (`ReadKeys`, `ReadDocs`, `UnlistStale`, `StoreList`), a build of the
snapshot with the events that come meanwhile (`mutation`), and a repair.

### Matching

`matchCandidates` in the settings the configuration allows: lexical, all
campaigns, tag vectors, document vectors, hybrid. Searches and loads read
copies that change in between (`ChangeCampaign`, `Reindex`). Fusion, coverage, caps
and the lock on the winner are operators over finite sets and sequences;
similarities are integers in thousandths. To sort is to choose a sequence of the set
that is in order (`Sorted`); where the code's order ends with the id there is one,
and where the index of tags leaves ties open, every one is tried.

### ContextEmbedding, EmbeddingCache, BidLogPipeline

`ContextEmbedding` is one page: `page` (its state in Redis), `lock`, `job` (what BullMQ
has under the page's job id, a failed one included, which it keeps), observers
and the worker. `Observe`, `Claim`, `WritePending`, `AddJob` on one side, `TakeJob`,
`CompleteJob`, `ReleaseLock`, `RemoveJob` and `FailJob` on the other.

In `EmbeddingCache`, `l1`, `inFlight`, `active` and `queue` are the fields of the
service, `flight` is the promise a call created and `call` what each call waits for.
What lies between two awaits is one action: `Resolve` and `Probe` up to the first,
`ProbeLookup` and `FlightLookup` after a Redis GET, `Generate` after the model,
`WriteL2` after a Redis SET. The few microtasks between the end of a generation
and the two `finally` blocks (slot given back, entry removed) run before any
other request is looked at, and belong to `Land`.

`BidLogPipeline` has a job for each auction (`UpsertBids`, `FindBids`, `PublishBids`), tried
again from its beginning when it fails or its worker dies, and the server's
subscription, whose messages may be lost, with the streams of advertisers.

### CampaignCredit

One advertiser's `balance`, her `history`, and campaigns as a MySQL `row` and a
Redis `doc`. A request is a `call` with the document it read first (`cached`),
the balance it read under the lock (`seen`) and the row it found. `LockUser` is
the SELECT FOR UPDATE, after which nobody else passes until the commit or
`RollBack`. What a transaction writes appears with its commit action
(`CommitCharge`, `CommitCreate`, `CommitUpdate`, `CommitDelete`). What is written
on another connection or in Redis appears at once: `InsertRow`, `SaveDoc`,
`Pause`, `SyncDoc`, `Restore`, `DropDoc`, `MarkDeleted`. `allowed`, one of the
`Regimes` of a run, names what may happen: overlapping edits, clicks during a delete, refusals after the
document was paused, failures, crashes.

A campaign created today must have a total budget (the DTO refuses null). One of
an earlier time may have none: those are `Old`. The cron job (status ENDED,
reconciliation) is in `Settlement`, the expiry of documents in `CampaignCopies`.

### BlogKeys, Accounts, OrphanImages

`BlogKeys`: a creation writes the row and then two Redis keys; the guard reads the
index, the document and, if one is missing, the row. Redis may fail and forget. A creation
compares domains as they are, the guard compares them without `www.` (`SameHost`).

`Accounts`: a visit leaves a state in Redis and comes back, perhaps twice, with a
code. `ReadState`, `DeleteState`, `ExchangeCode`, `FindAccount`, `FindEmail`, `CreateUser` and
`CreateOAuthAccount` are the calls of the callback, `SetFirstLoginAtIfNull` and
`GiveWelcomeCredit` those of a first login. A callback may stop at each.

`OrphanImages`: uploads wait in a form (`draft`) before a campaign uses them; the job
lists the bucket, reads the campaigns, and deletes one image at a time.

### SdkPage

The script in one page, in automatic mode (one ad, replaced when the reader is
interested) and in manual mode (a list of zones, looked for again when the
document changes). `load` is a call of the loader between its awaits, `view` the
request of each ad, `tracker` the one object all ads share, `context` what was
observed and for which page. `Navigate` changes the page of an application, `Hide`,
`ComeBack` and `Close` are the browser's. `habit` names the hazards of a behaviour.

## 3. Runs

| run | expects | shows |
|---|---|---|
| `total` | pass | `TypeOK`, `TotalsMatchLedger`, `TotalBudgetKept`, `HoldsAreQueued`, `AnswerHasHold`, `KeepsPromise` and `KeysFollow` (refinements), `HoldsAreSettled` (liveness), with a reset at any time, scripts across midnight, lost replies and deletion |
| `daily` | pass | `DailyBudgetKept`, `DailyReservedMatchesHolds` of `AuctionDays`, with resets at any moment, scripts that cross midnight and clicks on yesterday's holds |
| `legacy` | pass | `SpentWithinBudget` with every hazard; `SpentCoversClicks`, `SettledOnce` while requests on a view do not overlap, and none dies or outlives a record; `ViewedIsSettled` (liveness) unless an event is missed |
| `clicks` | pass | `ClicksAreBilledOnce`: a logged click was billed, and is logged once, with TTLs under which no marker outlives a deduplication key, wherever handlers stop; `BilledReachesLog` (liveness) when no handler dies |
| `credit` | pass | `CreditConserved` while edits do not overlap and nothing fails, `BalanceFollowsHistory` with every hazard |
| `settlement` | pass | `LocksAreReleased`, `StoppedIsNotSold`, `SpentCoversLogs`, each without the hazards that break it, and `DocsConverge` (liveness) with every hazard |
| `copies` | pass | `CopiesAgree`, `EmbeddingsFollowText` as far as a regime's hazards leave them alone (jobs that fail included), `ListConverges` (liveness) in every regime |
| `jobs` | pass | `SingleFlight`, `SlotsAreUsed`, `CallsAreAnswered` (liveness) of `EmbeddingCache`; `PendingHasJob`, `PendingIsResolved` (liveness) of `ContextEmbedding`; `BidsAreLogged`, `QueuedIsLogged` (liveness) of `BidLogPipeline` |
| `requests` | pass | `HybridKeepsWinner`, `CandidatesAreServable` of `Matching`; `ClickIsOfItsAd`, `ViewsAreSettled`, `DecisionsAreOfTheirPage` of `SdkPage`; `BlogsAreServed`; `UsedImagesStay`; `AccountsAreSound` |
| `twice` | violation | with the default TTLs a click after 15 minutes is charged and paid again |
| `reactivated` | violation | the nightly job ends a campaign and, at its end, makes it ACTIVE in Redis again |
| `oldtext` | violation | `EditsAreEmbedded`: a worker that takes up the job of an edit at once embeds the old text |

`jobs` and `requests` check components that do not meet: each behaviour is one of
theirs (`which`) while the others stand still, so that the states of the
instances add up and do not multiply. `clicks` has behaviours in which handlers run
to their end and others in which they may stop (`crashes`).

### Bounds

`AuctionLedger` and `ClickFlow`: two auctions are enough for every race in which two
decisions or two views meet, and one campaign whose total budget of 3 cannot
carry two holds of 2 (or one of 2 and two of 1) brings them to the limit. No
run has a second Top-K window; the proofs, which take any rankings and any `TopK`,
cover it. One caller of each kind: two clicks on an auction are two calls in sequence or a call and a stale
GET, since the script decides by the state it finds. A KST day is one clock unit, and there are three. The clock passes two midnights,
the expiry of every hold, and the end of the markers of the first day. In `ClickFlow` hold and marker live 1 unit and the deduplication keys 2,
which deduplicates; `twice` has the ratios of the defaults, in units of 15 minutes
(hold 1, marker 2, keys 1). `MaxViews` and `MaxClicks` allow the second row that
a property forbids.

`AuctionDays`: three auctions, since a day that is sold twice has three holds at
two prices; a daily budget of 2, which one hold of 2 or two of 1 use up; three days of 1
clock unit, so that a hold crosses a midnight and a disturbance can fall on either day;
one disturbance of a day, which lets the bound be reached.

`LegacyBudget`: two auctions over two campaigns with budgets of one click each, so
that every window fights for the last of a budget; records live 2 units and
backups 3; eight combinations of hazards.

`Settlement`: one campaign ends at midnight, the other goes on or starts then;
two clicks, one midnight, one fault, eight combinations of hazards. A batch of
the code has ten campaigns and batches do not overlap, so two in one batch meet
as any two do.

`CampaignCopies`: one server and one worker process; one campaign, since writers of
different campaigns share only the list; three texts of which two share a tag, so that an edit changes the
vectors with and without the set of tags; two requests that write, one failed
read or job. One hazard a regime, and one pair.

`CampaignCredit`: three requests are a creation, a raise or a charge, and a
delete, or three transactions that meet at the lock; the balance of 3 pays a
creation (2) and a raise of it (to 3), or one raise of a campaign without budget,
and nothing after that; a click costs 2, so that a delete refunds all, a part or
nothing.

`jobs`: one background slot and one queue place make three calls meet a full
queue, and a map of two entries evicts one of three texts. A page has two
observers, three attempts and four faults, in eight combinations of hazards. Two
auctions share one of their two campaigns, two attempts and two mishaps let a
job be retried after each of its steps.

`requests`: three campaigns, two of the same price and a dearer fallback, with seven copies each (vectors
nearer to each other than the bonus, at the threshold, and missing), four
settings and one change in the middle. Three zones on a page and one on the
next, so that one zone is left over and one belongs to another context. One
hazard of a page at a time. Three
creations, two of them for one domain, and two failures of Redis. Three images
and two campaigns. Two people with the same address: three visits of one
callback each (a registration and two logins that meet, or two registrations
and a login), or two visits of which one comes back twice, and one callback that
stops or state that runs out.

Each bound stops its counter in a guard; the proofs assume none of them but the
ones named in section 4. Deadlock is not checked in these runs: clocks are
bounded, requests are used up, and a visitor never has to do anything.

### Fairness

| module | assumed | because |
|---|---|---|
| `AuctionLedger` | time goes on, the sweep timer keeps firing, a started call is carried through | `setInterval` and the event loop |
| `ClickFlow` | a started click goes on, what follows its row is executed | the regime that uses it lets no handler die |
| `LegacyBudget` | time goes on and events reach the worker (strong, since the bound on faults and other records interrupt them), a started handler goes on | keyspace notifications; where an event is missed the property says nothing |
| `Settlement` | midnight comes, jobs are started when due, what is started goes on | the cron decorator and the event loop |
| `CampaignCopies` | a started writer or reader goes on, queued jobs start, the list gets older | BullMQ and the list's time to live |
| `ContextEmbedding` | observers and the worker go on | BullMQ takes up a stalled job |
| `BidLogPipeline` | the job goes on | the same |
| `EmbeddingCache` | a lookup, a generation and a write end | the first and the last have a budget |

No visitor is assumed to click, dismiss, stay or ask twice. The other modules
have no liveness property and no fairness.

## 4. Proofs

Each theorem holds for every value of the constants: any number of auctions,
campaigns, requests, calls and clicks, any costs, budgets and times to live, and
any set of hazards. The properties are those the runs check. A property that
leaves a hazard out says so itself; where a theorem needs more than its property
says, the table says what. Every invariant was checked by TLC on the run's
instance before it was proved. The bounds of the runs (`MaxClock`, `LastDay`, `MaxFaults`
and the like) are constants like the others, and so arbitrary.

### Reservation: AuctionLedger

The first section of `AuctionLedger_proofs` proves what replacing one entry does to an amount
(`AmountUpdate`, `TotalsOnHold`, `TotalsOnSettle`), by splitting the set of
coins into those of the auction and the rest.

| theorem of `AuctionLedger_proofs` | statement |
|---|---|
| `TypeCorrect` | `Spec => []TypeOK` |
| `HoldsQueued` | `Spec => []HoldsAreQueued` |
| `TotalsMatch` | `Spec => []TotalsMatchLedger` |
| `BudgetKept` | `Spec => []TotalBudgetKept` |
| `AnswersAreHeld` | `Spec => AnswerHasHold` |
| `Implementation` | `Spec => KeepsPromise` |
| `KeysImplemented` | `Spec => KeysFollow` |
| `DailyKept` | `DaySpec => []DailyBudgetKept` |
| `DailyReservedMatches` | `DaySpec => []DailyReservedMatchesHolds` |

None of the invariants is inductive alone. `Core` adds two facts. `Linked` says
that an auction key is RESERVED exactly while the ledger says held, with the
same campaign, cost and date; without it the amount a script takes from a
document would be arbitrary. `OncePerRequest` says what a request that is still
reserving may find: nothing, its own reservation, or a marker young enough that
it cannot have expired yet. That is where `RequestLife < MarkerTtl` enters: a
request whose script may be sent again must not outlive the marker of its first
hold, or the auction would be reserved twice. `Accounts` adds the totals, whose
step lemmas use `AmountUpdate`. Each action has one lemma; actions that touch
neither keys nor ledger share `QuietStep`.

The last two are about `AuctionDays` and assume nothing of when resets come or scripts
arrive. `Daily` adds to `Core` what the two counters of a document mean when they are out
of step with the day. `Near`: what was sold today is at most `dailySpent` plus
today's `dailyReserved` plus one daily budget a disturbance. It is no equation, because
`dailySpent` runs from the last reset, whenever that was, and a late click adds
yesterday's money. Where today is undisturbed, today's `dailyReserved` is exactly
today's holds. `Within` is the bound itself, for every day up to today: it follows from
`Near` when a reservation passes the script's test, and a settlement adds nothing to what
is sold. `Dated` has what the steps need of dates (no request, hold or entry is of a
day to come, a hold bears the day of its entry). After a reset the counters cover
nothing, and `Within` says that one more daily budget covers what they did; a stray
reservation replaces a `dailyReserved` that is within the budget. That is why one
disturbance is worth one budget.

Assumptions: `LedgerAssumption` (auctions and campaigns are finite sets, costs
naturals) and `AuctionAssumption` (the constants' types, `RequestLife <
MarkerTtl`, distinct kinds of callers).

### Settlement

| theorem of `Settlement_proofs` | statement | without |
|---|---|---|
| `LocksGoAway` | `Spec => []LocksAreReleased` | a deletion, a failed call, a restart; edits that overlap jobs |
| `StoppedStaysUnsold` | `Spec => []StoppedIsNotSold` | overlap, a restart, the jobs that go by a snapshot |
| `LogsAreCovered` | `Spec => []SpentCoversLogs` | a click between a sum and its use, a restart |

The third column is the hypothesis inside the property. The steps of a job are
first reduced to what they do: a campaign is handled `Within` a phase, the job goes
`Onward`, a document or a row gets a status or sums (`WithinSteps`, `OnwardSteps`,
`DocSteps`, `RowSteps`). The invariant has parts for every behaviour (`Lawful`: what is
under way was allowed; `Exclusive`: without overlap one job or request at a time;
`Batched`: what a phase has to handle is in its batch) and one for each property:

* `Releasing`: what a job holds is in the batch of the phases to come and not
  handled in the one that unlocks, so that no job ends while it holds anything.
* `ActiveOnly`: what a job holds or is about to lock or unlock has an ACTIVE row.
* `Covered`: the document counts every click billed, logged or not, and from the sum
  to its use no billed click is without its log; then what replaces the document
  is what it counted.

The only assumption is `SettlementAssumption`, the types of the constants.

### Recording: ClickFlow

| theorem of `ClickFlow_proofs` | statement |
|---|---|
| `ClicksAreBilledAtMostOnce` | `Spec => []ClicksAreBilledOnce` |

The property says that a logged click was billed, with all TTLs, and that an auction
has one click log under `Deduplicating`: `HoldTtl + MarkerTtl <= ViewTtl` and
`MarkerTtl + CallLife <= ClickTtl`. That condition is sufficient, and the default TTLs do not meet
it; `twice` is what happens then. `Billing` says that whoever is past the commit has
billed. `Locks` is the chain of argument for the second part: as long as an auction
can be committed its page key is locked (`PageIsLocked`), so it has one view (`OneView`),
which is the one that clicks name (`FirstIsClicked`); the click key of that view outlasts
every request that found the auction committed (`ClickIsLocked`), and so there is
one log, or one request about to write it (`OneLog`). `ClickAssumption` has the types of
the constants and that the viewers are finitely many.

### CampaignCredit

| theorem of `CampaignCredit_proofs` | statement |
|---|---|
| `CreditTypeCorrect` | `Spec => []TypeOK`; the balance is a natural number |
| `HistoryExplained` | `Spec => []BalanceFollowsHistory` |
| `CreditIsKept` | `Spec => []CreditConserved`, in the regimes without overlap, clicks during a delete, failures and crashes |

The balance is computed from `seen`, read at the lock and written a few awaits
later, so neither is inductive. `Holds` is the missing fact: a request between
its lock and its commit that is going to change the balance holds the lock, what
it has seen is still the balance, and it takes no more than that. It survives the
steps of others because a commit needs the lock (`Spared`, `OthersFit`). `Knows`
says what a request has read by how far it has come (an update that commits has
found a row, a delete that refunds has read a document), which the types of what
it writes rest on. `Written` is the argument for a commit, `DocStep`, `CallStep`
and `RowStep` are shared by the actions that leave the balance alone. The only
assumption is `CreditAssumption`, the types of the constants.

`CreditConserved` speaks of campaigns at rest, so its invariant (`CreditInv`) must say
what is true on the way. While edits do not overlap one request edits (`Alone`), every
campaign it is not at work on is `Kept` (paid what it is worth, a document that counts its
clicks and has the budget of its row), and of its own campaign there is one predicate a
kind of request: a creation has taken nothing before its commit and the balance it was
promised is still there, since charges only raise it (`Creating`); an update has read the
budget the row still has, and takes what it is about to add (`Updating`); a delete
has read the clicks that were billed, and refunds the rest only once no document is
left to bill (`Deleting`). `EditStep` gives what one such step leaves alone, `ChargeConserves`
the same for a charge, which overlaps everything. What was paid is the number of units
of credit of a campaign in the history; `UnitsAdded` counts those of a new entry.

### The other components

One inductive invariant each, with one lemma or step per action.

| theorem | statement | what is added to make it inductive |
|---|---|---|
| `LegacyBudget_proofs!BudgetsHold` | `Spec => []SpentWithinBudget` | the documents' type: amounts are naturals up to the budgets. An addition is checked and a subtraction covered inside one script, so that no interleaving, crash or repeated rollback matters |
| `LegacyBudget_proofs!SpentIsKept` | `Spec => []SpentCoversClicks` | `Charging`: an auction has spent its campaign's cost until it takes it back (`Holds`), and the document has spent the cost of each auction that `Held` it (`Covers`). A view with a row is of one auction and shows its winner (`Owned`), so that the clicks of a campaign are at most the auctions that hold it; what is taken back is taken from the campaign of the row (`OfItsCampaign`), once (`AttachedOnce`) |
| `LegacyBudget_proofs!RecordsSettleOnce` | `Spec => []SettledOnce` | `Settling`: one handler at a time (`Solo`), a page key that expires no later than the record of its view (`PageFirst`), a record whose event is out is gone (`ExpiredIsGone`), and who may settle a view, or has found what it takes to, finds it open (`Promised`) |
| `Jobs_proofs!OneFlightPerText` | `Spec => []SingleFlight` | `Tracked`: who waits waits for a flight that is registered under its text |
| `Jobs_proofs!SlotsAreCounted` | `Spec => []SlotsAreUsed` | `Counted`: `active` is the number of running background flights; the queue has each waiting flight once (`Waits`, `Once`) |
| `Jobs_proofs!PendingPagesHaveJobs` | `ContextSpec => []PendingHasJob` | `Tidy`: while the worker tidies up, the page is READY and nobody can start anew; `Worked`: PENDING has a job or a request about to add one, the lock a job or a request that holds it. The lock leaves before the job |
| `Jobs_proofs!BidsAreLoggedOnce` | `BidSpec => []BidsAreLogged` | `RowsComeFirst`: what is read or published has rows; `WatchersHear`: whoever watched ever since the rows came is told |
| `Requests_proofs!RegisteredBlogsAreServed` | `BlogSpec => []BlogsAreServed` | `RowComesFirst`: Redis never knows a blog MySQL does not; `Honest`: what a guard has read so far is true of the rows; `OneEach`: one row a domain |
| `Requests_proofs!UsedImagesAreKept` | `ImageSpec => []UsedImagesStay` | `ListedIsUnused`: what a quick job has listed was there before it began, when no form was open, and what it may delete was not in use |
| `Requests_proofs!AccountsStaySound` | `AccountSpec => []AccountsAreSound` | `OneCreates`, `OneCredits`: of the requests that overlap one writes the row and one the first login; `OwnAddress`, `AsRegistered`: a row and its account are of the person who asked; `InHands`: unless a callback stopped, a user without an account, or a first login without its credit, is in the hands of one |
| `Requests_proofs!ClicksAreOfTheirAd`, `PageLeavesNoView`, `DecisionsKnowTheirPage` | `PageSpec => []ClickIsOfItsAd`, `[]ViewsAreSettled`, `[]DecisionsAreOfTheirPage` | `PageInv`: what the visitor sees is what the tracker knows (`OneAd`); a recorded view was reported or is the one the tracker will report (`Settled`); there is one load at a time, and the context is of the page it is for (`OnePage`); in automatic mode the second ad is loaded when the reader is interested, in place of the first (`Watched`, `InTurn`) |

`LegacyAssumption` and `CacheAssumption` have the types of constants (the map, the slots and
the queue of the cache have room for at least one). `AccountAssumption` says that nobody's
address is not somebody's and that a plan is a set of visits and callbacks.
`PageAssumption` says that no zone is called like the absence of one, and that the first two
zones of the first page differ.

### Copies: CampaignCopies

| theorem of `CampaignCopies_proofs` | statement |
|---|---|
| `CopiesKeepTypes` | `Spec => []TypeOK` |
| `CopiesAgreeAtRest` | `Spec => []CopiesAgree` |
| `EmbeddingsOfText` | `Spec => []EmbeddingsFollowText` |
| `CopiesInvHolds` | `Spec => []CopiesInv`, from which they follow |

The properties speak of rest, and of each copy as far as the regime's hazards leave it
alone; so the invariant has one part a copy, under the hazards that part needs
to be absent, and says of each step of a writer what is true on the way:

* `Listing`: a document has its key in the set, unless its load is about to put it
  there. Who takes a key out has found no document and will find none: without
  expiry because the campaign is gone, and with expiry because no writer is at work.
* `Carrying`: what a writer carries is the document it read back. `Following`: the
  vectors are the document's, but between the steps that replace them.
* `Embedded`: what is embedded is the text of the row, but during an edit. Where nothing
  is embedded, a job waits, somebody is about to ask for one, or the last one failed.
* `Current`: a list is what a reader finds now, or a writer is still going to throw it away
  (`Announcing`). `Served`: the same of the snapshot, and of the events (`mutation`) and the
  list a snapshot is being built from.

`Roles` (a writer keeps to the steps of its kind) makes the case split per writer small, and
`Alone` and `InTurn` are what the absence of the hazards `overlap` and `eager` means.
`CopiesAssumption` has the types of the constants, and that the mark of a missing vector
is not the mark of a missing event.

### Decision: Matching

| theorem of `Requests_proofs` | statement |
|---|---|
| `WinnerIsKept` | `MatchSpec => []HybridKeepsWinner` |
| `CandidatesCanBeServed` | `MatchSpec => []CandidatesAreServable` |
| `MatchInvHolds` | `MatchSpec => []MatchInv`, from which they follow |

First comes what the operators return. `Ranking` says that a finite set under a
strict total order has a sorted sequence: the place of an element is one more than the number
of those ahead of it. So the choice in `Sorted` finds one, and what cuts,
deduplicates, fuses, caps and locks returns is known by its members and its order, with no
induction. All orders of the code end with the id, hence are total.

The invariant then follows the request. `HitsInv`: as long as nothing changed, a hit is
searchable and near enough. `PrimaryInv`: what is loaded was hit, and is none of the
campaigns known to be stopped. `FusedInv`: after the fusion those found by vector are the
hits. `FallbackInv`: a search that worked comes to nothing only if nobody is near.
`ResultInv` carries the second property to the ranking, whose only exception is the
fallback campaign, which is read by its id. `HybridInv` is the first one:
`LockWinner` leaves one candidate found by vectors ahead of every extra, and while nothing
changed it is the winner of the vectors.

`MatchAssumption`: campaigns are finitely many and numbered, as their ids are ordered;
costs are naturals; a limit is positive, as `getPositiveIntEnv` makes it; the
mark of a missing vector is no similarity. What a score adds up (folds over tags) the
theorems do not need: the proofs use which campaigns are ranked and how they compare.

### Only model-checked

Every invariant and action property of the passing runs is proved, and so are the
refinements. Left to TLC are the liveness properties, which need fairness and
ENABLED: `HoldsAreSettled`, `ViewedIsSettled`, `BilledReachesLog`, `DocsConverge`,
`ListConverges`, `CallsAreAnswered`, `PendingIsResolved`, `QueuedIsLogged`.

## 5. Disagreements found

Three are runs that expect a violation, with the line they contradict quoted in
`PROJECT.json`: `twice`, `reactivated` and `oldtext`. The others can be seen with a run of this
directory after the change named here. The passing properties leave out the
hazard in question by name, so that what they say is true of the code.

Reservation and recording

* The reset comes at the server's own midnight, 9 hours from that of KST where the
  server runs in UTC, and starts the day's counters again: a KST day can be sold
  twice (`campaign-cron.service.ts:33`). `DailyBudgetKept` says that this is all: one more
  daily budget for each reset after a sale.
* A script stamped before midnight turns `dailyReservedDate` back, and the day it arrives
  in can be sold once more too (`lua-script.ts:149`). With `MaxDisturbances = 0` the
  run has neither, and the daily budget is kept exactly.
* A post loaded again within 15 minutes is answered with the view id of its earlier
  auction (`twice` with `ViewIsOfItsAuction`; `sdk/sdk.service.ts:271`).

Legacy mode (`legacy` with `Without(...)` of the property emptied)

* A dismiss, the worker and a click each read the record and then act: two of
  them subtract the same cost, or a click that is logged is taken back. So does
  the worker after a crash between the click log and the deletion of the record.
* A page seen again gets a new record for its old view with the campaign of the
  new auction, and can be clicked a second time. During a dismiss it leaks.
* An event missed during a restart leaves the amount spent, and so does a winner
  that nobody ever views.

Credit and editing

* Two deletes that overlap refund twice (`credit` with `RemainderRefunded` and `overlap`;
  `campaign.service.ts:665`), and a raise that overlaps a delete is not refunded.
* A creation refused at the lock leaves an unpaid row (`CreditConserved`
  without its condition, with `overlap`; the TODO at `campaign.service.ts:245` knows). A click during a delete is
  billed and refunded (`RemainderRefunded` with `click`).
* An update refused for an unknown tag leaves the campaign PAUSED in Redis
  (`CopiesAgree` of `CampaignCredit` with `refusal`; `campaign.service.ts:365`).

Settlement

* One campaign deleted during the nightly job makes setting its status throw, and
  the rest of its batch stays PAUSED until the next job (`campaign-cron.service.ts:354`).
* A pause by the owner while the job starts the campaign is overwritten.
* A click between the sum and the replacement is lost from Redis and MySQL until
  the next hourly job (`campaign-cron.service.ts:437`).

Copies

* An edit queues the embedding job before it writes the new text
  (`campaign.service.ts:562`): a worker that starts at once embeds the old text and
  finds nothing wrong (run `oldtext`).
* A job for a campaign has one attempt (`campaign.service.ts:562` and the queue's defaults
  give no other): after an error of the model, of its version or of Redis the campaign has no
  vectors until it is edited or loaded again (`worker/embedding.worker.ts:76`).
  Errors in the replies of a pipeline (`redis-campaign.cache.repository.ts:693`) are not
  noticed at all.
* What the worker embeds reaches the server's snapshot only when a lookup by id finds the
  campaign without its vectors and reads it again, and the server's list at its next
  refresh (`campaign-serving-snapshot.service.ts:79`). A lookup by tag repairs nothing.
* Writers that overlap publish what each read back, in either order; a repair
  can bring back a campaign that was removed meanwhile; a refresh stores a list
  read before it was invalidated; after an error the previous or the empty list
  is kept as if it were fresh. The list recovers at its next refresh, the
  snapshot and the vectors at the next event of the campaign.
* A refresh removes keys whose documents were missing, where a creation may have
  put them back. With the snapshot disabled nothing updates it.

Embeddings

* A failed job keeps its id in the queue, so that observing the page again sets
  PENDING and adds nothing: no work until the lock or the state expires
  (`jobs` with the invariant
  `PendingIsWorkedOn`; `context-embedding.service.ts:158`).
* A request that has read nothing may claim the page after its job has finished:
  a second job runs and READY goes back to PENDING, where the comment at
  `context-embedding.service.ts:122` says that one request registers the job.
* A worker that dies twice leaves PENDING until the state expires; `add` that
  fails after the job was taken may overwrite READY by FAILED.

Browser, blogs, images, accounts

* In manual mode with two zones a click on the first ad opens and bills the
  second, since the tracker knows only the last. A click before the view is
  answered opens nothing, is logged nowhere and is never dismissed. An answer
  that comes after the next ad was shown is taken for its view.
* A third zone, for which the script warns that it will stay empty, is filled at
  the next change of the document (`BoostAdSDK.ts:382`). A load that starts while
  another observes, or after a navigation, may ask with the page before.
* A creation that fails after its row leaves a blog the owner was told failed,
  whose domain is taken.
* A domain is registered once as it is written, while the guard ignores `www.`: of two
  rows that differ only in it, each key serves on the domain of the other
  (`common/guards/blog-key-validation.guard.ts:31`).
* An upload that waits for its form when the clean-up starts is deleted
  (`UsedImagesStay` without its condition on `slow`).
* A callback that stops between the user's row and her account's leaves an address
  that can neither log in nor register (`AccountsAreSound` without `ends = 0`;
  `auth/auth.service.ts:277`). One that stops between the first-login time and the
  credit loses the welcome credit (`user/user.service.ts:19`).
* The callback of a login already sets the first-login time, so the publisher's
  entry page (`frontend/src/1_app/lib/loader.ts:13`), which asks again, is never told
  that this is the first login.

## 6. Not modelled

* User, publisher and log queries: reads of the database without state of their
  own. Balance increments are in `ClickFlow`, `CampaignCredit` and `Accounts`.
* Metrics, load test, benchmark, seed scripts: measurement and test data that change
  no state of the product. They are about a quarter of the lines.
* The dashboard: React views over the HTTP interface, the largest part of the
  repository. One hook keeps state of interest, `useRealtimeBids`, where the answer
  of the list may overwrite bids that were streamed meanwhile, or show them twice.
* Parts of modelled components: the time and batch limits of one sweep and
  conflicts between the two budget modes (code -2); normalisation of words, the
  internals of the vector index, and the scorer no configured matcher uses; the
  listings, visitor cookie and role checks of blogs; tag extraction, DOM insertion
  and looks of the script; contents of tokens, the cookie guard and logout; a
  payment that is not approved; a second server process, whose list and snapshot hear
  nothing of this one's events, and Redis calls of the server's writers that fail in
  `CampaignCopies`; the SCAN a refresh falls back to when the set of
  keys is empty, which one campaign cannot show.
* Fields that no property reads (names, post addresses, scores, descriptions).
