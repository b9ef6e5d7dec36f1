----------------------------- MODULE BidLogPipeline -----------------------------
(***************************************************************************)
(* From the end of an auction to the dashboards: a job for its bids, a     *)
(* worker that stores one row for each bid and publishes them, and the     *)
(* servers that pass what is published on to the advertisers who watch.    *)
(* A job that fails is tried again from its beginning.                     *)
(***************************************************************************)
EXTENDS Naturals, FiniteSets

CONSTANTS
    Auctions, Campaigns,
    Candidates,   \* the candidates of each auction
    UserOf,       \* the advertiser of each campaign
    JobAttempts,  \* how often a job is tried
    MaxMishaps    \* bound: calls that fail, workers that die, servers that lose their subscription

VARIABLES
    bidJob,      \* the job of each auction
    rows,        \* MySQL: how many rows each bid has
    inbox,       \* auctions whose message is on its way to the server
    subscribed,  \* is the server subscribed to the channel
    watching,    \* advertisers with a stream open
    heard,       \* how often each advertiser was told of each bid
    attentive,   \* history: who watched ever since the auction's bids were first stored
    mishaps

bidVars == <<bidJob, rows, inbox, subscribed, watching, heard, attentive, mishaps>>

-----------------------------------------------------------------------------
Users == {UserOf[c] : c \in Campaigns}
Bids  == {b \in Auctions \X Campaigns : b[2] \in Candidates[b[1]]}

BidsOf(a) == {b \in Bids : b[1] = a}

Told == 1 + JobAttempts

BidTypeOK ==
    /\ bidJob \in [Auctions -> [at : {"open", "waiting", "upsert", "find", "publish", "done", "failed", "unqueued"},
                                made : 0..JobAttempts, stalled : 0..1]]
    /\ rows \in [Bids -> Nat]
    /\ inbox \subseteq Auctions /\ subscribed \in BOOLEAN
    /\ watching \subseteq Users
    /\ heard \in [Bids -> 0..Told + 1]
    /\ attentive \in [Auctions -> SUBSET Users]
    /\ mishaps \in 0..MaxMishaps

BidInit ==
    /\ bidJob = [a \in Auctions |-> [at |-> "open", made |-> 0, stalled |-> 0]]
    /\ rows = [b \in Bids |-> 0]
    /\ inbox = {} /\ subscribed = TRUE
    /\ watching = {}
    /\ heard = [b \in Bids |-> 0]
    /\ attentive = [a \in Auctions |-> {}]
    /\ mishaps = 0

Mishap == mishaps < MaxMishaps /\ mishaps' = mishaps + 1

At(a, at, next) == bidJob[a].at = at /\ bidJob' = [bidJob EXCEPT ![a].at = next]

-----------------------------------------------------------------------------
\* The last call of an auction; the reservation has been made, and the request fails with it.
QueueBids(a) ==
    /\ At(a, "open", "waiting")
    /\ UNCHANGED <<rows, inbox, subscribed, watching, heard, attentive, mishaps>>

QueueingFails(a) ==
    /\ At(a, "open", "unqueued") /\ Mishap
    /\ UNCHANGED <<rows, inbox, subscribed, watching, heard, attentive>>

StartBidJob(a) ==
    /\ At(a, "waiting", "upsert")
    /\ UNCHANGED <<rows, inbox, subscribed, watching, heard, attentive, mishaps>>

InsertBids(a) ==
    /\ At(a, "upsert", "find")
    /\ rows' = [b \in Bids |-> IF b[1] = a THEN rows[b] + 1 ELSE rows[b]]
    /\ attentive' = [attentive EXCEPT ![a] = watching]
    /\ UNCHANGED <<inbox, subscribed, watching, heard, mishaps>>

\* One statement: a bid that has a row already keeps it.
UpsertBids(a) ==
    /\ At(a, "upsert", "find")
    /\ rows' = [b \in Bids |-> IF b[1] = a THEN 1 ELSE rows[b]]
    /\ attentive' = [attentive EXCEPT ![a] = IF \E b \in BidsOf(a) : rows[b] > 0 THEN @
                                             ELSE IF subscribed THEN watching ELSE {}]
    /\ UNCHANGED <<inbox, subscribed, watching, heard, mishaps>>

\* The rows are read again for their ids; one that is missing is an error.
FindAnyBids(a) ==
    /\ At(a, "find", "publish")
    /\ \A b \in Bids : rows[b] > 0
    /\ UNCHANGED <<rows, inbox, subscribed, watching, heard, attentive, mishaps>>

FindBids(a) ==
    /\ At(a, "find", "publish")
    /\ \A b \in BidsOf(a) : rows[b] > 0
    /\ UNCHANGED <<rows, inbox, subscribed, watching, heard, attentive, mishaps>>

\* A message reaches who is subscribed at that time.
PublishBids(a) ==
    /\ At(a, "publish", "done")
    /\ inbox' = IF subscribed THEN inbox \union {a} ELSE inbox
    /\ UNCHANGED <<rows, subscribed, watching, heard, attentive, mishaps>>

\* What fails is tried again, from the start; after the last time the queue keeps the job.
Retried(job) ==
    IF job.made + 1 >= JobAttempts THEN [job EXCEPT !.at = "failed", !.made = @ + 1]
    ELSE [job EXCEPT !.at = "waiting", !.made = @ + 1]

\* An error, or the end of the worker, may come after the call has had its effect.
MayHavePublished(a) ==
    inbox' \in {inbox, IF bidJob[a].at = "publish" /\ subscribed THEN inbox \union {a} ELSE inbox}

BidJobFails(a) ==
    /\ bidJob[a].at \in {"upsert", "find", "publish"} /\ Mishap
    /\ bidJob' = [bidJob EXCEPT ![a] = Retried(@)]
    /\ MayHavePublished(a)
    /\ UNCHANGED <<rows, subscribed, watching, heard, attentive>>

\* A job whose worker died is given to another one, once.
BidWorkerDies(a) ==
    /\ bidJob[a].at \in {"upsert", "find", "publish"} /\ Mishap
    /\ bidJob' = [bidJob EXCEPT ![a] = IF @.stalled = 0 THEN [@ EXCEPT !.at = "waiting", !.stalled = 1]
                                       ELSE [@ EXCEPT !.at = "failed"]]
    /\ MayHavePublished(a)
    /\ UNCHANGED <<rows, subscribed, watching, heard, attentive>>

-----------------------------------------------------------------------------
\* subscribeToBidEvents, and the end of the stream.
Watch(u) ==
    /\ u \notin watching
    /\ watching' = watching \union {u}
    /\ UNCHANGED <<bidJob, rows, inbox, subscribed, heard, attentive, mishaps>>

Unwatch(u) ==
    /\ u \in watching
    /\ watching' = watching \ {u}
    /\ attentive' = [a \in Auctions |-> attentive[a] \ {u}]
    /\ UNCHANGED <<bidJob, rows, inbox, subscribed, heard, mishaps>>

\* Each event of a message goes to the streams of its advertiser.
HandlePubSubMessage(a) ==
    /\ a \in inbox /\ inbox' = inbox \ {a}
    /\ heard' = [b \in Bids |-> IF b[1] = a /\ UserOf[b[2]] \in watching THEN heard[b] + 1 ELSE heard[b]]
    /\ UNCHANGED <<bidJob, rows, subscribed, watching, attentive, mishaps>>

\* The connection is lost, with what was on its way; the client subscribes again.
LoseSubscription ==
    /\ subscribed /\ Mishap
    /\ subscribed' = FALSE /\ inbox' = {}
    /\ attentive' = [a \in Auctions |-> {}]
    /\ UNCHANGED <<bidJob, rows, watching, heard>>

Resubscribe ==
    /\ ~subscribed /\ subscribed' = TRUE
    /\ UNCHANGED <<bidJob, rows, inbox, watching, heard, attentive, mishaps>>

-----------------------------------------------------------------------------
BidJobStep == \E a \in Auctions : StartBidJob(a) \/ UpsertBids(a) \/ FindBids(a) \/ PublishBids(a)

BidNext ==
    \/ BidJobStep
    \/ \E a \in Auctions : QueueBids(a) \/ QueueingFails(a) \/ BidJobFails(a) \/ BidWorkerDies(a)
    \/ \E a \in Auctions : HandlePubSubMessage(a)
    \/ \E u \in Users : Watch(u) \/ Unwatch(u)
    \/ LoseSubscription \/ Resubscribe

BidSpec == BidInit /\ [][BidNext]_bidVars /\ WF_bidVars(BidJobStep)

-----------------------------------------------------------------------------
(***************************************************************************)
(* However often a job is tried, a bid is logged once; what a dashboard is *)
(* told of is in the log; and a job that is done has logged its bids and   *)
(* told each advertiser who was watching all the time, unless the server   *)
(* lost its subscription.                                                  *)
(***************************************************************************)
BidsAreLogged ==
    /\ \A b \in Bids : rows[b] <= 1
    /\ \A b \in Bids : heard[b] > 0 => rows[b] = 1
    /\ \A a \in Auctions : bidJob[a].at = "done" =>
         \A b \in BidsOf(a) : rows[b] = 1 /\ (UserOf[b[2]] \in attentive[a] /\ a \notin inbox => heard[b] > 0)

(***************************************************************************)
(* The bids of an auction that has queued them are all logged in the end,  *)
(* unless the job has failed each time.                                    *)
(***************************************************************************)
QueuedIsLogged ==
    \A a \in Auctions :
        bidJob[a].at = "waiting" ~>
            (bidJob[a].at = "failed" \/ (bidJob[a].at = "done" /\ \A b \in BidsOf(a) : rows[b] = 1))

=============================================================================
