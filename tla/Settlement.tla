------------------------------ MODULE Settlement ------------------------------
(***************************************************************************)
(* What the cron jobs do to campaigns: end and pause them, replace what    *)
(* they have spent by the sum of their click logs, empty the day, start    *)
(* the scheduled ones.                                                     *)
(*                                                                         *)
(* A campaign is a row in MySQL and a document in Redis; both carry a      *)
(* status and what was spent today and in all.  A job reads one, decides,  *)
(* and writes both, one call after the other, while clicks, the owner,     *)
(* another job and a restart of the server do the same.                    *)
(***************************************************************************)
EXTENDS Integers, FiniteSets, Sequences

CONSTANTS
    Campaigns,
    Clicks,       \* clicks, one use each
    None,
    LastDay,      \* bound: days are 0..LastDay, of the server and of KST alike
    StartDay,     \* first day of a campaign
    EndDay,       \* the day at whose midnight it has ended
    Cost,         \* of a click
    DailyBudget,
    TotalBudget,
    Tolerance,    \* by how much the total may be off unnoticed (100 won)
    MaxFaults,    \* bound: failed calls and restarts
    Regimes       \* sets of hazards; one of them is what may happen

(***************************************************************************)
(* Hazards.  nightly, manual, migrate: that job runs, besides the hourly   *)
(* one; overlap: jobs and edits overlap; race: a click is handled between  *)
(* the sums of a job and what it does with them; edit, delete: the owner   *)
(* pauses, resumes or deletes; clicks: there is more than one; crash: the  *)
(* handler of a click stops half way; fault: a call of a job fails;        *)
(* restart: the server restarts.                                           *)
(***************************************************************************)
Hazards == {"nightly", "manual", "migrate", "overlap", "race", "edit", "delete",
            "clicks", "crash", "fault", "restart"}

Days == 0..LastDay

ASSUME SettlementAssumption ==
    /\ IsFiniteSet(Clicks)
    /\ None \notin Campaigns \union Days
    /\ LastDay \in Nat
    /\ StartDay \in [Campaigns -> Nat] /\ EndDay \in [Campaigns -> Nat]
    /\ {Cost, DailyBudget, TotalBudget, Tolerance, MaxFaults} \subseteq Nat
    /\ Cost > 0
    /\ Regimes \subseteq SUBSET Hazards

VARIABLES
    day,     \* today
    row,     \* campaigns in MySQL
    doc,     \* campaign:{id} in Redis
    click,   \* each click: how far its handler is, its campaign, the day of its log
    job,     \* each kind of job: what it has read and where it is
    due,     \* jobs that are going to be started once
    owner,   \* the request of the owner that is being handled
    loader,  \* the load of all campaigns when the server starts
    faults,  \* bound: failed calls and restarts so far
    allowed  \* the hazards of this behaviour

vars == <<day, row, doc, click, job, due, owner, loader, faults, allowed>>

-----------------------------------------------------------------------------
Statuses == {"PENDING", "ACTIVE", "PAUSED", "ENDED"}

NoDoc == [total |-> None]
Docs  == [status : Statuses, daily : Nat, total : Nat]
Rows  == [status : Statuses, daily : Nat, total : Nat, deleted : BOOLEAN]

(***************************************************************************)
(* Jobs are sequences of phases.  A phase handles the campaigns of its     *)
(* batch and ends when all are handled (Promise.all, or a loop).           *)
(***************************************************************************)
Plan ==
    [hourly  |-> <<"sum", "sumAll", "lock", "replace", "unlock">>,
     nightly |-> <<"load", "stop", "pause", "sum", "sumAll", "lock", "replace", "unlock",
                   "resetRows", "resetLock", "resetDocs", "resetUnlock", "find", "start">>,
     manual  |-> <<"load", "stop", "pause", "find", "start",
                   "resetRows", "resetLock", "resetDocs", "resetUnlock">>,
     migrate |-> <<"sumAll", "lock", "replace", "unlock">>]

Kinds  == DOMAIN Plan
Phases == UNION {{Plan[k][i] : i \in DOMAIN Plan[k]} : k \in Kinds}
Once   == Kinds \ {"hourly"}

Progress == {"todo", "half", "alone", "rowed", "done"}

Idle == [pc |-> 0]
JobRecords ==
    [pc : Nat \ {0}, snap : [Campaigns -> Docs \union {NoDoc}],
     daily : [Campaigns -> Nat], total : [Campaigns -> Nat],
     held : SUBSET Campaigns, part : [Campaigns -> Progress]]

NewClick == [at |-> "new"]
ClickRecords ==
    [at : {"billed", "logged", "daily", "done", "dead"}, campaign : Campaigns,
     day : Days \union {None}]

NoEdit == [at |-> "none"]
Over   == [at |-> "over"]  \* bound: one request
Edits  == [at : {"asked", "paused", "dropped", "saved"}, campaign : Campaigns,
           to : {"ACTIVE", "PAUSED", "deleted"}]

NoLoad == [rows |-> None]
Loads  == [rows : [Campaigns -> Rows], todo : SUBSET Campaigns] \union {NoLoad}

TypeOK ==
    /\ day \in Days
    /\ row \in [Campaigns -> Rows]
    /\ doc \in [Campaigns -> Docs \union {NoDoc}]
    /\ click \in [Clicks -> ClickRecords \union {NewClick}]
    /\ job \in [Kinds -> JobRecords \union {Idle}]
    /\ \A k \in Kinds : job[k] # Idle => job[k].pc \in DOMAIN Plan[k]
    /\ due \subseteq Once
    /\ owner \in Edits \union {NoEdit, Over}
    /\ loader \in Loads
    /\ faults \in 0..MaxFaults
    /\ allowed \in Regimes

Init ==
    /\ day = 0
    /\ row = [c \in Campaigns |->
                [status |-> IF StartDay[c] = 0 THEN "ACTIVE" ELSE "PENDING",
                 daily |-> 0, total |-> 0, deleted |-> FALSE]]
    /\ doc = [c \in Campaigns |->
                [status |-> row[c].status, daily |-> 0, total |-> 0]]
    /\ click = [k \in Clicks |-> NewClick]
    /\ job = [k \in Kinds |-> Idle]
    /\ allowed \in Regimes
    /\ due = allowed \intersect {"manual", "migrate"}
    /\ owner = NoEdit
    /\ loader = NoLoad
    /\ faults = 0

-----------------------------------------------------------------------------
May(hazard) == hazard \in allowed

Working(k) == job[k] # Idle

Phase(k) == Plan[k][job[k].pc]

InPhase(k, phase) == Working(k) /\ Phase(k) = phase

SetStatus(d, c, status) == [d EXCEPT ![c].status = status]

\* Sums over the click logs (aggregateClicksByDate, aggregateTotalClicksByCampaign).
LoggedOn(c, d) == Cost * Cardinality({k \in Clicks :
    click[k] # NewClick /\ click[k].campaign = c /\ click[k].day = d})

Logged(c) == Cost * Cardinality({k \in Clicks :
    click[k] # NewClick /\ click[k].campaign = c /\ click[k].day # None})

Ended(c) == day >= EndDay[c]

Exhausted(d) == d.daily >= DailyBudget \/ d.total >= TotalBudget

\* The campaigns that a phase of the job with record r, of kind k, handles.
Batch(k, r) ==
    LET phase == Plan[k][r.pc] IN
    CASE phase \in {"lock", "replace", "unlock"} ->
            {c \in Campaigns : (IF k = "migrate" THEN r.total[c] ELSE r.daily[c]) > 0}
      [] phase \in {"resetLock", "resetDocs", "resetUnlock"} ->
            {c \in Campaigns : r.snap[c] # NoDoc /\ r.snap[c].status \in {"ACTIVE", "PAUSED"}}
      [] phase = "stop" ->
            {c \in Campaigns : r.snap[c] # NoDoc /\ r.snap[c].status # "ENDED" /\ Ended(c)}
      [] phase = "pause" ->
            {c \in Campaigns : r.snap[c] # NoDoc /\ r.snap[c].status = "ACTIVE"
                               /\ Exhausted(r.snap[c])}
      [] phase = "start" ->
            {c \in Campaigns : ~row[c].deleted /\ row[c].status = "PENDING"
                               /\ day >= StartDay[c] /\ ~Ended(c)}
      [] OTHER -> {}

Begin(k, r) ==
    LET batch == Batch(k, r)
    IN  [r EXCEPT !.part = [c \in Campaigns |-> IF c \in batch THEN "todo" ELSE "done"]]

\* The record r moves on to the next phase, or the job ends.
After(k, r) ==
    IF r.pc = Len(Plan[k]) THEN Idle
    ELSE Begin(k, [r EXCEPT !.pc = @ + 1, !.held = IF Plan[k][r.pc] \in {"unlock", "resetUnlock"}
                                                   THEN {} ELSE @])

At(k, phase, c, progress) == InPhase(k, phase) /\ job[k].part[c] = progress

Did(k, c, progress) == job' = [job EXCEPT ![k].part[c] = progress]

\* In a loop, one campaign is handled after the other.
OneAtATime(k) == \A c \in Campaigns : job[k].part[c] \in {"todo", "done"}

\* The job throws: nothing unlocks what it locked.
Throw(k) == job' = [job EXCEPT ![k] = Idle]

OnlyJob == UNCHANGED <<day, row, doc, click, due, owner, loader, faults, allowed>>
JobAndDoc == UNCHANGED <<day, row, click, due, owner, loader, faults, allowed>>
JobAndRow == UNCHANGED <<day, doc, click, due, owner, loader, faults, allowed>>

-----------------------------------------------------------------------------
(***************************************************************************)
(* Starting a job, and the phases that are one call.                       *)
(***************************************************************************)
Quiet == \A k \in Kinds : ~Working(k)

Asked == owner \notin {NoEdit, Over}

\* A job of kind k whose sums are taken and not yet written.
Summing(k) ==
    /\ Working(k)
    /\ Phase(k) \in {"lock", "replace"} \/ (Phase(k) = "sumAll" /\ k # "migrate")

UnloggedClick == \E k \in Clicks : click[k].at = "billed"

NewJob == [pc |-> 1, snap |-> [c \in Campaigns |-> NoDoc],
           daily |-> [c \in Campaigns |-> 0], total |-> [c \in Campaigns |-> 0],
           held |-> {}, part |-> [c \in Campaigns |-> "done"]]

StartJob(k) ==
    /\ ~Working(k)
    /\ k \in Once => k \in due
    /\ May("overlap") \/ (Quiet /\ ~Asked)
    /\ due' = due \ {k}
    /\ job' = [job EXCEPT ![k] = NewJob]
    /\ UNCHANGED <<day, row, doc, click, owner, loader, faults, allowed>>

\* getAllCampaigns; what the process has cached is the documents of a moment ago.
Load(k) ==
    /\ InPhase(k, "load")
    /\ job' = [job EXCEPT ![k] = After(k, [@ EXCEPT !.snap = doc])]
    /\ OnlyJob

\* The nightly job sums up yesterday.
SumDay(k) ==
    /\ InPhase(k, "sum")
    /\ May("race") \/ ~UnloggedClick
    /\ LET d == IF k = "nightly" THEN day - 1 ELSE day
       IN  job' = [job EXCEPT ![k] =
                     After(k, [@ EXCEPT !.daily = [c \in Campaigns |-> LoggedOn(c, d)]])]
    /\ OnlyJob

SumAll(k) ==
    /\ InPhase(k, "sumAll")
    /\ May("race") \/ ~UnloggedClick
    /\ job' = [job EXCEPT ![k] =
                 After(k, [@ EXCEPT !.total = [c \in Campaigns |-> Logged(c)]])]
    /\ OnlyJob

\* UPDATE campaign SET daily_spent = 0, without WHERE.
ResetRows(k) ==
    /\ InPhase(k, "resetRows")
    /\ row' = [c \in Campaigns |-> [row[c] EXCEPT !.daily = 0]]
    /\ job' = [job EXCEPT ![k] = After(k, @)]
    /\ JobAndRow

Find(k) ==
    /\ InPhase(k, "find")
    /\ job' = [job EXCEPT ![k] = After(k, @)]
    /\ OnlyJob

NextPhase(k) ==
    /\ Working(k)
    /\ Phase(k) \notin {"load", "sum", "sumAll", "resetRows", "find"}
    /\ \A c \in Campaigns : job[k].part[c] = "done"
    /\ job' = [job EXCEPT ![k] = After(k, @)]
    /\ OnlyJob

-----------------------------------------------------------------------------
(***************************************************************************)
(* Stop, pause and start: one store, then the other.  The document of a    *)
(* campaign that is gone cannot get a status; the error is swallowed.      *)
(***************************************************************************)
SyncCacheStatus(c, status) ==
    doc' = IF doc[c] = NoDoc THEN doc ELSE SetStatus(doc, c, status)

\* stopExpiredCampaigns and pauseOverspentCampaigns: Redis first.
Target == [stop |-> "ENDED", pause |-> "PAUSED"]

StopInRedis(k, c) ==
    /\ Working(k) /\ Phase(k) \in DOMAIN Target
    /\ job[k].part[c] = "todo"
    /\ OneAtATime(k)
    /\ SyncCacheStatus(c, Target[Phase(k)])
    /\ Did(k, c, "half")
    /\ JobAndDoc

StopInMySQL(k, c) ==
    /\ Working(k) /\ Phase(k) \in DOMAIN Target
    /\ job[k].part[c] = "half"
    /\ row' = SetStatus(row, c, Target[Phase(k)])
    /\ Did(k, c, "done")
    /\ JobAndRow

\* startScheduledCampaigns: the database first.
StartInMySQL(k, c) ==
    /\ At(k, "start", c, "todo")
    /\ OneAtATime(k)
    /\ row' = SetStatus(row, c, "ACTIVE")
    /\ Did(k, c, "half")
    /\ JobAndRow

StartInRedis(k, c) ==
    /\ At(k, "start", c, "half")
    /\ SyncCacheStatus(c, "ACTIVE")
    /\ Did(k, c, "done")
    /\ JobAndDoc

-----------------------------------------------------------------------------
(***************************************************************************)
(* Locking a batch: ACTIVE campaigns are PAUSED in Redis, remembered, and  *)
(* made ACTIVE again afterwards.  Setting the status of a document that is *)
(* gone throws, and with it the whole job.                                 *)
(***************************************************************************)
Hold(k, c) ==
    job' = [job EXCEPT ![k].part[c] = "done", ![k].held = @ \union {c}]

\* Reconciliation looks at the document before it locks it ...
ReadForLock(k, c) ==
    /\ At(k, "lock", c, "todo")
    /\ Did(k, c, IF doc[c] # NoDoc /\ doc[c].status = "ACTIVE" THEN "half" ELSE "done")
    /\ OnlyJob

Lock(k, c) ==
    /\ At(k, "lock", c, "half")
    /\ IF doc[c] = NoDoc THEN Throw(k) /\ doc' = doc
       ELSE doc' = SetStatus(doc, c, "PAUSED") /\ Hold(k, c)
    /\ JobAndDoc

\* Mutant: unlocks whatever the batch contains.
UnlockAll(k, c) ==
    /\ At(k, "unlock", c, "todo")
    /\ Did(k, c, IF doc[c] # NoDoc THEN "half" ELSE "done")
    /\ OnlyJob

\* ... and before it unlocks it.
ReadForUnlock(k, c) ==
    /\ At(k, "unlock", c, "todo")
    /\ Did(k, c, IF c \in job[k].held /\ doc[c] # NoDoc THEN "half" ELSE "done")
    /\ OnlyJob

Unlock(k, c) ==
    /\ At(k, "unlock", c, "half")
    /\ IF doc[c] = NoDoc THEN Throw(k) /\ doc' = doc
       ELSE /\ doc' = SetStatus(doc, c, "ACTIVE")
            /\ job' = [job EXCEPT ![k].part[c] = "done", ![k].held = @ \ {c}]
    /\ JobAndDoc

\* The daily reset goes by the snapshot it began with, and looks at nothing.
LockForReset(k, c) ==
    /\ At(k, "resetLock", c, "todo")
    /\ IF job[k].snap[c].status = "PAUSED" THEN Did(k, c, "done") /\ doc' = doc
       ELSE IF doc[c] = NoDoc THEN Throw(k) /\ doc' = doc
       ELSE doc' = SetStatus(doc, c, "PAUSED") /\ Hold(k, c)
    /\ JobAndDoc

\* Mutant: what was locked for the reset stays locked.
UnlockForgotten(k, c) ==
    /\ At(k, "resetUnlock", c, "todo")
    /\ job' = [job EXCEPT ![k].part[c] = "done", ![k].held = @ \ {c}]
    /\ OnlyJob

UnlockAfterReset(k, c) ==
    /\ At(k, "resetUnlock", c, "todo")
    /\ IF c \notin job[k].held THEN Did(k, c, "done") /\ doc' = doc
       ELSE IF doc[c] = NoDoc THEN Throw(k) /\ doc' = doc
       ELSE /\ doc' = SetStatus(doc, c, "ACTIVE")
            /\ job' = [job EXCEPT ![k].part[c] = "done", ![k].held = @ \ {c}]
    /\ JobAndDoc

-----------------------------------------------------------------------------
(***************************************************************************)
(* Replacing what was spent: the document decides, the row is written,     *)
(* then the document.  The migration sums today for each campaign anew and *)
(* always writes.                                                          *)
(***************************************************************************)
Differs(k, c) ==
    \/ doc[c] = NoDoc
    \/ doc[c].daily # job[k].daily[c]
    \/ doc[c].total - job[k].total[c] > Tolerance
    \/ job[k].total[c] - doc[c].total > Tolerance

ReadForReplace(k, c) ==
    /\ At(k, "replace", c, "todo")
    /\ job' = [job EXCEPT
         ![k].part[c] = IF k # "migrate" /\ ~Differs(k, c) THEN "done"
                        ELSE IF doc[c] = NoDoc THEN "alone" ELSE "half",
         ![k].daily[c] = IF k = "migrate" THEN LoggedOn(c, day) ELSE @]
    /\ OnlyJob

ReplaceRow(k, c) ==
    /\ \E progress \in {"half", "alone"} : At(k, "replace", c, progress)
    /\ row' = [row EXCEPT ![c].daily = job[k].daily[c], ![c].total = job[k].total[c]]
    /\ Did(k, c, IF job[k].part[c] = "alone" THEN "done" ELSE "rowed")
    /\ JobAndRow

\* Mutant: the sum of one day as the total.
ReplaceDocByDay(k, c) ==
    /\ At(k, "replace", c, "rowed")
    /\ doc' = IF doc[c] = NoDoc THEN doc
              ELSE [doc EXCEPT ![c].daily = job[k].daily[c], ![c].total = job[k].daily[c]]
    /\ Did(k, c, "done")
    /\ JobAndDoc

\* Mutant: the row is corrected, the document is not.
ReplaceRowOnly(k, c) ==
    /\ At(k, "replace", c, "rowed")
    /\ Did(k, c, "done")
    /\ OnlyJob

ReplaceDoc(k, c) ==
    /\ At(k, "replace", c, "rowed")
    /\ doc' = IF doc[c] = NoDoc THEN doc
              ELSE [doc EXCEPT ![c].daily = job[k].daily[c], ![c].total = job[k].total[c]]
    /\ Did(k, c, "done")
    /\ JobAndDoc

\* The script does nothing to a document that is gone.
ResetDoc(k, c) ==
    /\ At(k, "resetDocs", c, "todo")
    /\ doc' = IF doc[c] = NoDoc THEN doc ELSE [doc EXCEPT ![c].daily = 0]
    /\ Did(k, c, "done")
    /\ JobAndDoc

\* A call of a job fails where nobody catches it.
Fail(k) ==
    /\ May("fault") /\ faults < MaxFaults
    /\ Working(k)
    /\ Throw(k)
    /\ faults' = faults + 1
    /\ UNCHANGED <<day, row, doc, click, due, owner, loader, allowed>>

JobStep(k) ==
    \/ Load(k) \/ SumDay(k) \/ SumAll(k) \/ ResetRows(k) \/ Find(k) \/ NextPhase(k)
    \/ \E c \in Campaigns :
         \/ StopInRedis(k, c) \/ StopInMySQL(k, c)
         \/ StartInMySQL(k, c) \/ StartInRedis(k, c)
         \/ ReadForLock(k, c) \/ Lock(k, c) \/ ReadForUnlock(k, c) \/ Unlock(k, c)
         \/ LockForReset(k, c) \/ UnlockAfterReset(k, c) \/ ResetDoc(k, c)
         \/ ReadForReplace(k, c) \/ ReplaceRow(k, c) \/ ReplaceDoc(k, c)

-----------------------------------------------------------------------------
(***************************************************************************)
(* A click: the commit script (AuctionLedger) bills it in Redis, the log   *)
(* is saved, and two increments that nobody awaits follow in MySQL.        *)
(***************************************************************************)
Reach(k, step) == click' = [click EXCEPT ![k].at = step]

Bill(k, c) ==
    /\ click[k] = NewClick
    /\ May("clicks") \/ \A j \in Clicks : click[j] = NewClick
    /\ May("race") \/ \A j \in Kinds : ~Summing(j)
    /\ doc[c] # NoDoc
    /\ doc[c].daily + Cost <= DailyBudget /\ doc[c].total + Cost <= TotalBudget
    /\ doc' = [doc EXCEPT ![c].daily = @ + Cost, ![c].total = @ + Cost]
    /\ click' = [click EXCEPT ![k] = [at |-> "billed", campaign |-> c, day |-> None]]
    /\ UNCHANGED <<day, row, job, due, owner, loader, faults, allowed>>

SaveClickLog(k) ==
    /\ click[k].at = "billed"
    /\ May("race") \/ \A j \in Kinds : ~Summing(j)
    /\ click' = [click EXCEPT ![k].at = "logged", ![k].day = day]
    /\ UNCHANGED <<day, row, doc, job, due, owner, loader, faults, allowed>>

IncrementDaily(k) ==
    /\ click[k].at = "logged"
    /\ row' = [row EXCEPT ![click[k].campaign].daily = @ + Cost]
    /\ Reach(k, "daily")
    /\ UNCHANGED <<day, doc, job, due, owner, loader, faults, allowed>>

IncrementTotal(k) ==
    /\ click[k].at = "daily"
    /\ row' = [row EXCEPT ![click[k].campaign].total = @ + Cost]
    /\ Reach(k, "done")
    /\ UNCHANGED <<day, doc, job, due, owner, loader, faults, allowed>>

InHand(k) == click[k].at \in {"billed", "logged", "daily"}

Crash(k) ==
    /\ May("crash")
    /\ InHand(k)
    /\ Reach(k, "dead")
    /\ UNCHANGED <<day, row, doc, job, due, owner, loader, faults, allowed>>

ClickStep(k) == SaveClickLog(k) \/ IncrementDaily(k) \/ IncrementTotal(k)

-----------------------------------------------------------------------------
(***************************************************************************)
(* The owner pauses, resumes or deletes a campaign (CampaignCredit has the *)
(* money of it): the document is paused first, then the row is written and *)
(* its status copied, or the document dropped and the row marked.          *)
(***************************************************************************)
Ask(c, to) ==
    /\ owner = NoEdit
    /\ May(IF to = "deleted" THEN "delete" ELSE "edit")
    /\ May("overlap") \/ Quiet
    /\ doc[c] # NoDoc
    /\ owner' = [at |-> "asked", campaign |-> c, to |-> to]
    /\ UNCHANGED <<day, row, doc, click, job, due, loader, faults, allowed>>

PauseFirst ==
    /\ owner.at = "asked"
    /\ doc' = SetStatus(doc, owner.campaign, "PAUSED")
    /\ owner' = [owner EXCEPT !.at = "paused"]
    /\ UNCHANGED <<day, row, click, job, due, loader, faults, allowed>>

SaveRow ==
    /\ owner.at = "paused" /\ owner.to # "deleted"
    /\ row' = SetStatus(row, owner.campaign, owner.to)
    /\ owner' = [owner EXCEPT !.at = "saved"]
    /\ UNCHANGED <<day, doc, click, job, due, loader, faults, allowed>>

CopyStatus ==
    /\ owner.at = "saved"
    /\ doc' = SetStatus(doc, owner.campaign, owner.to)
    /\ owner' = Over
    /\ UNCHANGED <<day, row, click, job, due, loader, faults, allowed>>

DropDoc ==
    /\ owner.at = "paused" /\ owner.to = "deleted"
    /\ doc' = [doc EXCEPT ![owner.campaign] = NoDoc]
    /\ owner' = [owner EXCEPT !.at = "dropped"]
    /\ UNCHANGED <<day, row, click, job, due, loader, faults, allowed>>

MarkRow ==
    /\ owner.at = "dropped"
    /\ row' = [row EXCEPT ![owner.campaign].deleted = TRUE]
    /\ owner' = Over
    /\ UNCHANGED <<day, doc, click, job, due, loader, faults, allowed>>

OwnerStep == PauseFirst \/ SaveRow \/ CopyStatus \/ DropDoc \/ MarkRow

-----------------------------------------------------------------------------
(***************************************************************************)
(* A restart ends what is in hand, and loads every row over its document.  *)
(***************************************************************************)
Restart ==
    /\ May("restart") /\ faults < MaxFaults
    /\ faults' = faults + 1
    /\ job' = [k \in Kinds |-> Idle]
    /\ click' = [k \in Clicks |-> IF InHand(k) THEN [click[k] EXCEPT !.at = "dead"] ELSE click[k]]
    /\ owner' = IF Asked THEN Over ELSE owner
    /\ loader' = [rows |-> row, todo |-> {c \in Campaigns : ~row[c].deleted}]
    /\ UNCHANGED <<day, row, doc, due, allowed>>

LoadDoc(c) ==
    /\ loader # NoLoad /\ c \in loader.todo
    /\ doc' = [doc EXCEPT ![c] = [status |-> loader.rows[c].status,
                                  daily |-> loader.rows[c].daily,
                                  total |-> loader.rows[c].total]]
    /\ loader' = IF loader.todo = {c} THEN NoLoad ELSE [loader EXCEPT !.todo = @ \ {c}]
    /\ UNCHANGED <<day, row, click, job, due, owner, faults, allowed>>

\* Midnight: the nightly job is due.
Midnight ==
    /\ day < LastDay
    /\ day' = day + 1
    /\ due' = due \union (allowed \intersect {"nightly"})
    /\ UNCHANGED <<row, doc, click, job, owner, loader, faults, allowed>>

-----------------------------------------------------------------------------
Next ==
    \/ Midnight \/ Restart \/ OwnerStep
    \/ \E c \in Campaigns :
         \/ LoadDoc(c)
         \/ \E to \in {"ACTIVE", "PAUSED", "deleted"} : Ask(c, to)
         \/ \E k \in Clicks : Bill(k, c)
    \/ \E k \in Clicks : ClickStep(k) \/ Crash(k)
    \/ \E k \in Kinds : StartJob(k) \/ JobStep(k) \/ Fail(k)

(***************************************************************************)
(* Time goes on, the hourly cron keeps firing, and what is started goes on *)
(* until it ends, fails or is stopped.                                     *)
(***************************************************************************)
Fairness ==
    /\ WF_vars(Midnight) /\ WF_vars(OwnerStep) /\ WF_vars(\E c \in Campaigns : LoadDoc(c))
    /\ \A k \in Clicks : WF_vars(ClickStep(k))
    /\ \A k \in Kinds : WF_vars(StartJob(k)) /\ WF_vars(JobStep(k))

Spec == Init /\ [][Next]_vars /\ Fairness

-----------------------------------------------------------------------------
(***************************************************************************)
(* What a job locked, it unlocks: a campaign whose row is ACTIVE is PAUSED *)
(* in Redis only as long as a job holds it, pauses or starts it, or a     *)
(* request is under way.  Not so when a call fails, the server restarts,   *)
(* one campaign is deleted while a job has others locked, or the owner     *)
(* pauses a campaign while it is started.                                  *)
(***************************************************************************)
LocksAreReleased ==
    (allowed \intersect {"delete", "fault", "restart"} = {} /\ ~({"edit", "overlap"} \subseteq allowed)) =>
        \A c \in Campaigns :
            (doc[c] # NoDoc /\ doc[c].status = "PAUSED" /\ row[c].status = "ACTIVE") =>
                \/ \E k \in Kinds : Working(k) /\ c \in job[k].held
                \/ \E k \in Kinds : At(k, "pause", c, "half") \/ At(k, "start", c, "half")
                \/ Asked /\ owner.campaign = c

(***************************************************************************)
(* Between its jobs the server never offers a campaign that its row says   *)
(* is not running: reconciliation leaves it as it was.  (The jobs that     *)
(* reset by a snapshot do not; see EndedIsNotSold.)                        *)
(***************************************************************************)
StoppedIsNotSold ==
    allowed \intersect {"nightly", "manual", "overlap", "restart"} = {} =>
        \A c \in Campaigns :
            (Quiet /\ ~Asked /\ doc[c] # NoDoc /\ row[c].status # "ACTIVE")
                => doc[c].status # "ACTIVE"

(***************************************************************************)
(* Redis never counts less than the click logs say, so that no budget is   *)
(* sold twice, as long as no click falls between the sums of a job and     *)
(* their use, and no row that is behind is loaded over a document.         *)
(***************************************************************************)
SpentCoversLogs ==
    allowed \intersect {"race", "restart"} = {} =>
        \A c \in Campaigns : doc[c] # NoDoc => doc[c].total >= Logged(c)

(***************************************************************************)
(* Whatever was lost, raced or crashed: once the clicks of the last day    *)
(* are over, the hourly reconciliation brings the document of every        *)
(* campaign that was clicked that day to the sums of its logs.             *)
(***************************************************************************)
Reconciled(c) ==
    (doc[c] # NoDoc /\ LoggedOn(c, LastDay) > 0) =>
        /\ doc[c].daily = LoggedOn(c, LastDay)
        /\ doc[c].total - Logged(c) \in -Tolerance..Tolerance

DocsConverge == <>[](\A c \in Campaigns : Reconciled(c))

(***************************************************************************)
(* "Campaigns past their end date become ENDED, to stop bidding first": a  *)
(* campaign whose row is ENDED is not ACTIVE in Redis between jobs.        *)
(***************************************************************************)
EndedIsNotSold ==
    \A c \in Campaigns :
        (Quiet /\ doc[c] # NoDoc /\ row[c].status = "ENDED") => doc[c].status # "ACTIVE"
=============================================================================
