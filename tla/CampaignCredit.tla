---------------------------- MODULE CampaignCredit ----------------------------
(***************************************************************************)
(* The credit of one advertiser: what she charges, what creating a         *)
(* campaign or raising its total budget takes, and what deleting one gives *)
(* back.                                                                   *)
(*                                                                         *)
(* The balance and its history change in a transaction that locks the      *)
(* user's row.  Campaigns live twice, as a row in MySQL and as a document  *)
(* in Redis; their rows are created and deleted outside that transaction,  *)
(* and the amounts come from the document as it was read before it.        *)
(***************************************************************************)
EXTENDS Integers, Sequences, FiniteSets

CONSTANTS
    Campaigns,      \* ids of campaigns, created or not
    Old,            \* campaigns that are there, without total budget (null, here 0)
    Calls,          \* requests of the advertiser, one use each
    None,
    InitialBalance,
    Deposits,       \* amounts of a payment
    Budgets,        \* total budgets a campaign is created with
    Edits,          \* what an update asks for: budget, status and start, each maybe None
    Cost,           \* cost of a click
    MaxBilled,      \* bound: spent of a campaign without total budget
    Regimes         \* sets of hazards; one of them is what may happen (see below)

(***************************************************************************)
(* Hazards.  overlap: an edit is started while another one is handled;     *)
(* click: a click is billed between the steps of a delete; refusal: an     *)
(* edit is refused after the document was paused; fault: Redis or the      *)
(* queue fails; crash: the process stops.                                  *)
(***************************************************************************)
Hazards == {"overlap", "click", "refusal", "fault", "crash"}

ASSUME CreditAssumption ==
    /\ None \notin Campaigns \union Calls
    /\ Old \subseteq Campaigns
    /\ {InitialBalance, Cost, MaxBilled} \subseteq Nat
    /\ Deposits \subseteq Nat \ {0} /\ Budgets \subseteq Nat \ {0}
    /\ Edits \subseteq [budget : Nat \union {None},
                        status : {"ACTIVE", "PAUSED", None},
                        start  : {"ACTIVE", "PENDING", None}]
    /\ Regimes \subseteq SUBSET Hazards

VARIABLES
    balance, \* user.balance
    history, \* credit_history
    lock,    \* the call whose transaction holds the user's row, or None
    row,     \* campaigns in MySQL
    doc,     \* campaign:{id} in Redis
    call,    \* each call: its handler, where it is, and what it has read
    billed,  \* history: cost of the clicks billed to a campaign
    allowed  \* the hazards of this behaviour

vars == <<balance, history, lock, row, doc, call, billed, allowed>>

-----------------------------------------------------------------------------
Statuses == {"PENDING", "ACTIVE", "PAUSED"}

NoRow == [budget |-> None]
NoDoc == [spent |-> None]

Rows == [budget : Nat, status : Statuses, deleted : BOOLEAN]
Docs == [budget : Nat, status : Statuses, spent : Nat]

Steps == {"insert", "lock", "save", "queue", "pause", "check", "find", "commit",
          "sync", "restore", "drop", "mark", "done", "failed"}

NewCall == [at |-> "new"]

Entries == [type : {"CHARGE", "WITHDRAW"}, amount : Nat, balanceAfter : Int,
            campaign : Campaigns \union {None}]

CallRecords ==
    [kind : {"charge", "create", "update", "delete"}, at : Steps,
     campaign : Campaigns \union {None}, edit : Edits \union {None},
     cached : Docs \union {NoDoc}, amount : Nat, seen : Nat, found : Rows \union {NoRow}]

TypeOK ==
    /\ balance \in Nat
    /\ history \in Seq(Entries)
    /\ lock \in Calls \union {None}
    /\ row \in [Campaigns -> Rows \union {NoRow}]
    /\ doc \in [Campaigns -> Docs \union {NoDoc}]
    /\ call \in [Calls -> CallRecords \union {NewCall}]
    /\ billed \in [Campaigns -> Nat]
    /\ allowed \in Regimes

\* A new campaign must have a total budget; one that was there before may have none.
Init ==
    /\ balance = InitialBalance
    /\ history = <<>>
    /\ lock = None
    /\ row = [c \in Campaigns |->
                IF c \in Old THEN [budget |-> 0, status |-> "ACTIVE", deleted |-> FALSE] ELSE NoRow]
    /\ doc = [c \in Campaigns |->
                IF c \in Old THEN [budget |-> 0, status |-> "ACTIVE", spent |-> 0] ELSE NoDoc]
    /\ call = [r \in Calls |-> NewCall]
    /\ billed = [c \in Campaigns |-> 0]
    /\ allowed \in Regimes

-----------------------------------------------------------------------------
Working(r) == call[r].at \notin {"new", "done", "failed"}

Editing(r) == Working(r) /\ call[r].kind # "charge"

May(hazard) == hazard \in allowed

Start(r, kind, c, edit, amount, step) ==
    /\ call[r] = NewCall
    /\ kind # "charge" => May("overlap") \/ \A s \in Calls : ~Editing(s)
    /\ call' = [call EXCEPT ![r] =
                  [kind |-> kind, at |-> step, campaign |-> c, edit |-> edit,
                   cached |-> IF c = None THEN NoDoc ELSE doc[c],
                   amount |-> amount, seen |-> 0, found |-> NoRow]]

Goto(r, step) == call' = [call EXCEPT ![r].at = step]

SetStatus(c, status) == doc' = [doc EXCEPT ![c].status = status]

At(r, kind, step) == call[r].at = step /\ call[r].kind = kind

-----------------------------------------------------------------------------
(***************************************************************************)
(* The transactions on the user's row.                                     *)
(***************************************************************************)
Takes(r) == call[r].kind \in {"create", "update"}

Locked(r) ==
    call' = [call EXCEPT ![r].seen = balance,
               ![r].at = CASE call[r].kind = "create" -> "save"
                           [] call[r].kind = "update" -> "find"
                           [] OTHER -> "commit"]

\* Mutant: findOne without pessimistic_write.
LockUnheld(r) ==
    /\ call[r].at = "lock"
    /\ Takes(r) => balance >= call[r].amount
    /\ lock' = r
    /\ Locked(r)
    /\ UNCHANGED <<balance, history, row, doc, billed, allowed>>

\* findOne with pessimistic_write, and the test of the balance
LockUser(r) ==
    /\ call[r].at = "lock"
    /\ lock = None
    /\ Takes(r) => balance >= call[r].amount
    /\ lock' = r
    /\ Locked(r)
    /\ UNCHANGED <<balance, history, row, doc, billed, allowed>>

\* The balance is too small: the transaction is rolled back.
LackBalance(r) ==
    /\ call[r].at = "lock"
    /\ lock = None
    /\ Takes(r) /\ balance < call[r].amount
    /\ Goto(r, IF call[r].kind = "create" THEN "failed" ELSE "restore")
    /\ UNCHANGED <<balance, history, lock, row, doc, billed, allowed>>

Unlocked(r) == lock' = IF lock = r THEN None ELSE lock

RollBack(r, step) ==
    /\ Unlocked(r)
    /\ Goto(r, step)
    /\ UNCHANGED <<balance, history, row, doc, billed, allowed>>

\* The new balance and its entry, as they are committed.
WriteBalance(r) ==
    IF call[r].amount = 0 THEN UNCHANGED <<balance, history>>
    ELSE LET after == call[r].seen + (IF Takes(r) THEN 0 - call[r].amount ELSE call[r].amount)
         IN  /\ balance' = after
             /\ history' = Append(history,
                  [type |-> IF Takes(r) THEN "WITHDRAW" ELSE "CHARGE",
                   amount |-> call[r].amount, balanceAfter |-> after,
                   campaign |-> call[r].campaign])

-----------------------------------------------------------------------------
(***************************************************************************)
(* confirmPayment, once the payment is approved, and chargeCredit.         *)
(***************************************************************************)
StartCharge(r, amount) ==
    /\ Start(r, "charge", None, None, amount, "lock")
    /\ UNCHANGED <<balance, history, lock, row, doc, billed, allowed>>

CommitCharge(r) ==
    /\ At(r, "charge", "commit")
    /\ WriteBalance(r)
    /\ Unlocked(r)
    /\ Goto(r, "done")
    /\ UNCHANGED <<row, doc, billed, allowed>>

-----------------------------------------------------------------------------
(***************************************************************************)
(* createCampaign.  The row is inserted by the repository's own connection *)
(* and stays when the transaction is rolled back.                          *)
(***************************************************************************)
StartCreate(r, c, budget) ==
    /\ row[c] = NoRow
    /\ \A s \in Calls : call[s] # NewCall => call[s].campaign # c
    /\ budget <= balance
    /\ Start(r, "create", c, None, budget, "insert")
    /\ UNCHANGED <<balance, history, lock, row, doc, billed, allowed>>

InsertRow(r) ==
    /\ At(r, "create", "insert")
    /\ \E status \in {"PENDING", "ACTIVE"} :
         row' = [row EXCEPT ![call[r].campaign] =
                   [budget |-> call[r].amount, status |-> status, deleted |-> FALSE]]
    /\ Goto(r, "lock")
    /\ UNCHANGED <<balance, history, lock, doc, billed, allowed>>

SaveDoc(r) ==
    LET c == call[r].campaign
    IN  /\ At(r, "create", "save")
        /\ doc' = [doc EXCEPT ![c] = [budget |-> row[c].budget, status |-> row[c].status, spent |-> 0]]
        /\ Goto(r, "queue")
        /\ UNCHANGED <<balance, history, lock, row, billed, allowed>>

FailCreate(r) ==
    /\ May("fault")
    /\ At(r, "create", "save") \/ At(r, "create", "queue")
    /\ RollBack(r, "failed")

CommitCreate(r) ==
    /\ At(r, "create", "queue")
    /\ WriteBalance(r)
    /\ Unlocked(r)
    /\ Goto(r, "done")
    /\ UNCHANGED <<row, doc, billed, allowed>>

-----------------------------------------------------------------------------
(***************************************************************************)
(* updateCampaign and deleteCampaign read the document and pause it.       *)
(* JSON.SET on a field of a document that is gone is an error.             *)
(***************************************************************************)
StartUpdate(r, c, edit) ==
    /\ doc[c] # NoDoc
    /\ Start(r, "update", c, edit, 0, "pause")
    /\ UNCHANGED <<balance, history, lock, row, doc, billed, allowed>>

StartDelete(r, c) ==
    /\ doc[c] # NoDoc
    /\ Start(r, "delete", c, None, 0, "pause")
    /\ UNCHANGED <<balance, history, lock, row, doc, billed, allowed>>

Pause(r) ==
    LET c == call[r].campaign
    IN  /\ call[r].at = "pause"
        /\ \/ /\ doc[c] # NoDoc
              /\ SetStatus(c, "PAUSED")
              /\ Goto(r, IF call[r].kind = "update" THEN "check" ELSE "drop")
           \/ /\ doc[c] = NoDoc
              /\ Goto(r, "failed")
              /\ UNCHANGED doc
        /\ UNCHANGED <<balance, history, lock, row, billed, allowed>>

\* Not the owner, or an end before the start: the document becomes ACTIVE, whatever it was.
Refuse(r) ==
    LET c == call[r].campaign
    IN  /\ May("refusal")
        /\ At(r, "update", "check") \/ At(r, "delete", "drop")
        /\ IF doc[c] = NoDoc THEN UNCHANGED doc ELSE SetStatus(c, "ACTIVE")
        /\ Goto(r, "failed")
        /\ UNCHANGED <<balance, history, lock, row, billed, allowed>>

\* An unknown tag: thrown outside the try block, nothing is undone.
RefuseTags(r) ==
    /\ May("refusal")
    /\ At(r, "update", "check")
    /\ RollBack(r, "failed")

(***************************************************************************)
(* validateBudget and the amount to take.  A lower budget is refused.      *)
(***************************************************************************)
Check(r) ==
    LET edit == call[r].edit
        old  == call[r].cached.budget
    IN  /\ At(r, "update", "check")
        /\ \/ /\ edit.budget \in {None, old}
              /\ Goto(r, "find")
           \/ /\ edit.budget # None /\ edit.budget > old
              /\ call' = [call EXCEPT ![r].at = "lock", ![r].amount = edit.budget - old]
           \/ /\ \/ May("refusal")
                 \/ edit.budget # None /\ edit.budget < old
              /\ Goto(r, "restore")
        /\ UNCHANGED <<balance, history, lock, row, doc, billed, allowed>>

NewBudget(r, found) == IF call[r].edit.budget # None THEN call[r].edit.budget ELSE found.budget

\* A new start decides the status of a campaign that is neither paused nor over.
StartDecides(r) == call[r].edit.start # None /\ call[r].cached.status \in {"PENDING", "ACTIVE"}

NewStatus(r, found) ==
    CASE StartDecides(r) -> call[r].edit.start
      [] ~StartDecides(r) /\ call[r].edit.status # None -> call[r].edit.status
      [] OTHER -> found.status

\* findOne leaves out deleted rows.
FindRow(r) ==
    LET found == row[call[r].campaign]
    IN  /\ At(r, "update", "find")
        /\ \/ /\ found # NoRow /\ ~found.deleted
              /\ call' = [call EXCEPT ![r].at = "commit", ![r].found = found]
              /\ UNCHANGED lock
           \/ /\ found = NoRow \/ found.deleted
              /\ Unlocked(r)
              /\ Goto(r, "restore")
        /\ UNCHANGED <<balance, history, row, doc, billed, allowed>>

\* save writes the columns that differ from what was found.
CommitUpdate(r) ==
    LET c == call[r].campaign
        found == call[r].found
        Changed(new, old, now) == IF new = old THEN now ELSE new
    IN  /\ At(r, "update", "commit")
        /\ WriteBalance(r)
        /\ Unlocked(r)
        /\ row' = [row EXCEPT ![c].budget = Changed(NewBudget(r, found), found.budget, @),
                              ![c].status = Changed(NewStatus(r, found), found.status, @)]
        /\ Goto(r, "sync")
        /\ UNCHANGED <<doc, billed, allowed>>

FailUpdate(r) ==
    /\ May("fault")
    /\ call[r].at \in {"lock", "find", "commit"} /\ call[r].kind = "update"
    /\ RollBack(r, "restore")

\* updateCampaignWithoutCachedById writes every field but the spent amounts.
SyncDoc(r) ==
    LET c == call[r].campaign
    IN  /\ At(r, "update", "sync")
        /\ \/ /\ doc[c] # NoDoc
              /\ doc' = [doc EXCEPT ![c].budget = NewBudget(r, call[r].found),
                                    ![c].status = NewStatus(r, call[r].found)]
              /\ Goto(r, "done")
           \/ /\ doc[c] = NoDoc \/ May("fault")
              /\ Goto(r, "restore")
              /\ UNCHANGED doc
        /\ UNCHANGED <<balance, history, lock, row, billed, allowed>>

\* The catch block: the status that was asked for, or the one that was read.
Restore(r) ==
    LET c == call[r].campaign
        status == IF call[r].edit.status # None THEN call[r].edit.status ELSE call[r].cached.status
    IN  /\ At(r, "update", "restore")
        /\ IF doc[c] = NoDoc THEN UNCHANGED doc ELSE SetStatus(c, status)
        /\ Goto(r, "failed")
        /\ UNCHANGED <<balance, history, lock, row, billed, allowed>>

-----------------------------------------------------------------------------
(***************************************************************************)
(* The rest of deleteCampaign.                                             *)
(***************************************************************************)
DropDoc(r) ==
    /\ At(r, "delete", "drop")
    /\ doc' = [doc EXCEPT ![call[r].campaign] = NoDoc]
    /\ Goto(r, "mark")
    /\ UNCHANGED <<balance, history, lock, row, billed, allowed>>

\* Mutant: the refund is the budget.
RefundBudget(r) == call[r].cached.budget

\* What is left of the budget, by the document that was read first.
Refund(r) ==
    LET left == call[r].cached.budget - call[r].cached.spent
    IN  IF left > 0 THEN left ELSE 0

MarkDeleted(r) ==
    LET c == call[r].campaign
    IN  /\ At(r, "delete", "mark")
        /\ row' = [row EXCEPT ![c].deleted = TRUE]
        /\ call' = [call EXCEPT ![r].amount = Refund(r),
                                ![r].at = IF Refund(r) > 0 THEN "lock" ELSE "done"]
        /\ UNCHANGED <<balance, history, lock, doc, billed, allowed>>

CommitDelete(r) ==
    /\ At(r, "delete", "commit")
    /\ WriteBalance(r)
    /\ Unlocked(r)
    /\ Goto(r, "done")
    /\ UNCHANGED <<row, doc, billed, allowed>>

-----------------------------------------------------------------------------
(***************************************************************************)
(* A click on a hold bills the document.  Holds are within the budget, and *)
(* outlive the pause (AuctionLedger).                                      *)
(***************************************************************************)
Bill(c) ==
    LET limit == IF doc[c].budget = 0 THEN MaxBilled ELSE doc[c].budget
    IN  /\ doc[c] # NoDoc
        /\ \A r \in Calls : Working(r) /\ call[r].kind = "delete" /\ call[r].campaign = c => May("click")
        /\ doc[c].spent + Cost <= limit
        /\ doc' = [doc EXCEPT ![c].spent = @ + Cost]
        /\ billed' = [billed EXCEPT ![c] = @ + Cost]
        /\ UNCHANGED <<balance, history, lock, row, call, allowed>>

Crash(r) == May("crash") /\ Working(r) /\ RollBack(r, "failed")

Handle(r) ==
    \/ LockUser(r) \/ LackBalance(r) \/ CommitCharge(r)
    \/ InsertRow(r) \/ SaveDoc(r) \/ FailCreate(r) \/ CommitCreate(r)
    \/ Pause(r) \/ Refuse(r) \/ RefuseTags(r) \/ Check(r) \/ FindRow(r)
    \/ CommitUpdate(r) \/ FailUpdate(r) \/ SyncDoc(r) \/ Restore(r)
    \/ DropDoc(r) \/ MarkDeleted(r) \/ CommitDelete(r)

Next ==
    \/ \E r \in Calls : Handle(r) \/ Crash(r)
    \/ \E r \in Calls, d \in Deposits : StartCharge(r, d)
    \/ \E r \in Calls, c \in Campaigns :
         \/ \E b \in Budgets : StartCreate(r, c, b)
         \/ \E e \in Edits : StartUpdate(r, c, e)
         \/ StartDelete(r, c)
    \/ \E c \in Campaigns : Bill(c)

Spec == Init /\ [][Next]_vars

-----------------------------------------------------------------------------
(***************************************************************************)
(* Properties.                                                             *)
(***************************************************************************)
Signed(e) == IF e.type = "CHARGE" THEN e.amount ELSE 0 - e.amount

(***************************************************************************)
(* Whatever overlaps, fails or stops half way: each entry of the credit    *)
(* history follows from the one before it, none is overdrawn, and the last *)
(* one is the balance.                                                     *)
(***************************************************************************)
BalanceFollowsHistory ==
    LET Before(i) == IF i = 1 THEN InitialBalance ELSE history[i - 1].balanceAfter
    IN  /\ \A i \in DOMAIN history :
             /\ history[i].balanceAfter = Before(i) + Signed(history[i])
             /\ history[i].balanceAfter >= 0
        /\ balance = Before(Len(history) + 1)

\* The units of credit that entries of a type moved for a campaign.
Moves(c, type) ==
    {i \in DOMAIN history : history[i].campaign = c /\ history[i].type = type}

Units(c, type) == UNION {{i} \X (1..history[i].amount) : i \in Moves(c, type)}

\* What the history says a campaign was paid.
Paid(c) == Cardinality(Units(c, "WITHDRAW")) - Cardinality(Units(c, "CHARGE"))

\* What a campaign has to be paid: its budget, or once it is deleted what its clicks took of it.
Worth(c) ==
    IF row[c] = NoRow THEN 0
    ELSE IF row[c].deleted /\ billed[c] < row[c].budget THEN billed[c] ELSE row[c].budget

Settled(c) == \A r \in Calls : Working(r) => call[r].campaign # c

PaidIsWorth(c) == Settled(c) => Paid(c) = Worth(c)

(***************************************************************************)
(* While edits do not overlap and nothing fails, credit is neither lost    *)
(* nor made: the history has taken for a campaign what it is worth,        *)
(* through creations, raises, clicks, deletes and what is refused.         *)
(***************************************************************************)
CreditConserved == allowed \subseteq {"refusal"} => \A c \in Campaigns : PaidIsWorth(c)

(***************************************************************************)
(* Deleting a campaign refunds the remaining budget                        *)
(* (campaign.service.ts:660): the history keeps what its clicks cost.      *)
(***************************************************************************)
RemainderRefunded ==
    \A c \in Campaigns : row[c] # NoRow /\ row[c].deleted => PaidIsWorth(c)

(***************************************************************************)
(* When no call is at work on a campaign, its document has the status and  *)
(* the budget of its row; a refused edit has restored them.                *)
(***************************************************************************)
CopiesAgree ==
    \A c \in Campaigns :
        Settled(c) /\ row[c] # NoRow /\ doc[c] # NoDoc =>
            /\ doc[c].status = row[c].status
            /\ doc[c].budget = row[c].budget
=============================================================================
