------------------------- MODULE CampaignCredit_proofs -------------------------
(***************************************************************************)
(* Proofs about the credit of an advertiser, for every number of campaigns *)
(* and requests, every amount, and every set of hazards.                   *)
(***************************************************************************)
EXTENDS CampaignCredit, FiniteSetTheorems, TLAPS

(***************************************************************************)
(* A document has a row, which is never removed.                           *)
(***************************************************************************)
Documented == \A c \in Campaigns : doc[c] \in Docs => row[c] \in Rows

(***************************************************************************)
(* What a request knows, by its kind and by how far it has come.           *)
(***************************************************************************)
Knows(r) ==
    /\ call[r].kind # "charge" => call[r].campaign \in Campaigns
    /\ call[r].at = "pause" => call[r].kind \in {"update", "delete"}
    /\ call[r].kind = "create" /\ call[r].at \in {"lock", "save", "queue"} =>
          row[call[r].campaign] \in Rows
    /\ call[r].kind \in {"update", "delete"} =>
          call[r].cached \in Docs /\ row[call[r].campaign] \in Rows
    /\ call[r].kind = "update" => call[r].edit \in Edits
    /\ call[r].kind = "update" /\ call[r].at \in {"pause", "check"} => call[r].amount = 0
    /\ call[r].kind = "update" /\ call[r].at \in {"commit", "sync"} => call[r].found \in Rows

(***************************************************************************)
(* A request that is about to change the balance holds the lock, has read  *)
(* the balance as it still is, and takes no more than that.                *)
(***************************************************************************)
Holds(r) ==
    call[r].at \in {"save", "queue", "find", "commit"} /\ call[r].amount # 0 =>
        /\ lock = r
        /\ call[r].seen = balance
        /\ Takes(r) => call[r].amount <= balance

Fits(r) == call[r] # NewCall => Knows(r) /\ Holds(r)

CallsFit == \A r \in Calls : Fits(r)

\* The part of TypeOK and of what is known that an action on a call can disturb.
Types == TypeOK /\ Documented

Inv == Types /\ CallsFit /\ BalanceFollowsHistory

LEMMA Kinds ==
    ASSUME TypeOK
    PROVE  /\ \A r \in Calls : call[r].at # "new" => call[r] \in CallRecords /\ call[r] # NewCall
           /\ \A c \in Campaigns : /\ doc[c] # NoDoc => doc[c] \in Docs
                                   /\ row[c] # NoRow => row[c] \in Rows
           /\ NewCall.at = "new"
  BY DEF TypeOK, NewCall

(***************************************************************************)
(* A step of one request leaves the others what they know.                 *)
(***************************************************************************)
Spared(r) ==
    /\ \A s \in Calls : s # r => call'[s] = call[s] /\ (lock = s => lock' = s)
    /\ \A c \in Campaigns : row[c] \in Rows => row'[c] \in Rows
    /\ balance' # balance => lock = r

LEMMA OthersFit ==
    ASSUME TypeOK, CallsFit, NEW r \in Calls, Spared(r), Fits(r)'
    PROVE  CallsFit'
<1>1. ASSUME NEW s \in Calls, s # r PROVE Fits(s)'
  <2>1. call'[s] = call[s] /\ Fits(s)
    BY <1>1 DEF Spared, CallsFit
  <2>2. ASSUME call[s] # NewCall PROVE Knows(s)'
    BY <2>1, <2>2 DEF Spared, Fits, Knows
  <2>3. ASSUME call[s] # NewCall PROVE Holds(s)'
    BY <1>1, <2>1, <2>3 DEF Spared, Fits, Holds, Takes
  <2> QED
    BY <2>1, <2>2, <2>3 DEF Fits
<1> QED
  BY <1>1 DEF CallsFit

(***************************************************************************)
(* The history.                                                            *)
(***************************************************************************)
LEMMA QuietHistory ==
    ASSUME BalanceFollowsHistory, UNCHANGED <<balance, history>>
    PROVE  BalanceFollowsHistory'
  BY DEF BalanceFollowsHistory, Signed

LEMMA Extended ==
    ASSUME TypeOK, BalanceFollowsHistory, NEW e \in Entries,
           e.balanceAfter = balance + Signed(e), e.balanceAfter >= 0,
           balance' = e.balanceAfter, history' = Append(history, e)
    PROVE  BalanceFollowsHistory' /\ balance' \in Nat /\ history' \in Seq(Entries)
<1>1. history \in Seq(Entries) /\ balance \in Nat
  BY DEF TypeOK
<1>2. history' \in Seq(Entries) /\ Len(history') = Len(history) + 1
  BY <1>1
<1>3. \A i \in 1..Len(history) : history'[i] = history[i]
  BY <1>1
<1>4. history'[Len(history) + 1] = e
  BY <1>1
<1>5. e.balanceAfter \in Int
  BY DEF Entries
<1>6. ASSUME NEW i \in DOMAIN history'
      PROVE  /\ history'[i].balanceAfter =
                  (IF i = 1 THEN InitialBalance ELSE history'[i - 1].balanceAfter) + Signed(history'[i])
             /\ history'[i].balanceAfter >= 0
  <2>1. CASE i = Len(history) + 1
    <3>1. (IF i = 1 THEN InitialBalance ELSE history'[i - 1].balanceAfter) = balance
      BY <1>1, <1>3, <2>1 DEF BalanceFollowsHistory
    <3> QED
      BY <1>4, <2>1, <3>1
  <2>2. CASE i \in 1..Len(history)
    <3>1. history'[i] = history[i] /\ (i # 1 => history'[i - 1] = history[i - 1])
      BY <1>1, <1>3, <2>2
    <3> QED
      BY <1>1, <2>2, <3>1 DEF BalanceFollowsHistory
  <2> QED
    BY <1>1, <1>2, <2>1, <2>2
<1>7. balance' = history'[Len(history') + 1 - 1].balanceAfter /\ Len(history') + 1 # 1
  BY <1>1, <1>2, <1>4
<1> QED
  BY <1>1, <1>2, <1>5, <1>6, <1>7 DEF BalanceFollowsHistory, Signed

(***************************************************************************)
(* What a transaction writes about the balance it has locked.              *)
(***************************************************************************)
LEMMA Written ==
    ASSUME TypeOK, BalanceFollowsHistory, NEW r \in Calls,
           call[r] \in CallRecords, Holds(r), call[r].at \in {"queue", "commit"}, WriteBalance(r)
    PROVE  /\ BalanceFollowsHistory' /\ balance' \in Nat /\ history' \in Seq(Entries)
           /\ balance' # balance => lock = r
<1>1. CASE call[r].amount = 0
  <2>1. UNCHANGED <<balance, history>>
    BY <1>1 DEF WriteBalance
  <2> QED
    BY <2>1, QuietHistory DEF TypeOK
<1>2. CASE call[r].amount # 0
  <2> DEFINE after == call[r].seen + (IF Takes(r) THEN 0 - call[r].amount ELSE call[r].amount)
             e == [type |-> IF Takes(r) THEN "WITHDRAW" ELSE "CHARGE",
                   amount |-> call[r].amount, balanceAfter |-> after, campaign |-> call[r].campaign]
  <2>1. balance' = after /\ history' = Append(history, e)
    BY <1>2 DEF WriteBalance
  <2>2. lock = r /\ call[r].seen = balance /\ (Takes(r) => call[r].amount <= balance)
    BY <1>2 DEF Holds
  <2>3. balance \in Nat /\ call[r].amount \in Nat /\ call[r].campaign \in Campaigns \union {None}
    BY DEF TypeOK, CallRecords
  <2>4. after \in Int /\ after >= 0
    BY <2>2, <2>3
  <2>5. e \in Entries
    BY <2>3, <2>4 DEF Entries
  <2>6. e.balanceAfter = balance + Signed(e)
    <3>1. CASE Takes(r)
      BY <2>2, <2>3, <3>1 DEF Signed
    <3>2. CASE ~Takes(r)
      BY <2>2, <2>3, <3>2 DEF Signed
    <3> QED
      BY <3>1, <3>2
  <2>7. e.balanceAfter = after
    OBVIOUS
  <2> HIDE DEF e, after
  <2> QED
    BY <2>1, <2>2, <2>4, <2>5, <2>6, <2>7, Extended
<1> QED
  BY <1>1, <1>2

(***************************************************************************)
(* Steps of a request, by what they touch.                                 *)
(***************************************************************************)
LEMMA Moved ==
    ASSUME TypeOK, NEW r \in Calls, NEW n \in CallRecords, call' = [call EXCEPT ![r] = n]
    PROVE  /\ call' \in [Calls -> CallRecords \union {NewCall}]
           /\ call'[r] = n
           /\ \A s \in Calls : s # r => call'[s] = call[s]
  BY DEF TypeOK

\* Neither the balance nor a row: only the request, the lock and a document.
LEMMA DocStep ==
    ASSUME Inv, NEW r \in Calls, NEW n \in CallRecords,
           call' = [call EXCEPT ![r] = n],
           UNCHANGED <<balance, history, row, billed, allowed>>,
           lock' \in Calls \union {None},
           \A s \in Calls : s # r /\ lock = s => lock' = s,
           doc' \in [Campaigns -> Docs \union {NoDoc}], Documented',
           Knows(r)', Holds(r)'
    PROVE  Inv'
<1>1. TypeOK
  BY DEF Inv, Types
<1>2. TypeOK'
  BY <1>1, Moved DEF TypeOK
<1>3. Spared(r)
  BY <1>1, Moved DEF Spared
<1>4. Fits(r)'
  BY DEF Fits
<1>5. CallsFit'
  BY <1>1, <1>3, <1>4, OthersFit DEF Inv
<1>6. BalanceFollowsHistory'
  BY QuietHistory DEF Inv
<1> QED
  BY <1>2, <1>5, <1>6 DEF Inv, Types

LEMMA CallStep ==
    ASSUME Inv, NEW r \in Calls, NEW n \in CallRecords,
           call' = [call EXCEPT ![r] = n],
           UNCHANGED <<balance, history, row, doc, billed, allowed>>,
           lock' \in Calls \union {None},
           \A s \in Calls : s # r /\ lock = s => lock' = s,
           Knows(r)', Holds(r)'
    PROVE  Inv'
<1>1. doc' \in [Campaigns -> Docs \union {NoDoc}] /\ Documented'
  BY DEF Inv, Types, TypeOK, Documented
<1> QED
  BY <1>1, DocStep

(***************************************************************************)
(* One lemma for each action.                                              *)
(***************************************************************************)
LEMMA LockUserStep ==
    ASSUME Inv, NEW r \in Calls, LockUser(r)
    PROVE  Inv'
<1> DEFINE n == [call[r] EXCEPT !.seen = balance,
                   !.at = CASE call[r].kind = "create" -> "save"
                            [] call[r].kind = "update" -> "find"
                            [] OTHER -> "commit"]
<1>1. call[r] \in CallRecords /\ call[r] # NewCall /\ Knows(r) /\ balance \in Nat
  BY Kinds DEF LockUser, Inv, Types, TypeOK, CallsFit, Fits
<1>2. n \in CallRecords
  BY <1>1 DEF CallRecords, Steps
<1>3. call' = [call EXCEPT ![r] = n]
  BY DEF LockUser, Locked
<1>4. call'[r] = n
  BY <1>2, <1>3, Moved DEF Inv, Types
<1>5. Knows(r)'
  BY <1>1, <1>4 DEF Knows, LockUser, CallRecords
<1>6. Holds(r)'
  BY <1>1, <1>4 DEF Holds, LockUser, CallRecords, Takes
<1>7. lock' \in Calls \union {None} /\ \A s \in Calls : s # r /\ lock = s => lock' = s
  BY CreditAssumption DEF LockUser
<1> HIDE DEF n
<1> QED
  BY <1>2, <1>3, <1>5, <1>6, <1>7, CallStep DEF LockUser

(***************************************************************************)
(* A request that only moves on, or is rolled back.                        *)
(***************************************************************************)
LEMMA Went ==
    ASSUME Inv, NEW r \in Calls, NEW step \in Steps, Goto(r, step), call[r].at # "new"
    PROVE  /\ [call[r] EXCEPT !.at = step] \in CallRecords
           /\ call' = [call EXCEPT ![r] = [call[r] EXCEPT !.at = step]]
           /\ call'[r] = [call[r] EXCEPT !.at = step]
           /\ call[r] \in CallRecords /\ call[r] # NewCall /\ Knows(r) /\ Holds(r)
<1>1. call[r] \in CallRecords /\ call[r] # NewCall
  BY Kinds DEF Inv, Types
<1>2. [call[r] EXCEPT !.at = step] \in CallRecords
  BY <1>1 DEF CallRecords
<1>3. call' = [call EXCEPT ![r] = [call[r] EXCEPT !.at = step]]
  BY DEF Goto
<1>4. call'[r] = [call[r] EXCEPT !.at = step]
  BY <1>2, <1>3, Moved DEF Inv, Types
<1> QED
  BY <1>1, <1>2, <1>3, <1>4 DEF Inv, CallsFit, Fits

LEMMA RollBackStep ==
    ASSUME Inv, NEW r \in Calls, NEW step \in {"failed", "restore"}, RollBack(r, step), call[r].at # "new"
    PROVE  Inv'
<1>1. step \in Steps /\ Goto(r, step)
  BY DEF Steps, RollBack
<1>2. /\ [call[r] EXCEPT !.at = step] \in CallRecords
      /\ call' = [call EXCEPT ![r] = [call[r] EXCEPT !.at = step]]
      /\ call'[r] = [call[r] EXCEPT !.at = step]
      /\ call[r] \in CallRecords /\ Knows(r)
  BY <1>1, Went
<1>3. Knows(r)'
  BY <1>2 DEF Knows, RollBack, CallRecords
<1>4. Holds(r)'
  BY <1>2 DEF Holds, CallRecords
<1>5. lock' \in Calls \union {None} /\ \A s \in Calls : s # r /\ lock = s => lock' = s
  BY DEF RollBack, Unlocked, Inv, Types, TypeOK
<1> QED
  BY <1>2, <1>3, <1>4, <1>5, CallStep DEF RollBack

\* A request that only moves on.
LEMMA GoStep ==
    ASSUME Inv, NEW r \in Calls, NEW step \in Steps, Goto(r, step), call[r].at # "new",
           UNCHANGED <<balance, history, lock, row, doc, billed, allowed>>,
           Knows(r)', Holds(r)'
    PROVE  Inv'
<1>1. lock' \in Calls \union {None} /\ \A s \in Calls : s # r /\ lock = s => lock' = s
  BY DEF Inv, Types, TypeOK
<1> QED
  BY <1>1, Went, CallStep

LEMMA LackBalanceStep ==
    ASSUME Inv, NEW r \in Calls, LackBalance(r)
    PROVE  Inv'
<1> DEFINE step == IF call[r].kind = "create" THEN "failed" ELSE "restore"
<1>1. step \in Steps /\ Goto(r, step) /\ call[r].at # "new"
  BY DEF Steps, LackBalance
<1>2. call'[r] = [call[r] EXCEPT !.at = step] /\ call[r] \in CallRecords /\ Knows(r)
  BY <1>1, Went
<1>3. Knows(r)'
  BY <1>2 DEF Knows, LackBalance, CallRecords
<1>4. Holds(r)'
  BY <1>2 DEF Holds, CallRecords
<1> HIDE DEF step
<1> QED
  BY <1>1, <1>3, <1>4, GoStep DEF LackBalance

(***************************************************************************)
(* Requests that start.                                                    *)
(***************************************************************************)
LEMMA StartStep ==
    ASSUME Inv, NEW r \in Calls, NEW kind \in {"charge", "create", "update", "delete"},
           NEW c \in Campaigns \union {None}, NEW edit \in Edits \union {None},
           NEW amount \in Nat, NEW step \in {"lock", "insert", "pause"},
           Start(r, kind, c, edit, amount, step),
           UNCHANGED <<balance, history, lock, row, doc, billed, allowed>>,
           kind = "charge" <=> step = "lock", kind # "charge" => c \in Campaigns,
           kind = "create" <=> step = "insert",
           kind \in {"update", "delete"} => doc[c] # NoDoc,
           kind = "update" => edit \in Edits /\ amount = 0
    PROVE  Inv'
<1> DEFINE n == [kind |-> kind, at |-> step, campaign |-> c, edit |-> edit,
                 cached |-> IF c = None THEN NoDoc ELSE doc[c],
                 amount |-> amount, seen |-> 0, found |-> NoRow]
<1>1. n.cached \in Docs \union {NoDoc} /\ (kind \in {"update", "delete"} => n.cached \in Docs)
  BY CreditAssumption, Kinds DEF Inv, Types, TypeOK
<1>2. kind \in {"update", "delete"} => row[c] \in Rows
  BY CreditAssumption, Kinds DEF Inv, Types, Documented
<1>3. n \in CallRecords
  BY <1>1 DEF CallRecords, Steps
<1>4. call' = [call EXCEPT ![r] = n]
  BY DEF Start
<1>5. call'[r] = n
  BY <1>3, <1>4, Moved DEF Inv, Types
<1>6. Knows(r)'
  BY <1>1, <1>2, <1>5 DEF Knows
<1>7. Holds(r)'
  BY <1>5 DEF Holds
<1>8. lock' \in Calls \union {None} /\ \A s \in Calls : s # r /\ lock = s => lock' = s
  BY DEF Inv, Types, TypeOK
<1> HIDE DEF n
<1> QED
  BY <1>3, <1>4, <1>6, <1>7, <1>8, CallStep

LEMMA StartChargeStep ==
    ASSUME Inv, NEW r \in Calls, NEW d \in Deposits, StartCharge(r, d)
    PROVE  Inv'
  BY CreditAssumption, StartStep DEF StartCharge

LEMMA StartCreateStep ==
    ASSUME Inv, NEW r \in Calls, NEW c \in Campaigns, NEW b \in Budgets, StartCreate(r, c, b)
    PROVE  Inv'
  BY CreditAssumption, StartStep DEF StartCreate

LEMMA StartUpdateStep ==
    ASSUME Inv, NEW r \in Calls, NEW c \in Campaigns, NEW e \in Edits, StartUpdate(r, c, e)
    PROVE  Inv'
  BY StartStep DEF StartUpdate

LEMMA StartDeleteStep ==
    ASSUME Inv, NEW r \in Calls, NEW c \in Campaigns, StartDelete(r, c)
    PROVE  Inv'
  BY StartStep DEF StartDelete

(***************************************************************************)
(* Commits that change the balance and no campaign.                        *)
(***************************************************************************)
LEMMA CommitStep ==
    ASSUME Inv, NEW r \in Calls, NEW step \in {"done", "sync"}, call[r].at \in {"queue", "commit"},
           step = "sync" => call[r].kind = "update" /\ call[r].at = "commit",
           WriteBalance(r), Unlocked(r), Goto(r, step), UNCHANGED <<doc, billed, allowed>>,
           row' \in [Campaigns -> Rows \union {NoRow}],
           \A c \in Campaigns : row[c] \in Rows => row'[c] \in Rows
    PROVE  Inv'
<1>1. TypeOK /\ step \in Steps /\ call[r].at # "new"
  BY DEF Inv, Types, Steps
<1>2. /\ [call[r] EXCEPT !.at = step] \in CallRecords
      /\ call' = [call EXCEPT ![r] = [call[r] EXCEPT !.at = step]]
      /\ call'[r] = [call[r] EXCEPT !.at = step]
      /\ call[r] \in CallRecords /\ Knows(r) /\ Holds(r)
  BY <1>1, Went
<1>3. /\ BalanceFollowsHistory' /\ balance' \in Nat /\ history' \in Seq(Entries)
      /\ balance' # balance => lock = r
  BY <1>1, <1>2, Written DEF Inv
<1>4. lock' \in Calls \union {None} /\ \A s \in Calls : s # r /\ lock = s => lock' = s
  BY <1>1 DEF Unlocked, TypeOK
<1>5. TypeOK'
  BY <1>1, <1>2, <1>3, <1>4, Moved DEF TypeOK
<1>6. Spared(r)
  BY <1>1, <1>2, <1>3, <1>4, Moved DEF Spared
<1>7. Knows(r)'
  BY <1>2 DEF Knows, CallRecords
<1>8. Holds(r)'
  BY <1>2 DEF Holds, CallRecords
<1>9. CallsFit'
  BY <1>1, <1>6, <1>7, <1>8, OthersFit DEF Inv, Fits
<1>10. Documented'
  BY DEF Inv, Types, Documented
<1> QED
  BY <1>3, <1>5, <1>9, <1>10 DEF Inv, Types

LEMMA CommitRest ==
    ASSUME Inv, NEW r \in Calls, CommitCharge(r) \/ CommitCreate(r) \/ CommitDelete(r)
    PROVE  Inv'
<1>1. call[r].at \in {"queue", "commit"}
  BY DEF CommitCharge, CommitCreate, CommitDelete, At
<1>2. WriteBalance(r) /\ Unlocked(r) /\ Goto(r, "done") /\ UNCHANGED <<row, doc, billed, allowed>>
  BY DEF CommitCharge, CommitCreate, CommitDelete
<1> QED
  BY <1>1, <1>2, CommitStep DEF Inv, Types, TypeOK

(***************************************************************************)
(* Steps that write a row.                                                 *)
(***************************************************************************)
LEMMA RowStep ==
    ASSUME Inv, NEW r \in Calls, NEW n \in CallRecords,
           call' = [call EXCEPT ![r] = n],
           UNCHANGED <<balance, history, lock, doc, billed, allowed>>,
           row' \in [Campaigns -> Rows \union {NoRow}],
           \A c \in Campaigns : row[c] \in Rows => row'[c] \in Rows,
           Knows(r)', Holds(r)'
    PROVE  Inv'
<1>1. TypeOK
  BY DEF Inv, Types
<1>2. TypeOK'
  BY <1>1, Moved DEF TypeOK
<1>3. Spared(r)
  BY <1>1, Moved DEF Spared
<1>4. CallsFit'
  BY <1>1, <1>3, OthersFit DEF Inv, Fits
<1>5. BalanceFollowsHistory'
  BY QuietHistory DEF Inv
<1>6. Documented'
  BY DEF Inv, Types, Documented
<1> QED
  BY <1>2, <1>4, <1>5, <1>6 DEF Inv, Types

LEMMA InsertRowStep ==
    ASSUME Inv, NEW r \in Calls, InsertRow(r)
    PROVE  Inv'
<1> DEFINE n == [call[r] EXCEPT !.at = "lock"]
<1>1. call[r].at = "insert" /\ call[r].kind = "create" /\ Goto(r, "lock") /\ "lock" \in Steps
  BY DEF InsertRow, At, Steps
<1>2. n \in CallRecords /\ call' = [call EXCEPT ![r] = n] /\ call'[r] = n /\ call[r] \in CallRecords /\ Knows(r)
  BY <1>1, Went
<1>3. PICK status \in {"PENDING", "ACTIVE"} :
        row' = [row EXCEPT ![call[r].campaign] =
                  [budget |-> call[r].amount, status |-> status, deleted |-> FALSE]]
  BY DEF InsertRow
<1>4. [budget |-> call[r].amount, status |-> status, deleted |-> FALSE] \in Rows
  BY <1>2 DEF CallRecords, Rows, Statuses
<1>5. row \in [Campaigns -> Rows \union {NoRow}] /\ call[r].campaign \in Campaigns
  BY <1>1, <1>2 DEF Inv, Types, TypeOK, Knows
<1>6. /\ row' \in [Campaigns -> Rows \union {NoRow}] /\ row'[call[r].campaign] \in Rows
      /\ \A c \in Campaigns : row[c] \in Rows => row'[c] \in Rows
  BY <1>3, <1>4, <1>5
<1>7. Knows(r)'
  BY <1>1, <1>2, <1>5, <1>6 DEF Knows, CallRecords
<1>8. Holds(r)'
  BY <1>2 DEF Holds, CallRecords
<1> HIDE DEF n
<1> QED
  BY <1>2, <1>6, <1>7, <1>8, RowStep DEF InsertRow

LEMMA MarkDeletedStep ==
    ASSUME Inv, NEW r \in Calls, MarkDeleted(r)
    PROVE  Inv'
<1> DEFINE c == call[r].campaign
           n == [call[r] EXCEPT !.amount = Refund(r), !.at = IF Refund(r) > 0 THEN "lock" ELSE "done"]
<1>1. call[r].at = "mark" /\ call[r].kind = "delete"
  BY DEF MarkDeleted, At
<1>2. call[r] \in CallRecords /\ Knows(r)
  BY <1>1, Kinds DEF Inv, Types, CallsFit, Fits
<1>3. c \in Campaigns /\ row[c] \in Rows /\ call[r].cached \in Docs
  BY <1>1, <1>2 DEF Knows
<1>4. Refund(r) \in Nat
  BY <1>3 DEF Refund, Docs
<1>5. n \in CallRecords
  BY <1>2, <1>4 DEF CallRecords, Steps
<1>6. call' = [call EXCEPT ![r] = n]
  BY DEF MarkDeleted
<1>7. call'[r] = n
  BY <1>5, <1>6, Moved DEF Inv, Types
<1>8. [row[c] EXCEPT !.deleted = TRUE] \in Rows
  BY <1>3 DEF Rows
<1>9. row' = [row EXCEPT ![c] = [row[c] EXCEPT !.deleted = TRUE]]
  BY DEF MarkDeleted
<1>10. /\ row' \in [Campaigns -> Rows \union {NoRow}] /\ row'[c] \in Rows
       /\ \A d \in Campaigns : row[d] \in Rows => row'[d] \in Rows
  BY <1>3, <1>8, <1>9 DEF Inv, Types, TypeOK
<1>11. Knows(r)'
  BY <1>1, <1>2, <1>3, <1>7, <1>10 DEF Knows, CallRecords
<1>12. Holds(r)'
  BY <1>2, <1>7 DEF Holds, CallRecords
<1> HIDE DEF n, c
<1> QED
  BY <1>5, <1>6, <1>10, <1>11, <1>12, RowStep DEF MarkDeleted

LEMMA NewTypes ==
    ASSUME NEW r \in Calls, NEW found \in Rows, call[r].edit \in Edits
    PROVE  NewBudget(r, found) \in Nat /\ NewStatus(r, found) \in Statuses
<1>1. call[r].edit \in [budget : Nat \union {None}, status : {"ACTIVE", "PAUSED", None},
                        start  : {"ACTIVE", "PENDING", None}]
  BY CreditAssumption
<1>2. NewBudget(r, found) \in Nat
  BY <1>1 DEF NewBudget, Rows
<1>3. CASE StartDecides(r)
  <2>1. NewStatus(r, found) = call[r].edit.start
    BY <1>3 DEF NewStatus
  <2> QED
    BY <1>1, <1>2, <1>3, <2>1 DEF StartDecides, Statuses
<1>4. CASE ~StartDecides(r) /\ call[r].edit.status # None
  <2>1. NewStatus(r, found) = call[r].edit.status
    BY <1>4 DEF NewStatus
  <2> QED
    BY <1>1, <1>2, <1>4, <2>1 DEF Statuses
<1>5. CASE ~StartDecides(r) /\ call[r].edit.status = None
  <2>1. NewStatus(r, found) = found.status
    BY <1>5 DEF NewStatus
  <2> QED
    BY <1>2, <2>1 DEF Rows
<1> QED
  BY <1>3, <1>4, <1>5

LEMMA CommitUpdateStep ==
    ASSUME Inv, NEW r \in Calls, CommitUpdate(r)
    PROVE  Inv'
<1> DEFINE c == call[r].campaign
           found == call[r].found
           b == IF NewBudget(r, found) = found.budget THEN row[c].budget ELSE NewBudget(r, found)
           st == IF NewStatus(r, found) = found.status THEN row[c].status ELSE NewStatus(r, found)
<1>1. call[r].at = "commit" /\ call[r].kind = "update"
  BY DEF CommitUpdate, At
<1>2. Knows(r)
  BY <1>1, Kinds DEF Inv, Types, CallsFit, Fits
<1>3. c \in Campaigns /\ row[c] \in Rows /\ found \in Rows /\ call[r].edit \in Edits
  BY <1>1, <1>2 DEF Knows
<1>4. NewBudget(r, found) \in Nat /\ NewStatus(r, found) \in Statuses
  BY <1>3, NewTypes
<1>5. b \in Nat /\ st \in Statuses
  BY <1>3, <1>4 DEF Rows
<1>6. row \in [Campaigns -> Rows \union {NoRow}]
  BY DEF Inv, Types, TypeOK
<1>7. row' = [row EXCEPT ![c] = [row[c] EXCEPT !.budget = b, !.status = st]]
  BY <1>3, <1>6 DEF CommitUpdate
<1>8. [row[c] EXCEPT !.budget = b, !.status = st] \in Rows
  BY <1>3, <1>5 DEF Rows
<1>9. /\ row' \in [Campaigns -> Rows \union {NoRow}]
      /\ \A d \in Campaigns : row[d] \in Rows => row'[d] \in Rows
  BY <1>3, <1>6, <1>7, <1>8
<1> HIDE DEF b, st, c, found
<1> QED
  BY <1>1, <1>9, CommitStep DEF CommitUpdate

(***************************************************************************)
(* Steps that write a document.                                            *)
(***************************************************************************)
LEMMA DocGoStep ==
    ASSUME Inv, NEW r \in Calls, NEW step \in Steps, Goto(r, step), call[r].at # "new",
           UNCHANGED <<balance, history, lock, row, billed, allowed>>,
           doc' \in [Campaigns -> Docs \union {NoDoc}], Documented',
           Knows(r)', Holds(r)'
    PROVE  Inv'
<1>1. lock' \in Calls \union {None} /\ \A s \in Calls : s # r /\ lock = s => lock' = s
  BY DEF Inv, Types, TypeOK
<1> QED
  BY <1>1, Went, DocStep

\* A document that is there, and its status.
LEMMA StatusSet ==
    ASSUME Types, row' = row, NEW c \in Campaigns, NEW status \in Statuses,
           IF doc[c] = NoDoc THEN UNCHANGED doc ELSE SetStatus(c, status)
    PROVE  doc' \in [Campaigns -> Docs \union {NoDoc}] /\ Documented'
<1>1. CASE doc[c] = NoDoc
  BY <1>1 DEF Types, TypeOK, Documented
<1>2. CASE doc[c] # NoDoc
  <2>1. doc[c] \in Docs /\ doc \in [Campaigns -> Docs \union {NoDoc}]
    BY <1>2, Kinds DEF Types, TypeOK
  <2>2. [doc[c] EXCEPT !.status = status] \in Docs
    BY <2>1 DEF Docs
  <2>3. doc' = [doc EXCEPT ![c] = [doc[c] EXCEPT !.status = status]]
    BY <1>2 DEF SetStatus
  <2> QED
    BY <2>1, <2>2, <2>3 DEF Types, Documented
<1> QED
  BY <1>1, <1>2

LEMMA SaveDocStep ==
    ASSUME Inv, NEW r \in Calls, SaveDoc(r)
    PROVE  Inv'
<1> DEFINE c == call[r].campaign
           d == [budget |-> row[c].budget, status |-> row[c].status, spent |-> 0]
<1>1. call[r].at = "save" /\ call[r].kind = "create" /\ Goto(r, "queue") /\ "queue" \in Steps
  BY DEF SaveDoc, At, Steps
<1>2. /\ call'[r] = [call[r] EXCEPT !.at = "queue"]
      /\ call[r] \in CallRecords /\ Knows(r) /\ Holds(r)
  BY <1>1, Went
<1>3. c \in Campaigns /\ row[c] \in Rows
  BY <1>1, <1>2 DEF Knows
<1>4. d \in Docs
  BY <1>3 DEF Rows, Docs
<1>5. doc' = [doc EXCEPT ![c] = d]
  BY DEF SaveDoc
<1>6. doc' \in [Campaigns -> Docs \union {NoDoc}] /\ Documented'
  BY <1>3, <1>4, <1>5 DEF Inv, Types, TypeOK, Documented, SaveDoc
<1>7. Knows(r)'
  BY <1>1, <1>2, <1>3 DEF Knows, CallRecords, SaveDoc
<1>8. Holds(r)'
  BY <1>1, <1>2 DEF Holds, CallRecords, Takes, SaveDoc
<1> HIDE DEF c, d
<1> QED
  BY <1>1, <1>6, <1>7, <1>8, DocGoStep DEF SaveDoc

LEMMA PauseStep ==
    ASSUME Inv, NEW r \in Calls, Pause(r)
    PROVE  Inv'
<1> DEFINE c == call[r].campaign
<1>1. PICK step \in {"check", "drop", "failed"} :
        /\ Goto(r, step)
        /\ step = "check" => call[r].kind = "update"
  BY DEF Pause
<1>2. call[r].at = "pause" /\ step \in Steps
  BY DEF Pause, Steps
<1>3. /\ call'[r] = [call[r] EXCEPT !.at = step]
      /\ call[r] \in CallRecords /\ Knows(r)
  BY <1>1, <1>2, Went
<1>4. c \in Campaigns
  BY <1>2, <1>3 DEF Knows
<1>5. IF doc[c] = NoDoc THEN UNCHANGED doc ELSE SetStatus(c, "PAUSED")
  BY DEF Pause
<1>6. doc' \in [Campaigns -> Docs \union {NoDoc}] /\ Documented'
  BY <1>4, <1>5, StatusSet DEF Inv, Statuses, Pause
<1>7. Knows(r)'
  BY <1>1, <1>2, <1>3 DEF Knows, CallRecords, Pause
<1>8. Holds(r)'
  BY <1>3 DEF Holds, CallRecords
<1> QED
  BY <1>1, <1>2, <1>6, <1>7, <1>8, DocGoStep DEF Pause

\* An edit that ends by setting the status of the document, if that is still there.
LEMMA EndStep ==
    ASSUME Inv, NEW r \in Calls, NEW status \in Statuses,
           call[r].kind \in {"update", "delete"}, call[r].at # "new",
           IF doc[call[r].campaign] = NoDoc THEN UNCHANGED doc ELSE SetStatus(call[r].campaign, status),
           Goto(r, "failed"), UNCHANGED <<balance, history, lock, row, billed, allowed>>
    PROVE  Inv'
<1>1. "failed" \in Steps
  BY DEF Steps
<1>2. /\ call'[r] = [call[r] EXCEPT !.at = "failed"]
      /\ call[r] \in CallRecords /\ Knows(r)
  BY <1>1, Went
<1>3. call[r].campaign \in Campaigns
  BY <1>2 DEF Knows
<1>4. doc' \in [Campaigns -> Docs \union {NoDoc}] /\ Documented'
  BY <1>3, StatusSet DEF Inv
<1>5. Knows(r)'
  BY <1>2 DEF Knows, CallRecords
<1>6. Holds(r)'
  BY <1>2 DEF Holds, CallRecords
<1> QED
  BY <1>1, <1>4, <1>5, <1>6, DocGoStep

LEMMA RefuseStep ==
    ASSUME Inv, NEW r \in Calls, Refuse(r)
    PROVE  Inv'
<1>1. call[r].kind \in {"update", "delete"} /\ call[r].at # "new" /\ "ACTIVE" \in Statuses
  BY DEF Refuse, At, Statuses
<1> QED
  BY <1>1, EndStep DEF Refuse

LEMMA RestoreStep ==
    ASSUME Inv, NEW r \in Calls, Restore(r)
    PROVE  Inv'
<1> DEFINE status == IF call[r].edit.status # None THEN call[r].edit.status ELSE call[r].cached.status
<1>1. call[r].at = "restore" /\ call[r].kind = "update"
  BY DEF Restore, At
<1>2. Knows(r)
  BY <1>1, Kinds DEF Inv, Types, CallsFit, Fits
<1>3. call[r].edit \in Edits /\ call[r].cached \in Docs
  BY <1>1, <1>2 DEF Knows
<1>4. status \in Statuses
  BY <1>3, CreditAssumption DEF Docs, Statuses
<1>5. IF doc[call[r].campaign] = NoDoc THEN UNCHANGED doc ELSE SetStatus(call[r].campaign, status)
  BY DEF Restore
<1> HIDE DEF status
<1> QED
  BY <1>1, <1>4, <1>5, EndStep DEF Restore

LEMMA CheckStep ==
    ASSUME Inv, NEW r \in Calls, Check(r)
    PROVE  Inv'
<1>1. call[r].at = "check" /\ call[r].kind = "update"
  BY DEF Check, At
<1>2. call[r] \in CallRecords /\ Knows(r)
  BY <1>1, Kinds DEF Inv, Types, CallsFit, Fits
<1>3. CASE \E step \in {"find", "restore"} : Goto(r, step)
  <2>1. PICK step \in {"find", "restore"} : Goto(r, step)
    BY <1>3
  <2>2. step \in Steps
    BY DEF Steps
  <2>3. call'[r] = [call[r] EXCEPT !.at = step]
    BY <1>1, <2>1, <2>2, Went
  <2>4. Knows(r)'
    BY <1>1, <1>2, <2>3 DEF Knows, CallRecords, Check
  <2>5. Holds(r)'
    BY <1>1, <1>2, <2>3 DEF Holds, Knows, CallRecords
  <2> QED
    BY <1>1, <2>1, <2>2, <2>4, <2>5, GoStep DEF Check
<1>4. CASE ~ \E step \in {"find", "restore"} : Goto(r, step)
  <2> DEFINE n == [call[r] EXCEPT !.at = "lock", !.amount = call[r].edit.budget - call[r].cached.budget]
  <2>1. /\ call[r].edit.budget # None /\ call[r].edit.budget > call[r].cached.budget
        /\ call' = [call EXCEPT ![r] = n]
    BY <1>4 DEF Check
  <2>2. call[r].edit.budget \in Nat /\ call[r].cached.budget \in Nat
    BY <1>1, <1>2, <2>1, CreditAssumption DEF Knows, Docs
  <2>3. call[r].edit.budget - call[r].cached.budget \in Nat
    BY <2>1, <2>2
  <2>4. n \in CallRecords
    BY <1>2, <2>3 DEF CallRecords, Steps
  <2>5. call'[r] = n
    BY <2>1, <2>4, Moved DEF Inv, Types
  <2>6. Knows(r)'
    BY <1>1, <1>2, <2>5 DEF Knows, CallRecords, Check
  <2>7. Holds(r)'
    BY <1>2, <2>5 DEF Holds, CallRecords
  <2>8. lock' \in Calls \union {None} /\ \A s \in Calls : s # r /\ lock = s => lock' = s
    BY DEF Check, Inv, Types, TypeOK
  <2> HIDE DEF n
  <2> QED
    BY <2>1, <2>4, <2>6, <2>7, <2>8, CallStep DEF Check
<1> QED
  BY <1>3, <1>4

LEMMA FindRowStep ==
    ASSUME Inv, NEW r \in Calls, FindRow(r)
    PROVE  Inv'
<1> DEFINE found == row[call[r].campaign]
<1>1. call[r].at = "find" /\ call[r].kind = "update"
  BY DEF FindRow, At
<1>2. call[r] \in CallRecords /\ Knows(r) /\ Holds(r)
  BY <1>1, Kinds DEF Inv, Types, CallsFit, Fits
<1>3. CASE /\ call' = [call EXCEPT ![r].at = "commit", ![r].found = found]
           /\ UNCHANGED lock
  <2> DEFINE n == [call[r] EXCEPT !.at = "commit", !.found = found]
  <2>1. found \in Rows
    BY <1>1, <1>2 DEF Knows
  <2>2. n \in CallRecords
    BY <1>2, <2>1 DEF CallRecords, Steps
  <2>3. call' = [call EXCEPT ![r] = n]
    BY <1>3
  <2>4. call'[r] = n
    BY <2>2, <2>3, Moved DEF Inv, Types
  <2>5. Knows(r)'
    BY <1>1, <1>2, <2>1, <2>4 DEF Knows, CallRecords, FindRow
  <2>6. Holds(r)'
    <3>1. /\ call'[r].kind = call[r].kind /\ call'[r].amount = call[r].amount
          /\ call'[r].seen = call[r].seen
      BY <1>2, <2>4 DEF CallRecords
    <3> QED
      BY <1>1, <1>2, <1>3, <3>1 DEF Holds, Takes, FindRow
  <2>7. lock' \in Calls \union {None} /\ \A s \in Calls : s # r /\ lock = s => lock' = s
    BY <1>3 DEF Inv, Types, TypeOK
  <2> HIDE DEF n
  <2> QED
    BY <2>2, <2>3, <2>5, <2>6, <2>7, CallStep DEF FindRow
<1>4. CASE Unlocked(r) /\ Goto(r, "restore")
  <2>1. RollBack(r, "restore") /\ call[r].at # "new"
    BY <1>1, <1>4 DEF FindRow, RollBack
  <2> QED
    BY <2>1, RollBackStep
<1> QED
  BY <1>3, <1>4 DEF FindRow

LEMMA SyncDocStep ==
    ASSUME Inv, NEW r \in Calls, SyncDoc(r)
    PROVE  Inv'
<1> DEFINE c == call[r].campaign
           b == NewBudget(r, call[r].found)
           st == NewStatus(r, call[r].found)
<1>1. call[r].at = "sync" /\ call[r].kind = "update"
  BY DEF SyncDoc, At
<1>2. PICK step \in {"done", "restore"} :
        /\ Goto(r, step)
        /\ step = "done" => doc[c] # NoDoc /\ doc' = [doc EXCEPT ![c].budget = b, ![c].status = st]
        /\ step = "restore" => UNCHANGED doc
  BY DEF SyncDoc
<1>3. step \in Steps
  BY DEF Steps
<1>4. /\ call'[r] = [call[r] EXCEPT !.at = step]
      /\ call[r] \in CallRecords /\ Knows(r)
  BY <1>1, <1>2, <1>3, Went
<1>5. c \in Campaigns /\ call[r].found \in Rows /\ call[r].edit \in Edits
  BY <1>1, <1>4 DEF Knows
<1>6. b \in Nat /\ st \in Statuses
  BY <1>5, NewTypes
<1>7. doc' \in [Campaigns -> Docs \union {NoDoc}] /\ Documented'
  <2>1. CASE step = "restore"
    BY <1>2, <2>1 DEF Inv, Types, TypeOK, Documented, SyncDoc
  <2>2. CASE step = "done"
    <3> DEFINE d == [doc[c] EXCEPT !.budget = b, !.status = st]
    <3>1. doc[c] \in Docs /\ doc \in [Campaigns -> Docs \union {NoDoc}]
      BY <1>2, <1>5, <2>2, Kinds DEF Inv, Types, TypeOK
    <3>2. d \in Docs
      BY <1>6, <3>1 DEF Docs
    <3>3. doc' = [doc EXCEPT ![c] = d]
      BY <1>2, <2>2
    <3> HIDE DEF d, b, st
    <3> QED
      BY <1>5, <3>1, <3>2, <3>3 DEF Inv, Types, Documented, SyncDoc
  <2> QED
    BY <2>1, <2>2
<1>8. Knows(r)'
  BY <1>1, <1>4 DEF Knows, CallRecords, SyncDoc
<1>9. Holds(r)'
  BY <1>4 DEF Holds, CallRecords
<1> QED
  BY <1>1, <1>2, <1>3, <1>7, <1>8, <1>9, DocGoStep DEF SyncDoc

LEMMA DropDocStep ==
    ASSUME Inv, NEW r \in Calls, DropDoc(r)
    PROVE  Inv'
<1>1. call[r].at = "drop" /\ call[r].kind = "delete" /\ Goto(r, "mark") /\ "mark" \in Steps
  BY DEF DropDoc, At, Steps
<1>2. /\ call'[r] = [call[r] EXCEPT !.at = "mark"]
      /\ call[r] \in CallRecords /\ Knows(r)
  BY <1>1, Went
<1>3. NoDoc \notin Docs
  BY DEF NoDoc, Docs
<1>4. doc' \in [Campaigns -> Docs \union {NoDoc}] /\ Documented'
  BY <1>3 DEF DropDoc, Inv, Types, TypeOK, Documented
<1>5. Knows(r)'
  BY <1>1, <1>2 DEF Knows, CallRecords, DropDoc
<1>6. Holds(r)'
  BY <1>2 DEF Holds, CallRecords
<1> QED
  BY <1>1, <1>4, <1>5, <1>6, DocGoStep DEF DropDoc

(***************************************************************************)
(* A click, and a request that fails.                                      *)
(***************************************************************************)
LEMMA BillStep ==
    ASSUME Inv, NEW c \in Campaigns, Bill(c)
    PROVE  Inv'
<1> DEFINE d == [doc[c] EXCEPT !.spent = @ + Cost]
<1>1. TypeOK /\ doc[c] \in Docs /\ doc \in [Campaigns -> Docs \union {NoDoc}] /\ Cost \in Nat
  BY Kinds, CreditAssumption DEF Inv, Types, TypeOK, Bill
<1>2. d \in Docs
  BY <1>1 DEF Docs
<1>3. doc' = [doc EXCEPT ![c] = d]
  BY DEF Bill
<1>4. doc' \in [Campaigns -> Docs \union {NoDoc}] /\ Documented'
  BY <1>1, <1>2, <1>3 DEF Inv, Types, Documented, Bill
<1>5. billed' \in [Campaigns -> Nat]
  BY <1>1 DEF TypeOK, Bill
<1>6. TypeOK'
  BY <1>1, <1>4, <1>5 DEF TypeOK, Bill
<1>7. CallsFit'
  BY DEF Inv, CallsFit, Fits, Knows, Holds, Takes, Bill
<1>8. BalanceFollowsHistory'
  BY QuietHistory DEF Inv, Bill
<1> QED
  BY <1>4, <1>6, <1>7, <1>8 DEF Inv, Types

LEMMA FailStep ==
    ASSUME Inv, NEW r \in Calls, FailCreate(r) \/ RefuseTags(r) \/ FailUpdate(r) \/ Crash(r)
    PROVE  Inv'
<1>1. call[r].at # "new" /\ (RollBack(r, "failed") \/ RollBack(r, "restore"))
  BY DEF FailCreate, RefuseTags, FailUpdate, Crash, Working, At
<1> QED
  BY <1>1, RollBackStep

-----------------------------------------------------------------------------
LEMMA HandleStep ==
    ASSUME Inv, NEW r \in Calls, Handle(r)
    PROVE  Inv'
  BY LockUserStep, LackBalanceStep, CommitRest, InsertRowStep, SaveDocStep, FailStep, PauseStep,
     RefuseStep, CheckStep, FindRowStep, CommitUpdateStep, SyncDocStep, RestoreStep, DropDocStep,
     MarkDeletedStep
     DEF Handle

LEMMA InitInv == Init => Inv
<1> SUFFICES ASSUME Init PROVE Inv
  OBVIOUS
<1>1. TypeOK
  BY CreditAssumption DEF Init, TypeOK, Rows, Docs, Statuses
<1>2. Documented
  BY DEF Init, Documented, Rows, Docs, Statuses, NoDoc
<1>3. CallsFit
  BY DEF Init, CallsFit, Fits
<1>4. BalanceFollowsHistory
  BY DEF Init, BalanceFollowsHistory
<1> QED
  BY <1>1, <1>2, <1>3, <1>4 DEF Inv, Types

LEMMA NextInv == Inv /\ [Next]_vars => Inv'
<1> SUFFICES ASSUME Inv, [Next]_vars PROVE Inv'
  OBVIOUS
<1>1. CASE UNCHANGED vars
  BY <1>1 DEF vars, Inv, Types, TypeOK, Documented, CallsFit, Fits, Knows, Holds, Takes,
              BalanceFollowsHistory, Signed
<1>2. ASSUME NEW r \in Calls, Handle(r) \/ Crash(r) PROVE Inv'
  BY <1>2, HandleStep, FailStep
<1>3. ASSUME NEW r \in Calls, NEW d \in Deposits, StartCharge(r, d) PROVE Inv'
  BY <1>3, StartChargeStep
<1>4. ASSUME NEW r \in Calls, NEW c \in Campaigns,
             \/ \E b \in Budgets : StartCreate(r, c, b)
             \/ \E e \in Edits : StartUpdate(r, c, e)
             \/ StartDelete(r, c)
      PROVE Inv'
  BY <1>4, StartCreateStep, StartUpdateStep, StartDeleteStep
<1>5. ASSUME NEW c \in Campaigns, Bill(c) PROVE Inv'
  BY <1>5, BillStep
<1> QED
  BY <1>1, <1>2, <1>3, <1>4, <1>5 DEF Next

(***************************************************************************)
(* Type correctness.  Beyond the shape of the records: the balance, which  *)
(* the code computes by a subtraction from what a transaction read, is     *)
(* never negative.                                                         *)
(***************************************************************************)
THEOREM CreditTypeCorrect == Spec => []TypeOK
<1>1. Inv => TypeOK
  BY DEF Inv, Types
<1> QED
  BY <1>1, InitInv, NextInv, PTL DEF Spec

(***************************************************************************)
(* The credit history explains the balance, entry by entry, and no entry   *)
(* is overdrawn: for any number of requests at once, whatever overlaps, is *)
(* refused, fails or crashes between two steps.                            *)
(***************************************************************************)
THEOREM HistoryExplained == Spec => []BalanceFollowsHistory
<1>1. Inv => BalanceFollowsHistory
  BY DEF Inv
<1> QED
  BY <1>1, InitInv, NextInv, PTL DEF Spec

-----------------------------------------------------------------------------
(***************************************************************************)
(* While edits do not overlap and nothing fails, one request edits at a    *)
(* time.  A campaign no request is at work on is at rest: it was never     *)
(* created, or what was paid for it is what it is worth and its document,  *)
(* if there is one, counts the clicks that were billed.                    *)
(***************************************************************************)
Calm == allowed \subseteq {"refusal"}

Alone == \A r, s \in Calls : Editing(r) /\ Editing(s) => r = s

ChargesApart == \A r \in Calls : call[r] # NewCall /\ call[r].kind = "charge" => call[r].campaign = None

Blank(c) == doc[c] = NoDoc /\ billed[c] = 0 /\ Paid(c) = 0

Counted(c) == doc[c] # NoDoc /\ doc[c].spent = billed[c] /\ ~row[c].deleted

Kept(c) ==
    IF row[c] = NoRow THEN Blank(c)
    ELSE /\ Paid(c) = Worth(c)
         /\ doc[c] # NoDoc => Counted(c) /\ doc[c].budget = row[c].budget

Untouched(c) == \A r \in Calls : Editing(r) => call[r].campaign # c

(***************************************************************************)
(* A request at work on a campaign c.  A creation has taken nothing until  *)
(* it commits.                                                             *)
(***************************************************************************)
Creating(r, c) ==
    /\ call[r].at = "insert" => row[c] = NoRow
    /\ call[r].at # "insert" => row[c] # NoRow /\ ~row[c].deleted /\ row[c].budget = call[r].amount
    /\ call[r].at \in {"insert", "lock", "save"} => Blank(c) /\ call[r].amount <= balance
    /\ call[r].at = "queue" =>
          Paid(c) = 0 /\ Counted(c) /\ doc[c].budget = row[c].budget

\* An update has read the budget as it still is, and takes what it is going to add to it.
Updating(r, c) ==
    /\ Counted(c)
    /\ Paid(c) = row[c].budget
    /\ call[r].at # "sync" =>
          call[r].cached.budget = row[c].budget /\ doc[c].budget = row[c].budget
    /\ call[r].at \in {"lock", "find", "commit"} =>
          NewBudget(r, row[c]) = row[c].budget + call[r].amount
    /\ call[r].at = "commit" => call[r].found = row[c]
    /\ call[r].at = "sync" => row[c].budget = NewBudget(r, call[r].found)

\* A delete has read the budget and the clicks as they still are, and refunds the rest.
Deleting(r, c) ==
    /\ Paid(c) = row[c].budget
    /\ call[r].cached.budget = row[c].budget /\ call[r].cached.spent = billed[c]
    /\ call[r].at \in {"pause", "drop"} => Counted(c) /\ doc[c].budget = row[c].budget
    /\ call[r].at \in {"mark", "lock", "commit"} => doc[c] = NoDoc
    /\ call[r].at = "mark" => ~row[c].deleted
    /\ call[r].at \in {"lock", "commit"} =>
          row[c].deleted /\ billed[c] < row[c].budget /\ call[r].amount = row[c].budget - billed[c]

Midway(r) ==
    LET c == call[r].campaign
    IN  CASE call[r].kind = "create" -> Creating(r, c)
          [] call[r].kind = "update" -> Updating(r, c)
          [] call[r].kind = "delete" -> Deleting(r, c)

Conserves ==
    /\ Alone
    /\ \A c \in Campaigns : Untouched(c) => Kept(c)
    /\ \A r \in Calls : Editing(r) => Midway(r)

FiniteUnits == \A c \in Campaigns, type \in {"CHARGE", "WITHDRAW"} : IsFiniteSet(Units(c, type))

CreditInv == Inv /\ ChargesApart /\ FiniteUnits /\ (Calm => Conserves)

-----------------------------------------------------------------------------
(***************************************************************************)
(* What the history says was paid, after an entry is added.                *)
(***************************************************************************)
LEMMA EntryUnits ==
    ASSUME NEW i, NEW n \in Nat
    PROVE  IsFiniteSet({i} \X (1..n)) /\ Cardinality({i} \X (1..n)) = n
<1>1. IsFiniteSet(1..n) /\ Cardinality(1..n) = n
  BY FS_Interval
<1>2. IsFiniteSet({i}) /\ Cardinality({i}) = 1
  BY FS_Singleton
<1> QED
  BY <1>1, <1>2, FS_Product

LEMMA UnitsAdded ==
    ASSUME TypeOK, FiniteUnits, NEW e \in Entries, history' = Append(history, e),
           NEW c \in Campaigns, NEW type \in {"CHARGE", "WITHDRAW"}
    PROVE  /\ IsFiniteSet(Units(c, type)')
           /\ Cardinality(Units(c, type)) \in Nat
           /\ Cardinality(Units(c, type)') =
                Cardinality(Units(c, type)) + (IF e.campaign = c /\ e.type = type THEN e.amount ELSE 0)
<1> DEFINE n == Len(history) + 1
           new == {n} \X (1..e.amount)
           U == Units(c, type)
<1>1. history \in Seq(Entries) /\ e.amount \in Nat
  BY DEF TypeOK, Entries
<1>2. /\ DOMAIN history = 1..Len(history) /\ DOMAIN history' = 1..n /\ Len(history) \in Nat
      /\ \A i \in 1..Len(history) : history'[i] = history[i]
      /\ history'[n] = e
  BY <1>1
<1>3. IsFiniteSet(U) /\ Cardinality(U) \in Nat
  BY FS_CardinalityType DEF FiniteUnits
<1>4. CASE e.campaign = c /\ e.type = type
  <2>1. Moves(c, type)' = Moves(c, type) \union {n}
    BY <1>2, <1>4 DEF Moves
  <2>2. Units(c, type)' = U \union new
    BY <1>2, <2>1 DEF Units, Moves
  <2>3. IsFiniteSet(new) /\ Cardinality(new) = e.amount
    BY <1>1, EntryUnits
  <2>4. U \intersect new = {}
    BY <1>2 DEF Units, Moves
  <2> HIDE DEF new, U
  <2>5. /\ IsFiniteSet(U \union new)
        /\ Cardinality(U \union new) = Cardinality(U) + Cardinality(new) - Cardinality(U \intersect new)
    BY <1>3, <2>3, FS_Union
  <2>6. Cardinality(U \intersect new) = 0
    BY <2>4, FS_EmptySet
  <2> QED
    BY <1>1, <1>3, <1>4, <2>2, <2>3, <2>5, <2>6 DEF U
<1>5. CASE ~(e.campaign = c /\ e.type = type)
  <2>1. Moves(c, type)' = Moves(c, type)
    BY <1>2, <1>5 DEF Moves
  <2>2. Units(c, type)' = U
    BY <1>2, <2>1 DEF Units, Moves
  <2> QED
    BY <1>3, <1>5, <2>2
<1> QED
  BY <1>4, <1>5

LEMMA PaidAfter ==
    ASSUME TypeOK, FiniteUnits, NEW e \in Entries, history' = Append(history, e)
    PROVE  /\ FiniteUnits'
           /\ \A c \in Campaigns :
                /\ Paid(c) \in Int
                /\ Paid(c)' = IF e.campaign = c THEN Paid(c) - Signed(e) ELSE Paid(c)
<1>1. FiniteUnits'
  BY UnitsAdded DEF FiniteUnits
<1>2. ASSUME NEW c \in Campaigns
      PROVE  /\ Paid(c) \in Int
             /\ Paid(c)' = IF e.campaign = c THEN Paid(c) - Signed(e) ELSE Paid(c)
  <2> DEFINE Taken == Cardinality(Units(c, "WITHDRAW"))
             Given == Cardinality(Units(c, "CHARGE"))
  <2>1. /\ Taken \in Nat
        /\ Taken' = Taken + (IF e.campaign = c /\ e.type = "WITHDRAW" THEN e.amount ELSE 0)
    BY UnitsAdded
  <2>2. /\ Given \in Nat
        /\ Given' = Given + (IF e.campaign = c /\ e.type = "CHARGE" THEN e.amount ELSE 0)
    BY UnitsAdded
  <2>3. e.amount \in Nat /\ e.type \in {"CHARGE", "WITHDRAW"}
    BY DEF Entries
  <2>4. Paid(c) = Taken - Given /\ Paid(c)' = Taken' - Given'
    BY DEF Paid
  <2> HIDE DEF Taken, Given
  <2> QED
    BY <2>1, <2>2, <2>3, <2>4 DEF Signed
<1> QED
  BY <1>1, <1>2

\* A history that does not change says the same.
LEMMA PaidStays ==
    ASSUME FiniteUnits, history' = history
    PROVE  /\ FiniteUnits'
           /\ \A c \in Campaigns : Paid(c) \in Int /\ Paid(c)' = Paid(c)
<1>1. \A c \in Campaigns, type \in {"CHARGE", "WITHDRAW"} :
        Units(c, type)' = Units(c, type) /\ Cardinality(Units(c, type)) \in Nat
  BY FS_CardinalityType DEF FiniteUnits, Units, Moves
<1>2. FiniteUnits'
  BY <1>1 DEF FiniteUnits
<1>3. \A c \in Campaigns : Paid(c) \in Int /\ Paid(c)' = Paid(c)
  BY <1>1 DEF Paid
<1> QED
  BY <1>2, <1>3

\* What the entry of a request changes.
LEMMA PaidWritten ==
    ASSUME TypeOK, BalanceFollowsHistory, FiniteUnits, NEW r \in Calls,
           call[r] \in CallRecords, Holds(r), call[r].at \in {"queue", "commit"}, WriteBalance(r)
    PROVE  /\ FiniteUnits'
           /\ ~Takes(r) => balance' >= balance
           /\ \A c \in Campaigns :
                /\ Paid(c) \in Int
                /\ call[r].campaign # c => Paid(c)' = Paid(c)
                /\ call[r].campaign = c => Paid(c)' = Paid(c) + (IF Takes(r) THEN call[r].amount
                                                                 ELSE 0 - call[r].amount)
<1>1. call[r].amount \in Nat /\ balance \in Nat
  BY DEF CallRecords, TypeOK
<1>2. CASE call[r].amount = 0
  <2>1. UNCHANGED <<balance, history>>
    BY <1>2 DEF WriteBalance
  <2>2. FiniteUnits' /\ \A c \in Campaigns : Paid(c) \in Int /\ Paid(c)' = Paid(c)
    BY <2>1, PaidStays
  <2> QED
    BY <1>1, <1>2, <2>1, <2>2
<1>3. CASE call[r].amount # 0
  <2> DEFINE after == call[r].seen + (IF Takes(r) THEN 0 - call[r].amount ELSE call[r].amount)
             e == [type |-> IF Takes(r) THEN "WITHDRAW" ELSE "CHARGE",
                   amount |-> call[r].amount, balanceAfter |-> after, campaign |-> call[r].campaign]
  <2>1. balance' = after /\ history' = Append(history, e)
    BY <1>3 DEF WriteBalance
  <2>2. call[r].seen = balance
    BY <1>3 DEF Holds
  <2>3. after \in Int /\ (~Takes(r) => after >= balance)
    BY <1>1, <2>2
  <2>4. e \in Entries
    BY <1>1, <2>3 DEF Entries, CallRecords
  <2>5. /\ e.campaign = call[r].campaign
        /\ Signed(e) = IF Takes(r) THEN 0 - call[r].amount ELSE call[r].amount
    BY DEF Signed
  <2> HIDE DEF e, after
  <2>6. /\ FiniteUnits'
        /\ \A c \in Campaigns :
             /\ Paid(c) \in Int
             /\ Paid(c)' = IF e.campaign = c THEN Paid(c) - Signed(e) ELSE Paid(c)
    BY <2>1, <2>4, PaidAfter
  <2> QED
    BY <1>1, <2>1, <2>3, <2>5, <2>6
<1> QED
  BY <1>2, <1>3

-----------------------------------------------------------------------------
(***************************************************************************)
(* The steps of the one request that edits.                                *)
(***************************************************************************)
LEMMA AtWork ==
    ASSUME Inv, NEW r \in Calls, Editing(r)
    PROVE  /\ TypeOK /\ BalanceFollowsHistory
           /\ call[r] \in CallRecords /\ call[r] # NewCall /\ Knows(r) /\ Holds(r)
           /\ call[r].kind \in {"create", "update", "delete"}
           /\ call[r].campaign \in Campaigns
<1>1. call[r] \in CallRecords /\ call[r] # NewCall
  BY Kinds DEF Inv, Types, Editing, Working
<1>2. Knows(r) /\ Holds(r)
  BY <1>1 DEF Inv, CallsFit, Fits
<1> QED
  BY <1>1, <1>2 DEF Inv, Types, Editing, Knows, CallRecords

\* A request that goes on is the same request on the same campaign.
GoesOn(r) ==
    /\ \A s \in Calls : s # r => call'[s] = call[s]
    /\ call'[r].kind = call[r].kind /\ call'[r].campaign = call[r].campaign

Elsewhere(r) ==
    \A d \in Campaigns : d # call[r].campaign =>
        row'[d] = row[d] /\ doc'[d] = doc[d] /\ billed'[d] = billed[d] /\ Paid(d)' = Paid(d)

LEMMA KeptStays ==
    ASSUME NEW c \in Campaigns, Kept(c), row'[c] = row[c], doc'[c] = doc[c],
           billed'[c] = billed[c], Paid(c)' = Paid(c)
    PROVE  Kept(c)'
  BY DEF Kept, Blank, Counted, Worth

LEMMA EditStep ==
    ASSUME Conserves, NEW r \in Calls, NEW c \in Campaigns, c = call[r].campaign,
           Editing(r), GoesOn(r), Elsewhere(r),
           Editing(r)' => Midway(r)', ~Editing(r)' => Kept(c)'
    PROVE  Conserves'
<1>1. ASSUME NEW s \in Calls, Editing(s)' PROVE s = r
  BY <1>1 DEF GoesOn, Editing, Working, Conserves, Alone
<1>2. Alone'
  BY <1>1 DEF Alone
<1>3. ASSUME NEW d \in Campaigns, Untouched(d)' PROVE Kept(d)'
  <2>1. CASE d = c
    BY <1>3, <2>1 DEF Untouched, GoesOn
  <2>2. CASE d # c
    <3>1. Untouched(d)
      BY <2>2 DEF Untouched, Conserves, Alone
    <3>2. Kept(d)
      BY <3>1 DEF Conserves
    <3> QED
      BY <2>2, <3>2, KeptStays DEF Elsewhere
  <2> QED
    BY <2>1, <2>2
<1> QED
  BY <1>1, <1>2, <1>3 DEF Conserves

\* The step of a request that moves on with the history and the campaigns as they are.
LEMMA QuietStep ==
    ASSUME FiniteUnits, UNCHANGED <<row, doc, billed, history>>, NEW r \in Calls
    PROVE  /\ Elsewhere(r)
           /\ \A c \in Campaigns : Paid(c)' = Paid(c) /\ (Kept(c) => Kept(c)')
  BY PaidStays, KeptStays DEF Elsewhere

LEMMA Goes ==
    ASSUME Inv, NEW r \in Calls, NEW step \in Steps, Editing(r), Goto(r, step)
    PROVE  GoesOn(r) /\ call'[r] = [call[r] EXCEPT !.at = step]
<1>1. call[r].at # "new"
  BY DEF Editing, Working
<1>2. /\ [call[r] EXCEPT !.at = step] \in CallRecords
      /\ call' = [call EXCEPT ![r] = [call[r] EXCEPT !.at = step]]
      /\ call'[r] = [call[r] EXCEPT !.at = step]
      /\ call[r] \in CallRecords
  BY <1>1, Went
<1>3. \A s \in Calls : s # r => call'[s] = call[s]
  BY <1>2, Moved DEF Inv, Types
<1> QED
  BY <1>2, <1>3 DEF GoesOn, CallRecords

LEMMA InsertConserves ==
    ASSUME Inv, FiniteUnits, Conserves, NEW r \in Calls, InsertRow(r)
    PROVE  Conserves'
<1>1. Editing(r) /\ call[r].at = "insert" /\ call[r].kind = "create"
  BY DEF InsertRow, At, Editing, Working
<1>2. TypeOK /\ call[r] \in CallRecords
  BY <1>1, AtWork
<1>c. PICK c \in Campaigns : c = call[r].campaign
  BY <1>1, AtWork
<1>3. GoesOn(r) /\ call'[r] = [call[r] EXCEPT !.at = "lock"]
  BY <1>1, Goes DEF InsertRow, Steps
<1>4. Creating(r, c)
  BY <1>1, <1>c DEF Conserves, Midway
<1>5. \A d \in Campaigns : Paid(d)' = Paid(d)
  BY PaidStays DEF InsertRow
<1>6. Elsewhere(r)
  BY <1>2, <1>5 DEF Elsewhere, InsertRow, TypeOK
<1>7. row'[c] # NoRow /\ ~row'[c].deleted /\ row'[c].budget = call[r].amount
  <2>1. PICK status \in {"PENDING", "ACTIVE"} :
          row' = [row EXCEPT ![c] = [budget |-> call[r].amount, status |-> status, deleted |-> FALSE]]
    BY <1>c DEF InsertRow
  <2>2. row'[c] = [budget |-> call[r].amount, status |-> status, deleted |-> FALSE]
    BY <1>2, <2>1 DEF TypeOK
  <2> QED
    BY <2>2 DEF NoRow
<1>8. Blank(c)' /\ call[r].amount <= balance
  BY <1>1, <1>2, <1>4, <1>5 DEF Creating, Blank, InsertRow
<1>9. Creating(r, c)'
  BY <1>2, <1>3, <1>7, <1>8 DEF Creating, InsertRow, CallRecords
<1>10. Midway(r)' /\ Editing(r)'
  BY <1>c, <1>1, <1>2, <1>3, <1>9 DEF Midway, Editing, Working, CallRecords
<1> QED
  BY <1>c, <1>1, <1>3, <1>6, <1>10, EditStep

LEMMA SaveConserves ==
    ASSUME Inv, FiniteUnits, Conserves, NEW r \in Calls, SaveDoc(r)
    PROVE  Conserves'
<1>1. Editing(r) /\ call[r].at = "save" /\ call[r].kind = "create"
  BY DEF SaveDoc, At, Editing, Working
<1>2. TypeOK /\ call[r] \in CallRecords
  BY <1>1, AtWork
<1>c. PICK c \in Campaigns : c = call[r].campaign
  BY <1>1, AtWork
<1>3. GoesOn(r) /\ call'[r] = [call[r] EXCEPT !.at = "queue"]
  BY <1>1, Goes DEF SaveDoc, Steps
<1>4. Creating(r, c)
  BY <1>1, <1>c DEF Conserves, Midway
<1>5. \A d \in Campaigns : Paid(d)' = Paid(d)
  BY PaidStays DEF SaveDoc
<1>6. Elsewhere(r)
  BY <1>2, <1>5 DEF Elsewhere, SaveDoc, TypeOK
<1>7. doc'[c] = [budget |-> row[c].budget, status |-> row[c].status, spent |-> 0]
  BY <1>c, <1>2 DEF SaveDoc, TypeOK
<1>8. doc'[c] # NoDoc /\ doc'[c].spent = 0 /\ doc'[c].budget = row[c].budget
  BY <1>7 DEF NoDoc
<1>9. Creating(r, c)'
  BY <1>1, <1>2, <1>3, <1>4, <1>5, <1>8 DEF Creating, Blank, Counted, SaveDoc, CallRecords
<1>10. Midway(r)' /\ Editing(r)'
  BY <1>c, <1>1, <1>2, <1>3, <1>9 DEF Midway, Editing, Working, CallRecords
<1> QED
  BY <1>c, <1>1, <1>3, <1>6, <1>10, EditStep

LEMMA CommitCreateConserves ==
    ASSUME Inv, FiniteUnits, Conserves, NEW r \in Calls, CommitCreate(r)
    PROVE  Conserves'
<1>1. Editing(r) /\ call[r].at = "queue" /\ call[r].kind = "create"
  BY DEF CommitCreate, At, Editing, Working
<1>2. TypeOK /\ BalanceFollowsHistory /\ call[r] \in CallRecords /\ Holds(r)
  BY <1>1, AtWork
<1>c. PICK c \in Campaigns : c = call[r].campaign
  BY <1>1, AtWork
<1>3. GoesOn(r) /\ call'[r] = [call[r] EXCEPT !.at = "done"]
  BY <1>1, Goes DEF CommitCreate, Steps
<1>4. Creating(r, c)
  BY <1>1, <1>c DEF Conserves, Midway
<1>5. Takes(r) /\ WriteBalance(r)
  BY <1>1 DEF Takes, CommitCreate
<1>6. \A d \in Campaigns :
        /\ call[r].campaign # d => Paid(d)' = Paid(d)
        /\ call[r].campaign = d => Paid(d)' = Paid(d) + call[r].amount
  BY <1>1, <1>2, <1>5, PaidWritten
<1>7. Elsewhere(r)
  BY <1>6 DEF Elsewhere, CommitCreate
<1>8. call[r].amount \in Nat
  BY <1>2 DEF CallRecords
<1>9. Paid(c)' = row[c].budget
  BY <1>c, <1>1, <1>2, <1>4, <1>6, <1>8 DEF Creating
<1>10. Kept(c)'
  BY <1>1, <1>4, <1>9 DEF Creating, Kept, Counted, Worth, CommitCreate
<1>11. ~Editing(r)'
  BY <1>2, <1>3 DEF Editing, Working, CallRecords
<1> QED
  BY <1>c, <1>1, <1>3, <1>7, <1>10, <1>11, EditStep

(***************************************************************************)
(* A request that has the lock, or waits for it no longer.                 *)
(***************************************************************************)
LEMMA LockConserves ==
    ASSUME Inv, FiniteUnits, Conserves, NEW r \in Calls, Editing(r), LockUser(r)
    PROVE  Conserves'
<1> DEFINE n == [call[r] EXCEPT !.seen = balance,
                   !.at = CASE call[r].kind = "create" -> "save"
                            [] call[r].kind = "update" -> "find"
                            [] OTHER -> "commit"]
<1>1. /\ TypeOK /\ call[r] \in CallRecords /\ call[r].at = "lock" /\ balance \in Nat
      /\ call[r].kind \in {"create", "update", "delete"}
  BY AtWork DEF LockUser, TypeOK
<1>2. PICK c \in Campaigns : c = call[r].campaign
  BY AtWork
<1>3. n \in CallRecords
  BY <1>1 DEF CallRecords, Steps
<1>4. call' = [call EXCEPT ![r] = n]
  BY DEF LockUser, Locked
<1>5. call'[r] = n /\ \A s \in Calls : s # r => call'[s] = call[s]
  BY <1>1, <1>3, <1>4, Moved
<1>6. /\ call'[r].kind = call[r].kind /\ call'[r].campaign = c /\ call'[r].edit = call[r].edit
      /\ call'[r].cached = call[r].cached /\ call'[r].amount = call[r].amount
  BY <1>1, <1>2, <1>5 DEF CallRecords
<1>7. GoesOn(r)
  BY <1>2, <1>5, <1>6 DEF GoesOn
<1>8. Elsewhere(r) /\ Paid(c)' = Paid(c)
  BY QuietStep DEF LockUser
<1>9. Midway(r)
  BY DEF Conserves
<1>10. CASE call[r].kind = "create"
  <2>1. call'[r].at = "save"
    BY <1>1, <1>5, <1>10 DEF CallRecords
  <2>2. Creating(r, c)
    BY <1>2, <1>9, <1>10 DEF Midway
  <2>3. Creating(r, c)'
    BY <1>1, <1>6, <1>8, <2>1, <2>2 DEF Creating, Blank, LockUser
  <2>4. Midway(r)'
    BY <1>2, <1>6, <1>10, <2>3 DEF Midway
  <2>5. Editing(r)'
    BY <1>6, <1>10, <2>1 DEF Editing, Working
  <2> QED
    BY <1>2, <1>7, <1>8, <2>4, <2>5, EditStep
<1>11. CASE call[r].kind = "update"
  <2>1. call'[r].at = "find"
    BY <1>1, <1>5, <1>11 DEF CallRecords
  <2>2. Updating(r, c)
    BY <1>2, <1>9, <1>11 DEF Midway
  <2>3. Updating(r, c)'
    BY <1>1, <1>6, <1>8, <2>1, <2>2 DEF Updating, Counted, NewBudget, LockUser
  <2>4. Midway(r)'
    BY <1>6, <1>11, <2>3 DEF Midway
  <2>5. Editing(r)'
    BY <1>6, <1>11, <2>1 DEF Editing, Working
  <2> QED
    BY <1>2, <1>7, <1>8, <2>4, <2>5, EditStep
<1>12. CASE call[r].kind = "delete"
  <2>1. call'[r].at = "commit"
    BY <1>1, <1>5, <1>12 DEF CallRecords
  <2>2. Deleting(r, c)
    BY <1>2, <1>9, <1>12 DEF Midway
  <2>3. Deleting(r, c)'
    BY <1>1, <1>6, <1>8, <2>1, <2>2 DEF Deleting, LockUser
  <2>4. Midway(r)'
    BY <1>6, <1>12, <2>3 DEF Midway
  <2>5. Editing(r)'
    BY <1>6, <1>12, <2>1 DEF Editing, Working
  <2> QED
    BY <1>2, <1>7, <1>8, <2>4, <2>5, EditStep
<1> QED
  BY <1>1, <1>10, <1>11, <1>12

(***************************************************************************)
(* Updates and deletes.                                                    *)
(***************************************************************************)
LEMMA AtUpdate ==
    ASSUME Inv, Conserves, NEW r \in Calls, Editing(r), call[r].kind = "update",
           NEW c \in Campaigns, c = call[r].campaign
    PROVE  /\ Updating(r, c) /\ row[c] \in Rows /\ row[c] # NoRow /\ row[c].budget \in Nat
           /\ call[r].at # "sync" => Kept(c)
<1>1. Updating(r, c) /\ row[c] \in Rows
  BY AtWork DEF Conserves, Midway, Knows
<1>2. row[c] # NoRow /\ row[c].budget \in Nat
  BY <1>1 DEF Rows, NoRow
<1> QED
  BY <1>1, <1>2 DEF Updating, Kept, Worth, Counted

LEMMA AtDelete ==
    ASSUME Inv, Conserves, NEW r \in Calls, Editing(r), call[r].kind = "delete",
           NEW c \in Campaigns, c = call[r].campaign
    PROVE  /\ Deleting(r, c) /\ row[c] \in Rows /\ row[c] # NoRow
           /\ row[c].budget \in Nat /\ billed[c] \in Nat
           /\ call[r].at \in {"pause", "drop"} => Kept(c)
<1>1. Deleting(r, c) /\ row[c] \in Rows /\ TypeOK
  BY AtWork DEF Conserves, Midway, Knows
<1>2. row[c] # NoRow /\ row[c].budget \in Nat
  BY <1>1 DEF Rows, NoRow
<1>3. billed[c] \in Nat
  BY <1>1 DEF TypeOK
<1> QED
  BY <1>1, <1>2, <1>3 DEF Deleting, Kept, Worth, Counted

\* Setting the status of a document changes neither its amounts nor another document.
LEMMA StatusOnly ==
    ASSUME TypeOK, FiniteUnits, NEW r \in Calls, NEW c \in Campaigns, c = call[r].campaign,
           NEW status, UNCHANGED <<row, billed, history>>,
           IF doc[c] = NoDoc THEN UNCHANGED doc ELSE SetStatus(c, status)
    PROVE  /\ Elsewhere(r)
           /\ Paid(c)' = Paid(c)
           /\ doc[c] # NoDoc => /\ doc'[c] # NoDoc
                                /\ doc'[c].budget = doc[c].budget /\ doc'[c].spent = doc[c].spent
           /\ Kept(c) => Kept(c)'
<1>1. \A d \in Campaigns : Paid(d)' = Paid(d)
  BY PaidStays
<1>2. CASE doc[c] = NoDoc
  BY <1>1, <1>2, KeptStays DEF Elsewhere
<1>3. CASE doc[c] # NoDoc
  <2>1. doc[c] \in Docs /\ doc \in [Campaigns -> Docs \union {NoDoc}]
    BY <1>3, Kinds DEF TypeOK
  <2>2. doc' = [doc EXCEPT ![c] = [doc[c] EXCEPT !.status = status]]
    BY <1>3 DEF SetStatus
  <2>3. doc'[c] = [doc[c] EXCEPT !.status = status] /\ \A d \in Campaigns : d # c => doc'[d] = doc[d]
    BY <2>1, <2>2
  <2>4. /\ doc'[c].budget = doc[c].budget /\ doc'[c].spent = doc[c].spent
        /\ doc[c].budget \in Nat /\ DOMAIN doc'[c] = DOMAIN doc[c]
    BY <2>1, <2>3 DEF Docs
  <2>5. doc'[c] # NoDoc
    BY <2>1, <2>4 DEF Docs, NoDoc
  <2>6. Kept(c) => Kept(c)'
    BY <1>1, <1>3, <2>4, <2>5 DEF Kept, Blank, Counted, Worth
  <2> QED
    BY <1>1, <2>3, <2>4, <2>5, <2>6 DEF Elsewhere
<1> QED
  BY <1>2, <1>3

LEMMA PauseConserves ==
    ASSUME Inv, FiniteUnits, Conserves, NEW r \in Calls, Pause(r)
    PROVE  Conserves'
<1>1. Editing(r) /\ call[r].at = "pause"
  BY Kinds DEF Pause, Editing, Working, Knows, Inv, Types, CallsFit, Fits
<1>2. TypeOK /\ call[r] \in CallRecords /\ call[r].kind \in {"update", "delete"}
  BY <1>1, AtWork DEF Knows
<1>3. PICK c \in Campaigns : c = call[r].campaign
  BY <1>1, AtWork
<1>4. doc[c] # NoDoc
  BY <1>1, <1>2, <1>3, AtUpdate, AtDelete DEF Updating, Deleting, Counted
<1>5. SetStatus(c, "PAUSED")
  BY <1>3, <1>4 DEF Pause
<1>6. /\ Elsewhere(r) /\ Paid(c)' = Paid(c) /\ doc'[c] # NoDoc
      /\ doc'[c].budget = doc[c].budget /\ doc'[c].spent = doc[c].spent
  BY <1>2, <1>3, <1>4, <1>5, StatusOnly DEF Pause
<1>7. CASE call[r].kind = "update"
  <2>1. GoesOn(r) /\ call'[r] = [call[r] EXCEPT !.at = "check"]
    BY <1>1, <1>3, <1>4, <1>7, Goes DEF Pause, Steps
  <2>2. Updating(r, c)
    BY <1>1, <1>3, <1>7, AtUpdate
  <2>3. Updating(r, c)'
    BY <1>1, <1>2, <1>6, <2>1, <2>2 DEF Updating, Counted, CallRecords, Pause
  <2>4. Midway(r)'
    BY <1>2, <1>3, <1>7, <2>1, <2>3 DEF Midway, CallRecords
  <2>5. Editing(r)'
    BY <1>2, <1>7, <2>1 DEF Editing, Working, CallRecords
  <2> QED
    BY <1>1, <1>3, <1>6, <2>1, <2>4, <2>5, EditStep
<1>8. CASE call[r].kind = "delete"
  <2>1. GoesOn(r) /\ call'[r] = [call[r] EXCEPT !.at = "drop"]
    BY <1>1, <1>3, <1>4, <1>8, Goes DEF Pause, Steps
  <2>2. Deleting(r, c)
    BY <1>1, <1>3, <1>8, AtDelete
  <2>3. Deleting(r, c)'
    BY <1>1, <1>2, <1>6, <2>1, <2>2 DEF Deleting, Counted, CallRecords, Pause
  <2>4. Midway(r)'
    BY <1>2, <1>3, <1>8, <2>1, <2>3 DEF Midway, CallRecords
  <2>5. Editing(r)'
    BY <1>2, <1>8, <2>1 DEF Editing, Working, CallRecords
  <2> QED
    BY <1>1, <1>3, <1>6, <2>1, <2>4, <2>5, EditStep
<1> QED
  BY <1>2, <1>7, <1>8

\* An edit that ends leaves the campaign at rest.
LEMMA EndConserves ==
    ASSUME Inv, Conserves, NEW r \in Calls, NEW c \in Campaigns, c = call[r].campaign,
           Editing(r), NEW step \in {"done", "failed"}, Goto(r, step), Elsewhere(r), Kept(c)'
    PROVE  Conserves'
<1>1. GoesOn(r) /\ call'[r] = [call[r] EXCEPT !.at = step] /\ call[r] \in CallRecords
  BY Goes, AtWork DEF Steps
<1>2. ~Editing(r)'
  BY <1>1 DEF Editing, Working, CallRecords
<1> QED
  BY <1>1, <1>2, EditStep

\* An update that goes on with the campaign as it is.
LEMMA UpdateGoes ==
    ASSUME Inv, FiniteUnits, Conserves, NEW r \in Calls, NEW c \in Campaigns, c = call[r].campaign,
           Editing(r), call[r].kind = "update", call[r].at # "sync",
           NEW step \in {"find", "restore"}, Goto(r, step), UNCHANGED <<row, doc, billed, history>>,
           step = "find" => NewBudget(r, row[c]) = row[c].budget + call[r].amount
    PROVE  Conserves'
<1>1. GoesOn(r) /\ call'[r] = [call[r] EXCEPT !.at = step] /\ call[r] \in CallRecords
  BY Goes, AtWork DEF Steps
<1>2. /\ call'[r].kind = "update" /\ call'[r].campaign = c /\ call'[r].edit = call[r].edit
      /\ call'[r].cached = call[r].cached /\ call'[r].amount = call[r].amount /\ call'[r].at = step
  BY <1>1 DEF CallRecords
<1>3. Elsewhere(r) /\ Paid(c)' = Paid(c)
  BY QuietStep
<1>4. Updating(r, c)
  BY AtUpdate
<1>5. Updating(r, c)'
  BY <1>2, <1>3, <1>4 DEF Updating, Counted, NewBudget
<1>6. Midway(r)'
  BY <1>2, <1>5 DEF Midway
<1>7. Editing(r)'
  BY <1>2 DEF Editing, Working
<1> QED
  BY <1>1, <1>3, <1>6, <1>7, EditStep

LEMMA LackConserves ==
    ASSUME Inv, FiniteUnits, Conserves, NEW r \in Calls, Editing(r), LackBalance(r)
    PROVE  Conserves'
<1>1. PICK c \in Campaigns : c = call[r].campaign
  BY AtWork
<1>2. call[r].amount \in Nat /\ balance \in Nat
  BY AtWork DEF CallRecords, TypeOK
<1>3. call[r].kind # "create"
  <2>1. call[r].kind = "create" => Creating(r, c)
    BY <1>1 DEF Conserves, Midway
  <2> QED
    BY <1>2, <2>1 DEF LackBalance, Creating
<1>4. call[r].kind = "update"
  BY <1>3 DEF LackBalance, Takes
<1> QED
  BY <1>1, <1>4, UpdateGoes DEF LackBalance

LEMMA RefuseConserves ==
    ASSUME Inv, FiniteUnits, Conserves, NEW r \in Calls, Refuse(r)
    PROVE  Conserves'
<1>1. /\ Editing(r)
      /\ \/ call[r].at = "check" /\ call[r].kind = "update"
         \/ call[r].at = "drop" /\ call[r].kind = "delete"
  <2>1. At(r, "update", "check") \/ At(r, "delete", "drop")
    BY DEF Refuse
  <2> QED
    BY <2>1 DEF At, Editing, Working
<1>2. PICK c \in Campaigns : c = call[r].campaign
  BY <1>1, AtWork
<1>3. Kept(c)
  BY <1>1, <1>2, AtUpdate, AtDelete
<1>4. Elsewhere(r) /\ Kept(c)'
  BY <1>1, <1>2, <1>3, AtWork, StatusOnly DEF Refuse
<1> QED
  BY <1>1, <1>2, <1>4, EndConserves DEF Refuse

LEMMA RefuseTagsConserves ==
    ASSUME Inv, FiniteUnits, Conserves, NEW r \in Calls, RefuseTags(r)
    PROVE  Conserves'
<1>1. Editing(r) /\ call[r].at = "check" /\ call[r].kind = "update"
  BY DEF RefuseTags, At, Editing, Working
<1>2. PICK c \in Campaigns : c = call[r].campaign
  BY <1>1, AtWork
<1>3. Kept(c)
  BY <1>1, <1>2, AtUpdate
<1>4. Elsewhere(r) /\ Kept(c)'
  BY <1>3, QuietStep DEF RefuseTags, RollBack
<1> QED
  BY <1>1, <1>2, <1>4, EndConserves DEF RefuseTags, RollBack

LEMMA RestoreConserves ==
    ASSUME Inv, FiniteUnits, Conserves, NEW r \in Calls, Restore(r)
    PROVE  Conserves'
<1>1. Editing(r) /\ call[r].at = "restore" /\ call[r].kind = "update"
  BY DEF Restore, At, Editing, Working
<1>2. PICK c \in Campaigns : c = call[r].campaign
  BY <1>1, AtWork
<1>3. Kept(c)
  BY <1>1, <1>2, AtUpdate
<1>4. Elsewhere(r) /\ Kept(c)'
  BY <1>1, <1>2, <1>3, AtWork, StatusOnly DEF Restore
<1> QED
  BY <1>1, <1>2, <1>4, EndConserves DEF Restore

LEMMA CheckConserves ==
    ASSUME Inv, FiniteUnits, Conserves, NEW r \in Calls, Check(r)
    PROVE  Conserves'
<1>1. Editing(r) /\ call[r].at = "check" /\ call[r].kind = "update"
  BY DEF Check, At, Editing, Working
<1>2. TypeOK /\ call[r] \in CallRecords /\ call[r].amount = 0 /\ call[r].edit \in Edits
  BY <1>1, AtWork DEF Knows
<1>3. PICK c \in Campaigns : c = call[r].campaign
  BY <1>1, AtWork
<1>4. Updating(r, c) /\ row[c].budget \in Nat
  BY <1>1, <1>3, AtUpdate
<1>5. call[r].cached.budget = row[c].budget
  BY <1>1, <1>4 DEF Updating
<1>6. CASE Goto(r, "find") /\ call[r].edit.budget \in {None, call[r].cached.budget}
  <2>1. NewBudget(r, row[c]) = row[c].budget + call[r].amount
    BY <1>2, <1>4, <1>5, <1>6 DEF NewBudget
  <2> QED
    BY <1>1, <1>3, <1>6, <2>1, UpdateGoes DEF Check
<1>7. CASE Goto(r, "restore")
  BY <1>1, <1>3, <1>7, UpdateGoes DEF Check
<1>8. CASE /\ call[r].edit.budget # None /\ call[r].edit.budget > call[r].cached.budget
           /\ call' = [call EXCEPT ![r].at = "lock",
                                   ![r].amount = call[r].edit.budget - call[r].cached.budget]
  <2> DEFINE n == [call[r] EXCEPT !.at = "lock", !.amount = call[r].edit.budget - call[r].cached.budget]
  <2>1. call' = [call EXCEPT ![r] = n]
    BY <1>8
  <2>2. call[r].edit.budget \in Nat
    BY <1>2, <1>8, CreditAssumption
  <2>3. call[r].edit.budget - call[r].cached.budget \in Nat
    BY <1>4, <1>5, <1>8, <2>2
  <2>4. n \in CallRecords
    BY <1>2, <2>3 DEF CallRecords, Steps
  <2>5. call'[r] = n /\ \A s \in Calls : s # r => call'[s] = call[s]
    BY <1>2, <2>1, <2>4, Moved
  <2>6. /\ call'[r].kind = "update" /\ call'[r].campaign = c /\ call'[r].edit = call[r].edit
        /\ call'[r].cached = call[r].cached /\ call'[r].at = "lock"
        /\ call'[r].amount = call[r].edit.budget - row[c].budget
    BY <1>1, <1>2, <1>3, <1>5, <2>5 DEF CallRecords
  <2> HIDE DEF n
  <2>7. GoesOn(r)
    BY <1>1, <1>3, <2>5, <2>6 DEF GoesOn
  <2>8. Elsewhere(r) /\ Paid(c)' = Paid(c)
    BY QuietStep DEF Check
  <2>9. Updating(r, c)'
    BY <1>1, <1>4, <1>8, <2>2, <2>6, <2>8 DEF Updating, Counted, NewBudget, Check
  <2>10. Midway(r)'
    BY <2>6, <2>9 DEF Midway
  <2>11. Editing(r)'
    BY <2>6 DEF Editing, Working
  <2> QED
    BY <1>1, <1>3, <2>7, <2>8, <2>10, <2>11, EditStep
<1> QED
  BY <1>6, <1>7, <1>8 DEF Check

LEMMA FindConserves ==
    ASSUME Inv, FiniteUnits, Conserves, NEW r \in Calls, FindRow(r)
    PROVE  Conserves'
<1>1. Editing(r) /\ call[r].at = "find" /\ call[r].kind = "update"
  BY DEF FindRow, At, Editing, Working
<1>2. TypeOK /\ call[r] \in CallRecords
  BY <1>1, AtWork
<1>3. PICK c \in Campaigns : c = call[r].campaign
  BY <1>1, AtWork
<1>4. Updating(r, c) /\ row[c] \in Rows /\ row[c] # NoRow
  BY <1>1, <1>3, AtUpdate
<1> DEFINE n == [call[r] EXCEPT !.at = "commit", !.found = row[c]]
<1>5. call' = [call EXCEPT ![r] = n]
  BY <1>3, <1>4 DEF FindRow, Updating, Counted
<1>6. n \in CallRecords
  BY <1>2, <1>4 DEF CallRecords, Steps
<1>7. call'[r] = n /\ \A s \in Calls : s # r => call'[s] = call[s]
  BY <1>2, <1>5, <1>6, Moved
<1>8. /\ call'[r].kind = "update" /\ call'[r].campaign = c /\ call'[r].edit = call[r].edit
      /\ call'[r].cached = call[r].cached /\ call'[r].amount = call[r].amount
      /\ call'[r].at = "commit" /\ call'[r].found = row[c]
  BY <1>1, <1>2, <1>3, <1>7 DEF CallRecords
<1> HIDE DEF n
<1>9. GoesOn(r)
  BY <1>1, <1>3, <1>7, <1>8 DEF GoesOn
<1>10. Elsewhere(r) /\ Paid(c)' = Paid(c)
  BY QuietStep DEF FindRow
<1>11. Updating(r, c)'
  BY <1>1, <1>4, <1>8, <1>10 DEF Updating, Counted, NewBudget, FindRow
<1>12. Midway(r)'
  BY <1>8, <1>11 DEF Midway
<1>13. Editing(r)'
  BY <1>8 DEF Editing, Working
<1> QED
  BY <1>1, <1>3, <1>9, <1>10, <1>12, <1>13, EditStep

LEMMA CommitUpdateConserves ==
    ASSUME Inv, FiniteUnits, Conserves, NEW r \in Calls, CommitUpdate(r)
    PROVE  Conserves'
<1>1. Editing(r) /\ call[r].at = "commit" /\ call[r].kind = "update"
  BY DEF CommitUpdate, At, Editing, Working
<1>2. TypeOK /\ BalanceFollowsHistory /\ call[r] \in CallRecords /\ Holds(r)
  BY <1>1, AtWork
<1>3. PICK c \in Campaigns : c = call[r].campaign
  BY <1>1, AtWork
<1>4. Updating(r, c) /\ row[c] \in Rows /\ row[c].budget \in Nat
  BY <1>1, <1>3, AtUpdate
<1>5. call[r].found = row[c] /\ NewBudget(r, row[c]) = row[c].budget + call[r].amount
  BY <1>1, <1>4 DEF Updating
<1>6. GoesOn(r) /\ call'[r] = [call[r] EXCEPT !.at = "sync"]
  BY <1>1, Goes DEF CommitUpdate, Steps
<1>7. /\ call'[r].kind = "update" /\ call'[r].campaign = c /\ call'[r].edit = call[r].edit
      /\ call'[r].cached = call[r].cached /\ call'[r].at = "sync" /\ call'[r].found = row[c]
  BY <1>1, <1>2, <1>3, <1>5, <1>6 DEF CallRecords
<1>8. Takes(r) /\ WriteBalance(r)
  BY <1>1 DEF Takes, CommitUpdate
<1>9. \A d \in Campaigns :
        /\ d # c => Paid(d)' = Paid(d)
        /\ d = c => Paid(d)' = Paid(d) + call[r].amount
  BY <1>1, <1>2, <1>3, <1>8, PaidWritten
<1>10. \E st : row' = [row EXCEPT ![c] = [row[c] EXCEPT !.budget = row[c].budget + call[r].amount,
                                                        !.status = st]]
  <2> DEFINE found == call[r].found
             b == IF NewBudget(r, found) = found.budget THEN row[c].budget ELSE NewBudget(r, found)
             st == IF NewStatus(r, found) = found.status THEN row[c].status ELSE NewStatus(r, found)
  <2>1. row \in [Campaigns -> Rows \union {NoRow}]
    BY <1>2 DEF TypeOK
  <2>2. row' = [row EXCEPT ![c] = [row[c] EXCEPT !.budget = b, !.status = st]]
    BY <1>3, <2>1 DEF CommitUpdate
  <2>3. b = row[c].budget + call[r].amount
    BY <1>5
  <2> HIDE DEF b, st
  <2> QED
    BY <2>2, <2>3
<1>11. /\ row'[c].budget = row[c].budget + call[r].amount
       /\ row'[c].deleted = row[c].deleted
       /\ \A d \in Campaigns : d # c => row'[d] = row[d]
  <2>1. PICK st : row' = [row EXCEPT ![c] = [row[c] EXCEPT !.budget = row[c].budget + call[r].amount,
                                                           !.status = st]]
    BY <1>10
  <2>2. /\ row'[c] = [row[c] EXCEPT !.budget = row[c].budget + call[r].amount, !.status = st]
        /\ \A d \in Campaigns : d # c => row'[d] = row[d]
    BY <1>2, <2>1 DEF TypeOK
  <2> QED
    BY <1>4, <2>2 DEF Rows
<1>12. Elsewhere(r)
  BY <1>3, <1>9, <1>11 DEF Elsewhere, CommitUpdate
<1>13. NewBudget(r, call[r].found)' = NewBudget(r, row[c])
  BY <1>7 DEF NewBudget
<1>14. Updating(r, c)'
  BY <1>1, <1>4, <1>5, <1>7, <1>9, <1>11, <1>13 DEF Updating, Counted, CommitUpdate
<1>15. Midway(r)'
  BY <1>7, <1>14 DEF Midway
<1>16. Editing(r)'
  BY <1>7 DEF Editing, Working
<1> QED
  BY <1>1, <1>3, <1>6, <1>12, <1>15, <1>16, EditStep

LEMMA SyncConserves ==
    ASSUME Inv, FiniteUnits, Calm, Conserves, NEW r \in Calls, SyncDoc(r)
    PROVE  Conserves'
<1>1. Editing(r) /\ call[r].at = "sync" /\ call[r].kind = "update"
  BY DEF SyncDoc, At, Editing, Working
<1>2. TypeOK
  BY <1>1, AtWork
<1>3. PICK c \in Campaigns : c = call[r].campaign
  BY <1>1, AtWork
<1>4. Updating(r, c) /\ row[c] # NoRow
  BY <1>1, <1>3, AtUpdate
<1>5. doc[c] # NoDoc /\ ~May("fault")
  BY <1>4 DEF Updating, Counted, Calm, May
<1> DEFINE b == NewBudget(r, call[r].found)
           st == NewStatus(r, call[r].found)
<1>6. doc' = [doc EXCEPT ![c] = [doc[c] EXCEPT !.budget = b, !.status = st]] /\ Goto(r, "done")
  BY <1>3, <1>5 DEF SyncDoc
<1>7. b = row[c].budget
  BY <1>1, <1>4 DEF Updating
<1> HIDE DEF b, st
<1>8. /\ doc'[c] = [doc[c] EXCEPT !.budget = b, !.status = st]
      /\ \A d \in Campaigns : d # c => doc'[d] = doc[d]
  BY <1>2, <1>6 DEF TypeOK
<1>9. doc[c] \in Docs
  BY <1>2, <1>5, Kinds
<1>10. /\ doc'[c].budget = row[c].budget /\ doc'[c].spent = doc[c].spent
       /\ doc'[c] # NoDoc
  BY <1>7, <1>8, <1>9 DEF Docs, NoDoc
<1>11. \A d \in Campaigns : Paid(d)' = Paid(d)
  BY PaidStays DEF SyncDoc
<1>12. Elsewhere(r)
  BY <1>3, <1>8, <1>11 DEF Elsewhere, SyncDoc
<1>13. Kept(c)'
  BY <1>4, <1>10, <1>11 DEF Updating, Counted, Kept, Worth, SyncDoc
<1> QED
  BY <1>1, <1>3, <1>6, <1>12, <1>13, EndConserves

LEMMA DropConserves ==
    ASSUME Inv, FiniteUnits, Conserves, NEW r \in Calls, DropDoc(r)
    PROVE  Conserves'
<1>1. Editing(r) /\ call[r].at = "drop" /\ call[r].kind = "delete"
  BY DEF DropDoc, At, Editing, Working
<1>2. TypeOK /\ call[r] \in CallRecords
  BY <1>1, AtWork
<1>3. PICK c \in Campaigns : c = call[r].campaign
  BY <1>1, AtWork
<1>4. Deleting(r, c)
  BY <1>1, <1>3, AtDelete
<1>5. GoesOn(r) /\ call'[r] = [call[r] EXCEPT !.at = "mark"]
  BY <1>1, Goes DEF DropDoc, Steps
<1>6. /\ call'[r].kind = "delete" /\ call'[r].campaign = c /\ call'[r].at = "mark"
      /\ call'[r].cached = call[r].cached
  BY <1>1, <1>2, <1>3, <1>5 DEF CallRecords
<1>7. doc'[c] = NoDoc /\ \A d \in Campaigns : d # c => doc'[d] = doc[d]
  BY <1>2, <1>3 DEF DropDoc, TypeOK
<1>8. \A d \in Campaigns : Paid(d)' = Paid(d)
  BY PaidStays DEF DropDoc
<1>9. Elsewhere(r)
  BY <1>3, <1>7, <1>8 DEF Elsewhere, DropDoc
<1>10. Deleting(r, c)'
  BY <1>1, <1>4, <1>6, <1>7, <1>8 DEF Deleting, Counted, DropDoc
<1>11. Midway(r)'
  BY <1>6, <1>10 DEF Midway
<1>12. Editing(r)'
  BY <1>6 DEF Editing, Working
<1> QED
  BY <1>1, <1>3, <1>5, <1>9, <1>11, <1>12, EditStep

LEMMA MarkConserves ==
    ASSUME Inv, FiniteUnits, Conserves, NEW r \in Calls, MarkDeleted(r)
    PROVE  Conserves'
<1>1. Editing(r) /\ call[r].at = "mark" /\ call[r].kind = "delete"
  BY DEF MarkDeleted, At, Editing, Working
<1>2. TypeOK /\ call[r] \in CallRecords
  BY <1>1, AtWork
<1>3. PICK c \in Campaigns : c = call[r].campaign
  BY <1>1, AtWork
<1>4. /\ Deleting(r, c) /\ row[c] \in Rows /\ row[c] # NoRow
      /\ row[c].budget \in Nat /\ billed[c] \in Nat
  BY <1>1, <1>3, AtDelete
<1>5. Refund(r) = IF billed[c] < row[c].budget THEN row[c].budget - billed[c] ELSE 0
  BY <1>4 DEF Deleting, Refund
<1>6. Refund(r) \in Nat
  BY <1>4, <1>5
<1> DEFINE n == [call[r] EXCEPT !.amount = Refund(r), !.at = IF Refund(r) > 0 THEN "lock" ELSE "done"]
<1>7. n \in CallRecords
  BY <1>2, <1>6 DEF CallRecords, Steps
<1>8. call' = [call EXCEPT ![r] = n]
  BY DEF MarkDeleted
<1>9. call'[r] = n /\ \A s \in Calls : s # r => call'[s] = call[s]
  BY <1>2, <1>7, <1>8, Moved
<1>10. /\ call'[r].kind = "delete" /\ call'[r].campaign = c /\ call'[r].cached = call[r].cached
       /\ call'[r].amount = Refund(r)
       /\ call'[r].at = IF Refund(r) > 0 THEN "lock" ELSE "done"
  BY <1>1, <1>2, <1>3, <1>9 DEF CallRecords
<1> HIDE DEF n
<1>11. GoesOn(r)
  BY <1>1, <1>3, <1>9, <1>10 DEF GoesOn
<1>12. row'[c] = [row[c] EXCEPT !.deleted = TRUE] /\ \A d \in Campaigns : d # c => row'[d] = row[d]
  BY <1>2, <1>3 DEF MarkDeleted, TypeOK
<1>13. row'[c].deleted /\ row'[c].budget = row[c].budget /\ row'[c] # NoRow
  BY <1>4, <1>12 DEF Rows, NoRow
<1>14. \A d \in Campaigns : Paid(d)' = Paid(d)
  BY PaidStays DEF MarkDeleted
<1>15. Elsewhere(r)
  BY <1>3, <1>12, <1>14 DEF Elsewhere, MarkDeleted
<1>16. doc'[c] = NoDoc /\ Paid(c)' = row[c].budget /\ billed'[c] = billed[c]
  BY <1>1, <1>4, <1>14 DEF Deleting, MarkDeleted
<1>17. CASE billed[c] < row[c].budget
  <2>1. call'[r].at = "lock" /\ call'[r].amount = row[c].budget - billed[c]
    BY <1>4, <1>5, <1>10, <1>17
  <2>2. Deleting(r, c)'
    BY <1>4, <1>10, <1>13, <1>16, <1>17, <2>1 DEF Deleting
  <2>3. Midway(r)'
    BY <1>10, <2>2 DEF Midway
  <2>4. Editing(r)'
    BY <1>10, <2>1 DEF Editing, Working
  <2> QED
    BY <1>1, <1>3, <1>11, <1>15, <2>3, <2>4, EditStep
<1>18. CASE ~(billed[c] < row[c].budget)
  <2>1. call'[r].at = "done"
    BY <1>5, <1>10, <1>18
  <2>2. Kept(c)'
    BY <1>13, <1>16, <1>18 DEF Kept, Worth
  <2>3. ~Editing(r)'
    BY <2>1 DEF Editing, Working
  <2> QED
    BY <1>1, <1>3, <1>11, <1>15, <2>2, <2>3, EditStep
<1> QED
  BY <1>17, <1>18

LEMMA CommitDeleteConserves ==
    ASSUME Inv, FiniteUnits, Conserves, NEW r \in Calls, CommitDelete(r)
    PROVE  Conserves'
<1>1. Editing(r) /\ call[r].at = "commit" /\ call[r].kind = "delete"
  BY DEF CommitDelete, At, Editing, Working
<1>2. TypeOK /\ BalanceFollowsHistory /\ call[r] \in CallRecords /\ Holds(r)
  BY <1>1, AtWork
<1>3. PICK c \in Campaigns : c = call[r].campaign
  BY <1>1, AtWork
<1>4. Deleting(r, c) /\ row[c] # NoRow /\ row[c].budget \in Nat /\ billed[c] \in Nat
  BY <1>1, <1>3, AtDelete
<1>5. ~Takes(r) /\ WriteBalance(r)
  BY <1>1 DEF Takes, CommitDelete
<1>6. \A d \in Campaigns :
        /\ d # c => Paid(d)' = Paid(d)
        /\ d = c => Paid(d)' = Paid(d) + (0 - call[r].amount)
  BY <1>1, <1>2, <1>3, <1>5, PaidWritten
<1>7. Elsewhere(r)
  BY <1>3, <1>6 DEF Elsewhere, CommitDelete
<1>8. Paid(c)' = billed[c]
  BY <1>1, <1>4, <1>6 DEF Deleting
<1>9. Kept(c)'
  BY <1>1, <1>4, <1>8 DEF Deleting, Kept, Worth, CommitDelete
<1> QED
  BY <1>1, <1>3, <1>7, <1>9, EndConserves DEF CommitDelete

(***************************************************************************)
(* Charges, requests that start, and clicks.                               *)
(***************************************************************************)
LEMMA ChargeConserves ==
    ASSUME Inv, Conserves, NEW r \in Calls, ~Editing(r), ~Editing(r)',
           \A s \in Calls : s # r => call'[s] = call[s],
           UNCHANGED <<row, doc, billed>>, balance' \in Nat, balance' >= balance,
           \A c \in Campaigns : Paid(c)' = Paid(c)
    PROVE  Conserves'
<1>1. ASSUME NEW s \in Calls, Editing(s)' PROVE Editing(s) /\ call'[s] = call[s] /\ s # r
  BY <1>1 DEF Editing, Working
<1>2. ASSUME NEW s \in Calls, Editing(s) PROVE Editing(s)' /\ call'[s] = call[s]
  BY <1>2 DEF Editing, Working
<1>3. Alone'
  BY <1>1 DEF Alone, Conserves
<1>4. ASSUME NEW c \in Campaigns, Untouched(c)' PROVE Kept(c)'
  BY <1>2, <1>4, KeptStays DEF Untouched, Conserves
<1>5. ASSUME NEW s \in Calls, Editing(s)' PROVE Midway(s)'
  <2>1. Editing(s) /\ call'[s] = call[s] /\ Midway(s)
    BY <1>1, <1>5 DEF Conserves
  <2>2. /\ TypeOK /\ call[s] \in CallRecords /\ call[s].campaign \in Campaigns
        /\ call[s].kind \in {"create", "update", "delete"}
    BY <2>1, AtWork
  <2>3. PICK c \in Campaigns : c = call[s].campaign
    BY <2>2
  <2>4. CASE call[s].kind = "create"
    <3>1. Creating(s, c)
      BY <2>1, <2>3, <2>4 DEF Midway
    <3>2. call[s].amount \in Nat /\ balance \in Nat
      BY <2>2 DEF CallRecords, TypeOK
    <3>3. Creating(s, c)'
      BY <2>1, <3>1, <3>2 DEF Creating, Blank, Counted
    <3> QED
      BY <2>1, <2>3, <2>4, <3>3 DEF Midway
  <2>5. CASE call[s].kind = "update"
    <3>1. Updating(s, c)
      BY <2>1, <2>3, <2>5 DEF Midway
    <3>2. Updating(s, c)'
      BY <2>1, <3>1 DEF Updating, Counted, NewBudget
    <3> QED
      BY <2>1, <2>3, <2>5, <3>2 DEF Midway
  <2>6. CASE call[s].kind = "delete"
    <3>1. Deleting(s, c)
      BY <2>1, <2>3, <2>6 DEF Midway
    <3>2. Deleting(s, c)'
      BY <2>1, <3>1 DEF Deleting, Counted
    <3> QED
      BY <2>1, <2>3, <2>6, <3>2 DEF Midway
  <2> QED
    BY <2>2, <2>4, <2>5, <2>6
<1> QED
  BY <1>3, <1>4, <1>5 DEF Conserves

\* An edit starts when no other one is under way.
LEMMA StartConserves ==
    ASSUME Inv, FiniteUnits, Calm, Conserves, NEW r \in Calls, NEW kind \in {"create", "update", "delete"},
           NEW c \in Campaigns, NEW edit, NEW amount, NEW step,
           Start(r, kind, c, edit, amount, step),
           UNCHANGED <<balance, history, lock, row, doc, billed, allowed>>,
           Kept(c) => Midway(r)'
    PROVE  Conserves'
<1>1. \A s \in Calls : ~Editing(s)
  BY DEF Start, Calm, May
<1>2. Kept(c)
  BY <1>1 DEF Conserves, Untouched
<1>3. \A s \in Calls : s # r => call'[s] = call[s]
  BY DEF Start, Inv, Types, TypeOK
<1>4. \A s \in Calls : Editing(s)' => s = r
  BY <1>1, <1>3 DEF Editing, Working
<1>5. \A d \in Campaigns : Kept(d)'
  BY <1>1, QuietStep DEF Conserves, Untouched
<1> QED
  BY <1>2, <1>4, <1>5 DEF Conserves, Alone

LEMMA StartsConserve ==
    ASSUME Inv, FiniteUnits, Calm, Conserves, NEW r \in Calls, NEW c \in Campaigns,
           \/ \E b \in Budgets : StartCreate(r, c, b)
           \/ \E e \in Edits : StartUpdate(r, c, e)
           \/ StartDelete(r, c)
    PROVE  Conserves'
<1>1. TypeOK /\ call \in [Calls -> CallRecords \union {NewCall}] /\ c # None
  BY CreditAssumption DEF Inv, Types, TypeOK
<1>2. Paid(c)' = Paid(c)
  BY PaidStays DEF StartCreate, StartUpdate, StartDelete
<1>3. CASE \E b \in Budgets : StartCreate(r, c, b)
  <2>1. PICK b \in Budgets : StartCreate(r, c, b)
    BY <1>3
  <2>2. /\ call'[r].kind = "create" /\ call'[r].campaign = c /\ call'[r].at = "insert"
        /\ call'[r].amount = b
    BY <1>1, <2>1 DEF StartCreate, Start
  <2>3. Kept(c) => Creating(r, c)'
    BY <1>2, <2>1, <2>2 DEF Kept, Creating, Blank, StartCreate
  <2>4. Kept(c) => Midway(r)'
    BY <2>2, <2>3 DEF Midway
  <2> QED
    BY <2>1, <2>4, StartConserves DEF StartCreate
<1>4. ASSUME doc[c] # NoDoc
      PROVE  row[c] # NoRow /\ row[c].budget \in Nat /\ doc[c].budget \in Nat
  BY <1>1, <1>4, Kinds DEF Inv, Types, Documented, Rows, NoRow, Docs
<1>5. CASE \E e \in Edits : StartUpdate(r, c, e)
  <2>1. PICK e \in Edits : StartUpdate(r, c, e)
    BY <1>5
  <2>2. /\ call'[r].kind = "update" /\ call'[r].campaign = c /\ call'[r].at = "pause"
        /\ call'[r].cached = doc[c]
    BY <1>1, <2>1 DEF StartUpdate, Start
  <2>3. Kept(c) => Updating(r, c)'
    BY <1>2, <1>4, <2>1, <2>2 DEF Kept, Updating, Counted, Worth, StartUpdate
  <2>4. Kept(c) => Midway(r)'
    BY <2>2, <2>3 DEF Midway
  <2> QED
    BY <2>1, <2>4, StartConserves DEF StartUpdate
<1>6. CASE StartDelete(r, c)
  <2>1. /\ call'[r].kind = "delete" /\ call'[r].campaign = c /\ call'[r].at = "pause"
        /\ call'[r].cached = doc[c]
    BY <1>1, <1>6 DEF StartDelete, Start
  <2>2. Kept(c) => Deleting(r, c)'
    BY <1>2, <1>4, <1>6, <2>1 DEF Kept, Deleting, Counted, Worth, StartDelete
  <2>3. Kept(c) => Midway(r)'
    BY <2>1, <2>2 DEF Midway
  <2> QED
    BY <1>6, <2>3, StartConserves DEF StartDelete
<1> QED
  BY <1>3, <1>5, <1>6

LEMMA BillConserves ==
    ASSUME Inv, FiniteUnits, Calm, Conserves, NEW c \in Campaigns, Bill(c)
    PROVE  Conserves'
<1>1. TypeOK /\ doc[c] \in Docs /\ doc[c] # NoDoc /\ row[c] # NoRow
  BY Kinds DEF Inv, Types, Documented, Bill, Rows, NoRow
<1>2. \A d \in Campaigns : Paid(d)' = Paid(d)
  BY PaidStays DEF Bill
<1>3. doc'[c] = [doc[c] EXCEPT !.spent = @ + Cost] /\ billed'[c] = billed[c] + Cost
  BY <1>1 DEF Bill, TypeOK
<1>4. doc'[c].spent = doc[c].spent + Cost /\ doc'[c].budget = doc[c].budget /\ doc'[c] # NoDoc
  BY <1>1, <1>3 DEF Docs, NoDoc
<1>5. \A d \in Campaigns : d # c => doc'[d] = doc[d] /\ billed'[d] = billed[d]
  BY <1>1 DEF Bill, TypeOK
<1>6. row' = row /\ call' = call /\ balance' = balance
  BY DEF Bill
<1>7. Counted(c) => Counted(c)'
  BY <1>3, <1>4, <1>6 DEF Counted
<1>8. ASSUME NEW d \in Campaigns, Kept(d) PROVE Kept(d)'
  <2>1. CASE d = c
    BY <1>1, <1>2, <1>4, <1>6, <1>7, <1>8, <2>1 DEF Kept, Worth, Counted
  <2>2. CASE d # c
    BY <1>2, <1>5, <1>6, <1>8, <2>2, KeptStays
  <2> QED
    BY <2>1, <2>2
<1>9. \A r \in Calls : Editing(r)' <=> Editing(r)
  BY <1>6 DEF Editing, Working
<1>10. ASSUME NEW r \in Calls, Editing(r) PROVE Midway(r)'
  <2>1. Midway(r)
    BY <1>10 DEF Conserves
  <2>2. PICK d \in Campaigns : d = call[r].campaign
    BY <1>10, AtWork
  <2>3. CASE call[r].kind = "create"
    <3>1. Creating(r, d)
      BY <2>1, <2>2, <2>3 DEF Midway
    <3>2. Creating(r, d)'
      <4>1. CASE d = c
        BY <1>1, <1>2, <1>4, <1>6, <1>7, <3>1, <4>1 DEF Creating, Blank
      <4>2. CASE d # c
        BY <1>2, <1>5, <1>6, <3>1, <4>2 DEF Creating, Blank, Counted
      <4> QED
        BY <4>1, <4>2
    <3> QED
      BY <1>6, <2>2, <2>3, <3>2 DEF Midway
  <2>4. CASE call[r].kind = "update"
    <3>1. Updating(r, d)
      BY <2>1, <2>2, <2>4 DEF Midway
    <3>2. Updating(r, d)'
      <4>1. CASE d = c
        BY <1>2, <1>4, <1>6, <1>7, <3>1, <4>1 DEF Updating, NewBudget
      <4>2. CASE d # c
        BY <1>2, <1>5, <1>6, <3>1, <4>2 DEF Updating, Counted, NewBudget
      <4> QED
        BY <4>1, <4>2
    <3> QED
      BY <1>6, <2>2, <2>4, <3>2 DEF Midway
  <2>5. CASE call[r].kind = "delete"
    <3>1. Deleting(r, d)
      BY <2>1, <2>2, <2>5 DEF Midway
    <3>2. d # c
      BY <1>10, <2>2, <2>5 DEF Bill, Editing, Calm, May
    <3>3. Deleting(r, d)'
      BY <1>2, <1>5, <1>6, <3>1, <3>2 DEF Deleting, Counted
    <3> QED
      BY <1>6, <2>2, <2>5, <3>3 DEF Midway
  <2> QED
    BY <1>10, <2>3, <2>4, <2>5, AtWork
<1>11. Alone'
  BY <1>9 DEF Alone, Conserves
<1>12. \A d \in Campaigns : Untouched(d)' => Kept(d)'
  BY <1>6, <1>8, <1>9 DEF Untouched, Conserves
<1> QED
  BY <1>9, <1>10, <1>11, <1>12 DEF Conserves

-----------------------------------------------------------------------------
\* What every step of a request keeps, whatever overlaps or fails.
LEMMA HandleKeeps ==
    ASSUME Inv, FiniteUnits, ChargesApart, NEW r \in Calls, Handle(r) \/ Crash(r)
    PROVE  /\ call[r] \in CallRecords /\ call[r] # NewCall
           /\ GoesOn(r) /\ FiniteUnits' /\ ChargesApart' /\ allowed' = allowed
<1>1. call[r].at # "new" /\ allowed' = allowed
  BY DEF Handle, Crash, LockUser, LackBalance, CommitCharge, InsertRow, SaveDoc, FailCreate, CommitCreate,
         Pause, Refuse, RefuseTags, Check, FindRow, CommitUpdate, FailUpdate, SyncDoc, Restore, DropDoc,
         MarkDeleted, CommitDelete, RollBack, At, Working
<1>2. TypeOK /\ BalanceFollowsHistory /\ call[r] \in CallRecords /\ call[r] # NewCall /\ Holds(r)
  BY <1>1, Kinds DEF Inv, Types, CallsFit, Fits
<1>3. GoesOn(r)
  <2>1. CASE \E step : Goto(r, step)
    BY <1>2, <2>1 DEF Goto, GoesOn, TypeOK, CallRecords
  <2>2. CASE LockUser(r)
    BY <1>2, <2>2 DEF LockUser, Locked, GoesOn, TypeOK, CallRecords
  <2>3. CASE Check(r)
    BY <1>2, <2>3 DEF Check, Goto, GoesOn, TypeOK, CallRecords
  <2>4. CASE FindRow(r)
    BY <1>2, <2>4 DEF FindRow, Goto, GoesOn, TypeOK, CallRecords
  <2>5. CASE MarkDeleted(r)
    BY <1>2, <2>5 DEF MarkDeleted, GoesOn, TypeOK, CallRecords
  <2> QED
    BY <2>1, <2>2, <2>3, <2>4, <2>5
       DEF Handle, Crash, LackBalance, CommitCharge, InsertRow, SaveDoc, FailCreate, CommitCreate,
           Pause, Refuse, RefuseTags, CommitUpdate, FailUpdate, SyncDoc, Restore, DropDoc,
           CommitDelete, RollBack
<1>4. ChargesApart'
  BY <1>2, <1>3 DEF ChargesApart, GoesOn
<1>5. FiniteUnits'
  <2>1. CASE history' = history
    BY <2>1, PaidStays
  <2>2. CASE CommitCharge(r) \/ CommitCreate(r) \/ CommitUpdate(r) \/ CommitDelete(r)
    <3>1. WriteBalance(r) /\ call[r].at \in {"queue", "commit"}
      BY <2>2 DEF CommitCharge, CommitCreate, CommitUpdate, CommitDelete, At
    <3> QED
      BY <1>2, <3>1, PaidWritten
  <2> QED
    BY <2>1, <2>2
       DEF Handle, Crash, LockUser, LackBalance, InsertRow, SaveDoc, FailCreate,
           Pause, Refuse, RefuseTags, Check, FindRow, FailUpdate, SyncDoc, Restore, DropDoc,
           MarkDeleted, RollBack
<1> QED
  BY <1>1, <1>2, <1>3, <1>4, <1>5

\* The steps of a charge.
LEMMA ChargingConserves ==
    ASSUME Inv, FiniteUnits, ChargesApart, Calm, Conserves, NEW r \in Calls,
           Handle(r), call[r].kind = "charge"
    PROVE  Conserves'
<1>1. /\ call[r] \in CallRecords /\ call[r] # NewCall /\ GoesOn(r)
  BY HandleKeeps
<1>2. TypeOK /\ BalanceFollowsHistory /\ Knows(r) /\ Holds(r) /\ balance \in Nat /\ balance' \in Nat
  BY <1>1, HandleStep DEF Inv, Types, CallsFit, Fits, TypeOK
<1>3. LockUser(r) \/ CommitCharge(r)
  BY <1>2 DEF Handle, LackBalance, InsertRow, SaveDoc, FailCreate, CommitCreate,
         Pause, Refuse, RefuseTags, Check, FindRow, CommitUpdate, FailUpdate, SyncDoc, Restore, DropDoc,
         MarkDeleted, CommitDelete, At, Takes, Knows
<1>4. ~Editing(r) /\ ~Editing(r)' /\ UNCHANGED <<row, doc, billed>>
  BY <1>1, <1>3 DEF GoesOn, Editing, LockUser, CommitCharge
<1>5. balance' >= balance /\ \A c \in Campaigns : Paid(c)' = Paid(c)
  <2>1. CASE LockUser(r)
    BY <1>2, <2>1, PaidStays DEF LockUser
  <2>2. CASE CommitCharge(r)
    <3>1. WriteBalance(r) /\ call[r].at \in {"queue", "commit"}
      BY <2>2 DEF CommitCharge, At
    <3>2. ~Takes(r)
      BY DEF Takes
    <3>3. \A c \in Campaigns : call[r].campaign # c
      BY <1>1, CreditAssumption DEF ChargesApart
    <3> QED
      BY <1>1, <1>2, <3>1, <3>2, <3>3, PaidWritten
  <2> QED
    BY <1>3, <2>1, <2>2
<1> QED
  BY <1>1, <1>2, <1>4, <1>5, ChargeConserves DEF GoesOn

LEMMA HandleConserves ==
    ASSUME Inv, FiniteUnits, ChargesApart, Calm, Conserves, NEW r \in Calls, Handle(r) \/ Crash(r)
    PROVE  Conserves'
<1>1. ~May("fault") /\ ~May("crash")
  BY DEF Calm, May
<1>2. Handle(r) /\ ~FailCreate(r) /\ ~FailUpdate(r)
  BY <1>1 DEF Crash, FailCreate, FailUpdate
<1>3. CASE call[r].kind = "charge"
  BY <1>2, <1>3, ChargingConserves
<1>4. CASE call[r].kind # "charge"
  <2>1. LockUser(r) \/ LackBalance(r) => Editing(r)
    BY <1>4 DEF LockUser, LackBalance, Editing, Working
  <2>2. ~CommitCharge(r)
    BY <1>4 DEF CommitCharge, At
  <2> QED
    BY <1>2, <2>1, <2>2, LockConserves, LackConserves, InsertConserves, SaveConserves,
       CommitCreateConserves, PauseConserves, RefuseConserves, RefuseTagsConserves, CheckConserves,
       FindConserves, CommitUpdateConserves, SyncConserves, RestoreConserves, DropConserves,
       MarkConserves, CommitDeleteConserves
       DEF Handle
<1> QED
  BY <1>3, <1>4

LEMMA InitCredit == Init => CreditInv
<1> SUFFICES ASSUME Init PROVE CreditInv
  OBVIOUS
<1>1. \A c \in Campaigns, type \in {"CHARGE", "WITHDRAW"} : Units(c, type) = {}
  BY DEF Init, Units, Moves
<1>2. FiniteUnits /\ \A c \in Campaigns : Paid(c) = 0
  BY <1>1, FS_EmptySet DEF FiniteUnits, Paid
<1>3. \A r \in Calls : call[r] = NewCall /\ ~Editing(r)
  BY DEF Init, NewCall, Editing, Working
<1>4. ASSUME NEW c \in Campaigns PROVE Kept(c)
  <2>1. CASE c \in Old
    <3>1. /\ row[c] = [budget |-> 0, status |-> "ACTIVE", deleted |-> FALSE]
          /\ doc[c] = [budget |-> 0, status |-> "ACTIVE", spent |-> 0] /\ billed[c] = 0
      BY <2>1 DEF Init
    <3>2. row[c] # NoRow /\ doc[c] # NoDoc
      BY <3>1 DEF NoRow, NoDoc
    <3> QED
      BY <1>2, <3>1, <3>2 DEF Kept, Worth, Counted
  <2>2. CASE c \notin Old
    BY <1>2, <2>2 DEF Init, Kept, Blank
  <2> QED
    BY <2>1, <2>2
<1> QED
  BY <1>2, <1>3, <1>4, InitInv DEF CreditInv, Conserves, Alone, ChargesApart

LEMMA NextCredit == CreditInv /\ [Next]_vars => CreditInv'
<1> SUFFICES ASSUME CreditInv, [Next]_vars PROVE CreditInv'
  OBVIOUS
<1> USE DEF CreditInv
<1>1. Inv'
  BY NextInv
<1>2. CASE UNCHANGED vars
  <2>1. FiniteUnits' /\ \A c \in Campaigns : Paid(c)' = Paid(c) /\ (Kept(c) => Kept(c)')
    BY <1>2, PaidStays, KeptStays DEF vars
  <2>2. ChargesApart' /\ (Calm' => Calm)
    BY <1>2 DEF vars, ChargesApart, Calm
  <2>3. ASSUME Calm PROVE Conserves'
    <3>1. Alone' /\ \A c \in Campaigns : Untouched(c)' => Kept(c)'
      BY <1>2, <2>1, <2>3 DEF vars, Conserves, Alone, Editing, Working, Untouched
    <3>2. ASSUME NEW r \in Calls, Editing(r)' PROVE Midway(r)'
      <4>1. Midway(r) /\ call[r].campaign \in Campaigns
        BY <1>2, <2>3, <3>2, AtWork DEF vars, Conserves, Editing, Working
      <4> QED
        BY <1>2, <2>1, <4>1 DEF vars, Midway, Creating, Updating, Deleting, Blank, Counted, NewBudget
    <3> QED
      BY <3>1, <3>2 DEF Conserves
  <2> QED
    BY <1>1, <2>1, <2>2, <2>3
<1>3. ASSUME NEW r \in Calls, Handle(r) \/ Crash(r) PROVE CreditInv'
  <2>1. FiniteUnits' /\ ChargesApart' /\ (Calm' => Calm)
    BY <1>3, HandleKeeps DEF Calm
  <2> QED
    BY <1>1, <1>3, <2>1, HandleConserves
<1>4. ASSUME NEW r \in Calls, NEW d \in Deposits, StartCharge(r, d) PROVE CreditInv'
  <2>1. /\ call'[r].kind = "charge" /\ call'[r].campaign = None
        /\ \A s \in Calls : s # r => call'[s] = call[s]
    BY <1>4 DEF StartCharge, Start, Inv, Types, TypeOK
  <2>2. ChargesApart'
    BY <2>1 DEF ChargesApart
  <2>3. FiniteUnits' /\ \A c \in Campaigns : Paid(c)' = Paid(c)
    BY <1>4, PaidStays DEF StartCharge
  <2>4. ~Editing(r) /\ ~Editing(r)'
    BY <1>4, <2>1 DEF StartCharge, Start, NewCall, Editing, Working
  <2>5. balance' \in Nat /\ balance' >= balance
    BY <1>4 DEF StartCharge, Inv, Types, TypeOK
  <2>6. Calm' => Conserves'
    BY <1>4, <2>1, <2>3, <2>4, <2>5, ChargeConserves DEF StartCharge, Calm
  <2> QED
    BY <1>1, <2>2, <2>3, <2>6
<1>5. ASSUME NEW r \in Calls, NEW c \in Campaigns,
             \/ \E b \in Budgets : StartCreate(r, c, b)
             \/ \E e \in Edits : StartUpdate(r, c, e)
             \/ StartDelete(r, c)
      PROVE CreditInv'
  <2>1. /\ call'[r].kind # "charge"
        /\ \A s \in Calls : s # r => call'[s] = call[s]
    BY <1>5 DEF StartCreate, StartUpdate, StartDelete, Start, Inv, Types, TypeOK
  <2>2. ChargesApart'
    BY <2>1 DEF ChargesApart
  <2>3. FiniteUnits' /\ (Calm' => Calm)
    BY <1>5, PaidStays DEF StartCreate, StartUpdate, StartDelete, Calm
  <2> QED
    BY <1>1, <1>5, <2>2, <2>3, StartsConserve
<1>6. ASSUME NEW c \in Campaigns, Bill(c) PROVE CreditInv'
  <2>1. FiniteUnits' /\ ChargesApart' /\ (Calm' => Calm)
    BY <1>6, PaidStays DEF Bill, ChargesApart, Calm
  <2> QED
    BY <1>1, <1>6, <2>1, BillConserves
<1> QED
  BY <1>2, <1>3, <1>4, <1>5, <1>6 DEF Next

(***************************************************************************)
(* Credit is neither lost nor made while edits do not overlap and nothing  *)
(* fails: for any number of campaigns, requests and charges and any        *)
(* amounts, what the history has taken for a campaign that no request is   *)
(* at work on is its budget, or once it is deleted what its clicks took of *)
(* it.  Creations, raises, clicks, deletes and what is refused half way,   *)
(* in any order.                                                           *)
(***************************************************************************)
THEOREM CreditIsKept == Spec => []CreditConserved
<1>1. CreditInv => CreditConserved
  <2> SUFFICES ASSUME CreditInv, Calm, NEW c \in Campaigns, Settled(c) PROVE Paid(c) = Worth(c)
    BY DEF CreditConserved, PaidIsWorth, Calm
  <2>1. Kept(c)
    BY DEF CreditInv, Conserves, Settled, Untouched, Editing
  <2> QED
    BY <2>1 DEF Kept, Blank, Worth
<1> QED
  BY <1>1, InitCredit, NextCredit, PTL DEF Spec
=============================================================================
