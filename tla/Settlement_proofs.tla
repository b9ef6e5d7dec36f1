--------------------------- MODULE Settlement_proofs ---------------------------
(***************************************************************************)
(* The three invariants of Settlement, each under the hazards it allows.   *)
(*                                                                         *)
(* First what the steps do, one lemma for each kind of step: a step of a   *)
(* job goes on Within its phase or Onward to the next one, a document or a *)
(* row gets a status or sums.  Then the parts of the invariant, one lemma  *)
(* for each that says every step keeps it:                                 *)
(*   Lawful, Exclusive, Batched   of every behaviour;                      *)
(*   Covered      with no race and no restart, for SpentCoversLogs;        *)
(*   ActiveOnly   without jobs that go by a snapshot, for StoppedIsNotSold;*)
(*   Releasing    with nothing that loses a lock, for LocksAreReleased.    *)
(***************************************************************************)
EXTENDS Settlement, FiniteSetTheorems, TLAPS

Batches == {"lock", "replace", "unlock"}
Resets  == {"resetLock", "resetDocs", "resetUnlock"}

\* What the jobs are, written out.
LEMMA KindsAre == Kinds = {"hourly", "nightly", "manual", "migrate"}
BY DEF Kinds, Plan

LEMMA Plans ==
    /\ Plan["hourly"] = <<"sum", "sumAll", "lock", "replace", "unlock">>
    /\ Plan["nightly"] = <<"load", "stop", "pause", "sum", "sumAll", "lock", "replace", "unlock",
                   "resetRows", "resetLock", "resetDocs", "resetUnlock", "find", "start">>
    /\ Plan["manual"] = <<"load", "stop", "pause", "find", "start",
                   "resetRows", "resetLock", "resetDocs", "resetUnlock">>
    /\ Plan["migrate"] = <<"sumAll", "lock", "replace", "unlock">>
BY DEF Plan

Before == [lock |-> "sumAll", replace |-> "lock", unlock |-> "replace",
           resetLock |-> "resetRows", resetDocs |-> "resetLock", resetUnlock |-> "resetDocs"]

\* The order of phases, as far as the proofs need it.
LEMMA Order ==
    ASSUME NEW k \in Kinds
    PROVE  /\ Len(Plan[k]) \in Nat \ {0} /\ DOMAIN Plan[k] = 1..Len(Plan[k])
           /\ Plan[k][1] \in {"sum", "load", "sumAll"}
           /\ Plan[k][1] = "sumAll" => k = "migrate"
           /\ Plan[k][Len(Plan[k])] \in {"unlock", "resetUnlock", "start"}
           /\ \A i \in 1..Len(Plan[k]) : i # Len(Plan[k]) =>
                 /\ i + 1 \in 1..Len(Plan[k])
                 /\ Plan[k][i] # Plan[k][i + 1]
                 /\ \A phase \in DOMAIN Before : Plan[k][i + 1] = phase => Plan[k][i] = Before[phase]
                 /\ Plan[k][i + 1] = "sumAll" => Plan[k][i] = "sum"
<1>1. CASE k = "hourly"
  BY <1>1, Plans DEF Before
<1>2. CASE k = "nightly"
  BY <1>2, Plans DEF Before
<1>3. CASE k = "manual"
  BY <1>3, Plans DEF Before
<1>4. CASE k = "migrate"
  BY <1>4, Plans DEF Before
<1> QED
  BY <1>1, <1>2, <1>3, <1>4, KindsAre

-----------------------------------------------------------------------------
(***************************************************************************)
(* What a step does to the record of its job.                              *)
(***************************************************************************)
LEMMA JobType ==
    ASSUME TypeOK, NEW k \in Kinds, Working(k)
    PROVE  /\ job[k] \in JobRecords
           /\ job[k].pc \in DOMAIN Plan[k]
           /\ job[k].held \subseteq Campaigns
           /\ job[k].part \in [Campaigns -> Progress]
           /\ job[k].daily \in [Campaigns -> Nat]
           /\ job[k].total \in [Campaigns -> Nat]
           /\ job[k].snap \in [Campaigns -> Docs \union {NoDoc}]
           /\ Phase(k) \in Phases
BY DEF TypeOK, JobRecords, Idle, Working, Phase, Phases

Moves(k) == \A j \in Kinds \ {k} : job'[j] = job[j]

\* Job k goes on within its phase: c is at progress, held is what it holds.
Within(k, c, progress, held) ==
    /\ Working(k) /\ Working(k)' /\ Moves(k)
    /\ job' \in [Kinds -> JobRecords \union {Idle}]
    /\ job'[k].pc = job[k].pc /\ Phase(k)' = Phase(k)
    /\ job'[k].snap = job[k].snap
    /\ job'[k].total = job[k].total
    /\ job'[k].daily # job[k].daily => k = "migrate" /\ Phase(k) = "replace"
    /\ job'[k].held = held
    /\ job'[k].part[c] = progress
    /\ \A b \in Campaigns \ {c} : job'[k].part[b] = job[k].part[b]

LEMMA DidEffect ==
    ASSUME TypeOK, NEW k \in Kinds, Working(k), NEW c \in Campaigns, NEW progress \in Progress,
           Did(k, c, progress)
    PROVE  Within(k, c, progress, job[k].held)
<1>1. job[k] \in JobRecords
  BY JobType
<1>2. job' = [job EXCEPT ![k] = [job[k] EXCEPT !.part[c] = progress]]
  BY DEF Did
<1> DEFINE s == [job[k] EXCEPT !.part[c] = progress]
<1>3. /\ s \in JobRecords /\ s # Idle
      /\ s.pc = job[k].pc /\ s.snap = job[k].snap /\ s.total = job[k].total /\ s.daily = job[k].daily
      /\ s.held = job[k].held /\ s.part = [job[k].part EXCEPT ![c] = progress]
  BY <1>1 DEF JobRecords, Idle
<1>4. PICK r \in JobRecords : r = s
  BY <1>3
<1>5. job' = [job EXCEPT ![k] = r]
  BY <1>2, <1>4
<1> HIDE DEF s
<1> QED
  BY <1>1, <1>3, <1>4, <1>5, JobType DEF TypeOK, Within, Moves, Working, Phase

LEMMA HeldEffect ==
    ASSUME TypeOK, NEW k \in Kinds, Working(k), NEW c \in Campaigns, NEW held \in SUBSET Campaigns,
           job' = [job EXCEPT ![k] = [job[k] EXCEPT !.part[c] = "done", !.held = held]]
    PROVE  Within(k, c, "done", held)
<1>1. job[k] \in JobRecords /\ "done" \in Progress
  BY JobType DEF Progress
<1> DEFINE s == [job[k] EXCEPT !.part[c] = "done", !.held = held]
<1>3. /\ s \in JobRecords /\ s # Idle
      /\ s.pc = job[k].pc /\ s.snap = job[k].snap /\ s.total = job[k].total /\ s.daily = job[k].daily
      /\ s.held = held /\ s.part = [job[k].part EXCEPT ![c] = "done"]
  BY <1>1 DEF JobRecords, Idle
<1>4. PICK r \in JobRecords : r = s
  BY <1>3
<1>5. job' = [job EXCEPT ![k] = r]
  BY <1>4
<1> HIDE DEF s
<1> QED
  BY <1>1, <1>3, <1>4, <1>5, JobType DEF TypeOK, Within, Moves, Working, Phase

LEMMA HoldEffect ==
    ASSUME TypeOK, NEW k \in Kinds, Working(k), NEW c \in Campaigns
    PROVE  /\ Hold(k, c) => Within(k, c, "done", job[k].held \union {c})
           /\ job' = [job EXCEPT ![k].part[c] = "done", ![k].held = @ \ {c}]
                => Within(k, c, "done", job[k].held \ {c})
<1>1. job[k].held \union {c} \in SUBSET Campaigns /\ job[k].held \ {c} \in SUBSET Campaigns
  BY JobType
<1>2. ASSUME Hold(k, c)
      PROVE  job' = [job EXCEPT ![k] = [job[k] EXCEPT !.part[c] = "done", !.held = job[k].held \union {c}]]
  BY <1>2 DEF Hold, TypeOK
<1>3. ASSUME job' = [job EXCEPT ![k].part[c] = "done", ![k].held = @ \ {c}]
      PROVE  job' = [job EXCEPT ![k] = [job[k] EXCEPT !.part[c] = "done", !.held = job[k].held \ {c}]]
  BY <1>3 DEF TypeOK
<1> QED
  BY <1>1, <1>2, <1>3, HeldEffect

LEMMA SumEffect ==
    ASSUME TypeOK, NEW k \in Kinds, Working(k), Phase(k) = "replace", NEW c \in Campaigns,
           NEW progress \in Progress, NEW sum \in Nat,
           sum # job[k].daily[c] => k = "migrate",
           job' = [job EXCEPT ![k].part[c] = progress, ![k].daily[c] = sum]
    PROVE  Within(k, c, progress, job[k].held)
<1>1. job[k] \in JobRecords
  BY JobType
<1>2. job' = [job EXCEPT ![k] = [job[k] EXCEPT !.part[c] = progress, !.daily[c] = sum]]
  BY DEF TypeOK
<1> DEFINE s == [job[k] EXCEPT !.part[c] = progress, !.daily[c] = sum]
<1>3. /\ s \in JobRecords /\ s # Idle
      /\ s.pc = job[k].pc /\ s.snap = job[k].snap /\ s.total = job[k].total
      /\ s.daily = [job[k].daily EXCEPT ![c] = sum]
      /\ s.held = job[k].held /\ s.part = [job[k].part EXCEPT ![c] = progress]
  BY <1>1 DEF JobRecords, Idle
<1>4. PICK r \in JobRecords : r = s
  BY <1>3
<1>5. job' = [job EXCEPT ![k] = r]
  BY <1>2, <1>4
<1>6. k # "migrate" => s.daily = job[k].daily
  BY <1>3, JobType
<1> HIDE DEF s
<1>7. /\ r # Idle /\ r.pc = job[k].pc /\ r.snap = job[k].snap /\ r.total = job[k].total
      /\ r.held = job[k].held /\ (r.daily # job[k].daily => k = "migrate")
  BY <1>3, <1>4, <1>6
<1>8. r.part[c] = progress /\ \A b \in Campaigns \ {c} : r.part[b] = job[k].part[b]
  BY <1>1, <1>3, <1>4, JobType
<1>9. job'[k] = r /\ Moves(k) /\ job' \in [Kinds -> JobRecords \union {Idle}]
  BY <1>5 DEF TypeOK, Moves
<1> QED
  BY <1>7, <1>8, <1>9 DEF Within, Working, Phase

LEMMA ThrowEffect ==
    ASSUME TypeOK, NEW k \in Kinds, Throw(k)
    PROVE  job' \in [Kinds -> JobRecords \union {Idle}] /\ ~Working(k)' /\ Moves(k)
BY DEF Throw, TypeOK, Working, Moves

\* Job k goes on to its next phase with the record r, or ends.
Onward(k, r) ==
    /\ Working(k) /\ Moves(k)
    /\ job' \in [Kinds -> JobRecords \union {Idle}]
    /\ job[k].pc # Len(Plan[k]) => Working(k)'
    /\ Working(k)' =>
         /\ job[k].pc # Len(Plan[k]) /\ job'[k].pc = job[k].pc + 1
         /\ job'[k].pc \in DOMAIN Plan[k]
         /\ Phase(k)' = Plan[k][job[k].pc + 1]
         /\ job'[k].snap = r.snap /\ job'[k].daily = r.daily /\ job'[k].total = r.total
         /\ job'[k].held = IF Phase(k) \in {"unlock", "resetUnlock"} THEN {} ELSE job[k].held
         /\ job'[k].part = [c \in Campaigns |-> IF c \in Batch(k, job'[k]) THEN "todo" ELSE "done"]

LEMMA BatchKept ==
    ASSUME NEW k \in Kinds, NEW r \in JobRecords, NEW s \in JobRecords,
           s.pc = r.pc, s.snap = r.snap, s.daily = r.daily, s.total = r.total
    PROVE  Batch(k, s) = Batch(k, r)
BY DEF Batch

LEMMA AfterEffect ==
    ASSUME TypeOK, NEW k \in Kinds, Working(k),
           NEW r \in JobRecords, r.pc = job[k].pc, r.held = job[k].held,
           job' = [job EXCEPT ![k] = After(k, r)]
    PROVE  Onward(k, r)
<1>1. CASE r.pc = Len(Plan[k])
  BY <1>1 DEF After, Onward, Moves, Working, TypeOK
<1>2. CASE r.pc # Len(Plan[k])
  <2> DEFINE h == IF Plan[k][r.pc] \in {"unlock", "resetUnlock"} THEN {} ELSE r.held
             s == [r EXCEPT !.pc = r.pc + 1, !.held = h]
  <2>1. h \in SUBSET Campaigns /\ r.pc + 1 \in Nat \ {0}
    BY DEF JobRecords
  <2>2. /\ s \in JobRecords /\ s.pc = r.pc + 1 /\ s.held = h
        /\ s.snap = r.snap /\ s.daily = r.daily /\ s.total = r.total
    <3> HIDE DEF h
    <3> QED
      BY <2>1 DEF JobRecords
  <2>3. After(k, r) = Begin(k, s)
    BY <1>2 DEF After
  <2> DEFINE p == [c \in Campaigns |-> IF c \in Batch(k, s) THEN "todo" ELSE "done"]
  <2>4. p \in [Campaigns -> Progress]
    BY DEF Progress
  <2>5. PICK t \in JobRecords : t = s
    BY <2>2
  <2> DEFINE q == [t EXCEPT !.part = p]
  <2>6. /\ q \in JobRecords /\ q # Idle /\ q.pc = t.pc /\ q.held = t.held
        /\ q.snap = t.snap /\ q.daily = t.daily /\ q.total = t.total /\ q.part = p
    <3> HIDE DEF p
    <3> QED
      BY <2>4 DEF JobRecords, Idle
  <2>7. After(k, r) = q
    BY <2>3, <2>5 DEF Begin
  <2>8. Batch(k, s) = Batch(k, q)
    <3> HIDE DEF q, s
    <3> QED
      BY <2>5, <2>6, BatchKept
  <2>9. r.pc \in DOMAIN Plan[k] /\ r.pc + 1 \in DOMAIN Plan[k]
    <3>1. r.pc \in DOMAIN Plan[k]
      BY JobType
    <3> QED
      BY <3>1, <1>2, Order
  <2>10. PICK u \in JobRecords : u = q
    BY <2>6
  <2>11. job' = [job EXCEPT ![k] = u] /\ job'[k] = u
    BY <2>7, <2>10 DEF TypeOK
  <2>12. /\ u # Idle /\ u.pc = r.pc + 1 /\ u.held = h
         /\ u.snap = r.snap /\ u.daily = r.daily /\ u.total = r.total
         /\ u.part = [c \in Campaigns |-> IF c \in Batch(k, u) THEN "todo" ELSE "done"]
    <3> HIDE DEF q, s, h
    <3> QED
      BY <2>2, <2>5, <2>6, <2>8, <2>10
  <2>13. /\ Moves(k) /\ job' \in [Kinds -> JobRecords \union {Idle}]
    BY <2>11 DEF TypeOK, Moves
  <2>14. Phase(k)' = Plan[k][r.pc + 1]
    BY <2>11, <2>12 DEF Phase
  <2>15. h = IF Phase(k) \in {"unlock", "resetUnlock"} THEN {} ELSE job[k].held
    BY DEF Phase
  <2> HIDE DEF q, s, h, p
  <2>16. Working(k)'
    BY <2>11, <2>12 DEF Working
  <2> QED
    BY <1>2, <2>9, <2>11, <2>12, <2>13, <2>14, <2>15, <2>16 DEF Onward
<1> QED
  BY <1>1, <1>2

-----------------------------------------------------------------------------
(***************************************************************************)
(* What a step does to documents and rows.                                 *)
(***************************************************************************)
LEMMA DocNotNone == NoDoc \notin Docs /\ "total" \in DOMAIN NoDoc
<1>1. DOMAIN NoDoc = {"total"}
  BY DEF NoDoc
<1>2. ASSUME NEW d \in Docs
      PROVE  "status" \in DOMAIN d
  BY DEF Docs
<1> QED
  BY <1>1, <1>2

\* The document of c becomes d.
DocIs(c, d) ==
    /\ d \in Docs
    /\ doc' \in [Campaigns -> Docs \union {NoDoc}]
    /\ doc'[c] = d
    /\ \A b \in Campaigns \ {c} : doc'[b] = doc[b]

LEMMA DocEffect ==
    ASSUME TypeOK, NEW c \in Campaigns, NEW d \in Docs, doc' = [doc EXCEPT ![c] = d]
    PROVE  DocIs(c, d)
BY DEF TypeOK, DocIs

StatusIs(c, status) ==
    /\ doc[c] # NoDoc
    /\ \E d \in Docs : DocIs(c, d) /\ d.status = status /\ d.daily = doc[c].daily
                                   /\ d.total = doc[c].total

LEMMA StatusEffect ==
    ASSUME TypeOK, NEW c \in Campaigns, NEW status \in Statuses, doc[c] # NoDoc,
           doc' = SetStatus(doc, c, status)
    PROVE  StatusIs(c, status)
<1>1. doc[c] \in Docs
  BY DEF TypeOK
<1>4. [doc[c] EXCEPT !.status = status] \in Docs
  BY <1>1 DEF Docs
<1>2. PICK d \in Docs : /\ d = [doc[c] EXCEPT !.status = status]
                        /\ d.status = status /\ d.daily = doc[c].daily /\ d.total = doc[c].total
  BY <1>1, <1>4 DEF Docs
<1>3. doc' = [doc EXCEPT ![c] = d]
  BY <1>2 DEF SetStatus
<1> QED
  BY <1>2, <1>3, DocEffect DEF StatusIs

\* The row of c gets this status, daily and total sum.
RowIs(c, r) ==
    /\ r \in Rows
    /\ row' \in [Campaigns -> Rows]
    /\ row'[c] = r
    /\ \A b \in Campaigns \ {c} : row'[b] = row[b]

LEMMA RowEffect ==
    ASSUME TypeOK, NEW c \in Campaigns, NEW r \in Rows, row' = [row EXCEPT ![c] = r]
    PROVE  RowIs(c, r)
BY DEF TypeOK, RowIs

LEMMA RowStatusEffect ==
    ASSUME TypeOK, NEW c \in Campaigns, NEW status \in Statuses, row' = SetStatus(row, c, status)
    PROVE  /\ row' \in [Campaigns -> Rows] /\ row'[c].status = status
           /\ \A b \in Campaigns \ {c} : row'[b] = row[b]
<1>1. row[c] \in Rows
  BY DEF TypeOK
<1>4. [row[c] EXCEPT !.status = status] \in Rows
  BY <1>1 DEF Rows
<1>2. PICK r \in Rows : r = [row[c] EXCEPT !.status = status] /\ r.status = status
  BY <1>1, <1>4 DEF Rows
<1>3. row' = [row EXCEPT ![c] = r]
  BY <1>2 DEF SetStatus
<1> QED
  BY <1>2, <1>3, RowEffect DEF RowIs

\* The sums of a row change, its status does not.
RowCounted == row' \in [Campaigns -> Rows] /\ \A b \in Campaigns : row'[b].status = row[b].status

LEMMA RowSumEffect ==
    ASSUME TypeOK, NEW c \in Campaigns, NEW daily \in Nat, NEW total \in Nat,
           \/ row' = [row EXCEPT ![c] = [row[c] EXCEPT !.daily = daily]]
           \/ row' = [row EXCEPT ![c] = [row[c] EXCEPT !.total = total]]
           \/ row' = [row EXCEPT ![c] = [row[c] EXCEPT !.daily = daily, !.total = total]]
           \/ row' = [row EXCEPT ![c] = [row[c] EXCEPT !.deleted = TRUE]]
    PROVE  RowCounted
<1>1. row[c] \in Rows
  BY DEF TypeOK
<1>2. /\ [row[c] EXCEPT !.daily = daily] \in Rows
      /\ [row[c] EXCEPT !.total = total] \in Rows
      /\ [row[c] EXCEPT !.daily = daily, !.total = total] \in Rows
      /\ [row[c] EXCEPT !.deleted = TRUE] \in Rows
      /\ [row[c] EXCEPT !.daily = daily].status = row[c].status
      /\ [row[c] EXCEPT !.total = total].status = row[c].status
      /\ [row[c] EXCEPT !.daily = daily, !.total = total].status = row[c].status
      /\ [row[c] EXCEPT !.deleted = TRUE].status = row[c].status
  BY <1>1 DEF Rows
<1>3. PICK r \in Rows : row' = [row EXCEPT ![c] = r] /\ r.status = row[c].status
  BY <1>2
<1> QED
  BY <1>3 DEF RowCounted, TypeOK

-----------------------------------------------------------------------------
(***************************************************************************)
(* The steps of the jobs, one after the other.                             *)
(***************************************************************************)
LEMMA Sums ==
    ASSUME NEW c \in Campaigns
    PROVE  /\ \A d : LoggedOn(c, d) \in Nat
           /\ Logged(c) \in Nat
<1>1. Cost \in Nat
  BY SettlementAssumption
<1>2. ASSUME NEW S \in SUBSET Clicks
      PROVE  Cost * Cardinality(S) \in Nat
  <2>1. Cardinality(S) \in Nat
    BY SettlementAssumption, FS_Subset, FS_CardinalityType
  <2> QED
    BY <1>1, <2>1
<1> QED
  BY <1>2 DEF LoggedOn, Logged

\* The phases of one call, and the step to the next phase.
LEMMA OnwardSteps ==
    ASSUME TypeOK, NEW k \in Kinds
    PROVE  /\ Load(k) => \E r \in JobRecords : Onward(k, r)
           /\ SumDay(k) => \E r \in JobRecords : Onward(k, r)
           /\ SumAll(k) => \E r \in JobRecords : Onward(k, r) /\ \A c \in Campaigns : r.total[c] = Logged(c)
           /\ (ResetRows(k) \/ Find(k) \/ NextPhase(k)) => Onward(k, job[k])
<1>1. ASSUME NEW r \in JobRecords, NEW snap \in [Campaigns -> Docs \union {NoDoc}]
      PROVE  \E s \in JobRecords : s = [r EXCEPT !.snap = snap] /\ s.pc = r.pc /\ s.held = r.held
  <2>1. [r EXCEPT !.snap = snap] \in JobRecords
    BY DEF JobRecords
  <2> QED
    BY <2>1 DEF JobRecords
<1>6. ASSUME NEW r \in JobRecords, NEW sums \in [Campaigns -> Nat]
      PROVE  /\ \E s \in JobRecords : s = [r EXCEPT !.daily = sums] /\ s.pc = r.pc /\ s.held = r.held
             /\ \E s \in JobRecords : /\ s = [r EXCEPT !.total = sums] /\ s.pc = r.pc /\ s.held = r.held
                                      /\ s.total = sums
  <2>1. [r EXCEPT !.daily = sums] \in JobRecords /\ [r EXCEPT !.total = sums] \in JobRecords
    BY DEF JobRecords
  <2> QED
    BY <2>1 DEF JobRecords
<1>2. ASSUME Load(k)
      PROVE  \E r \in JobRecords : Onward(k, r)
  <2>1. Working(k) /\ job[k] \in JobRecords
    BY <1>2, JobType DEF Load, InPhase
  <2>2. job' = [job EXCEPT ![k] = After(k, [job[k] EXCEPT !.snap = doc])]
    BY <1>2 DEF Load, TypeOK
  <2>3. doc \in [Campaigns -> Docs \union {NoDoc}]
    BY DEF TypeOK
  <2>4. PICK r \in JobRecords : r = [job[k] EXCEPT !.snap = doc] /\ r.pc = job[k].pc /\ r.held = job[k].held
    BY <1>1, <2>1, <2>3
  <2> QED
    BY <2>1, <2>2, <2>4, AfterEffect
<1>3. ASSUME SumDay(k)
      PROVE  \E r \in JobRecords : Onward(k, r)
  <2>1. Working(k) /\ job[k] \in JobRecords
    BY <1>3, JobType DEF SumDay, InPhase
  <2> DEFINE sums(d) == [c \in Campaigns |-> LoggedOn(c, d)]
  <2>2. PICK d : job' = [job EXCEPT ![k] = After(k, [job[k] EXCEPT !.daily = sums(d)])]
    BY <1>3 DEF SumDay, TypeOK
  <2>3. sums(d) \in [Campaigns -> Nat]
    BY Sums
  <2>4. PICK r \in JobRecords : r = [job[k] EXCEPT !.daily = sums(d)] /\ r.pc = job[k].pc /\ r.held = job[k].held
    <3> HIDE DEF sums
    <3> QED
      BY <1>6, <2>1, <2>3
  <2> QED
    BY <2>1, <2>2, <2>4, AfterEffect
<1>4. ASSUME SumAll(k)
      PROVE  \E r \in JobRecords : Onward(k, r) /\ \A c \in Campaigns : r.total[c] = Logged(c)
  <2>1. Working(k) /\ job[k] \in JobRecords
    BY <1>4, JobType DEF SumAll, InPhase
  <2> DEFINE sums == [c \in Campaigns |-> Logged(c)]
  <2>2. job' = [job EXCEPT ![k] = After(k, [job[k] EXCEPT !.total = sums])]
    BY <1>4 DEF SumAll, TypeOK
  <2>3. sums \in [Campaigns -> Nat]
    BY Sums
  <2>4. PICK r \in JobRecords : /\ r = [job[k] EXCEPT !.total = sums]
                                /\ r.pc = job[k].pc /\ r.held = job[k].held /\ r.total = sums
    <3> HIDE DEF sums
    <3> QED
      BY <1>6, <2>1, <2>3
  <2> QED
    BY <2>1, <2>2, <2>4, AfterEffect
<1>5. ASSUME ResetRows(k) \/ Find(k) \/ NextPhase(k)
      PROVE  Onward(k, job[k])
  <2>1. Working(k) /\ job[k] \in JobRecords
    BY <1>5, JobType DEF ResetRows, Find, NextPhase, InPhase
  <2>2. job' = [job EXCEPT ![k] = After(k, job[k])]
    BY <1>5 DEF ResetRows, Find, NextPhase, TypeOK
  <2> QED
    BY <2>1, <2>2, AfterEffect
<1> QED
  BY <1>2, <1>3, <1>4, <1>5

\* The steps within a phase.
LEMMA WithinSteps ==
    ASSUME TypeOK, NEW k \in Kinds, NEW c \in Campaigns
    PROVE  /\ (StopInRedis(k, c) \/ StartInMySQL(k, c)) => Within(k, c, "half", job[k].held)
           /\ (StopInMySQL(k, c) \/ StartInRedis(k, c) \/ ReplaceDoc(k, c) \/ ResetDoc(k, c))
                 => Within(k, c, "done", job[k].held)
           /\ ReadForLock(k, c) =>
                 Within(k, c, IF doc[c] # NoDoc /\ doc[c].status = "ACTIVE" THEN "half" ELSE "done", job[k].held)
           /\ ReadForUnlock(k, c) =>
                 Within(k, c, IF c \in job[k].held /\ doc[c] # NoDoc THEN "half" ELSE "done", job[k].held)
           /\ ReadForReplace(k, c) =>
                 \E progress \in {"half", "alone", "done"} : Within(k, c, progress, job[k].held)
           /\ ReplaceRow(k, c) => \E progress \in {"rowed", "done"} : Within(k, c, progress, job[k].held)
           /\ (Lock(k, c) \/ LockForReset(k, c)) /\ doc[c] # NoDoc =>
                 \/ Within(k, c, "done", job[k].held \union {c}) /\ StatusIs(c, "PAUSED")
                 \/ /\ LockForReset(k, c) /\ job[k].snap[c].status = "PAUSED" /\ doc' = doc
                    /\ Within(k, c, "done", job[k].held)
           /\ (Unlock(k, c) \/ UnlockAfterReset(k, c)) /\ doc[c] # NoDoc =>
                 \/ Within(k, c, "done", job[k].held \ {c}) /\ StatusIs(c, "ACTIVE")
                 \/ /\ UnlockAfterReset(k, c) /\ c \notin job[k].held /\ doc' = doc
                    /\ Within(k, c, "done", job[k].held)
           /\ (Lock(k, c) \/ LockForReset(k, c) \/ Unlock(k, c) \/ UnlockAfterReset(k, c)) /\ doc[c] = NoDoc =>
                 /\ doc' = doc
                 /\ Throw(k) \/ Within(k, c, "done", job[k].held)
<1>1. {"half", "alone", "done", "rowed"} \subseteq Progress /\ {"PAUSED", "ACTIVE"} \subseteq Statuses
  BY DEF Progress, Statuses
<1>2. ASSUME StopInRedis(k, c) \/ StartInMySQL(k, c)
      PROVE  Within(k, c, "half", job[k].held)
  BY <1>1, <1>2, DidEffect DEF StopInRedis, StartInMySQL, At, InPhase
<1>3. ASSUME StopInMySQL(k, c) \/ StartInRedis(k, c) \/ ReplaceDoc(k, c) \/ ResetDoc(k, c)
      PROVE  Within(k, c, "done", job[k].held)
  BY <1>1, <1>3, DidEffect DEF StopInMySQL, StartInRedis, ReplaceDoc, ResetDoc, At, InPhase
<1>4. ASSUME ReadForLock(k, c)
      PROVE  Within(k, c, IF doc[c] # NoDoc /\ doc[c].status = "ACTIVE" THEN "half" ELSE "done", job[k].held)
  BY <1>1, <1>4, DidEffect DEF ReadForLock, At, InPhase
<1>5. ASSUME ReadForUnlock(k, c)
      PROVE  Within(k, c, IF c \in job[k].held /\ doc[c] # NoDoc THEN "half" ELSE "done", job[k].held)
  BY <1>1, <1>5, DidEffect DEF ReadForUnlock, At, InPhase
<1>6. ASSUME ReadForReplace(k, c)
      PROVE  \E progress \in {"half", "alone", "done"} : Within(k, c, progress, job[k].held)
  <2>1. Working(k) /\ Phase(k) = "replace" /\ job[k].daily[c] \in Nat /\ LoggedOn(c, day) \in Nat
    BY <1>6, JobType, Sums DEF ReadForReplace, At, InPhase
  <2>2. PICK progress \in {"half", "alone", "done"}, sum \in Nat :
           /\ sum # job[k].daily[c] => k = "migrate"
           /\ job' = [job EXCEPT ![k].part[c] = progress, ![k].daily[c] = sum]
    <3>1. CASE k = "migrate"
      BY <1>6, <2>1, <3>1 DEF ReadForReplace
    <3>2. CASE k # "migrate"
      BY <1>6, <2>1, <3>2 DEF ReadForReplace
    <3> QED
      BY <3>1, <3>2
  <2> QED
    BY <1>1, <2>1, <2>2, SumEffect
<1>7. ASSUME ReplaceRow(k, c)
      PROVE  \E progress \in {"rowed", "done"} : Within(k, c, progress, job[k].held)
  BY <1>1, <1>7, DidEffect DEF ReplaceRow, At, InPhase
<1>8. ASSUME Lock(k, c), doc[c] # NoDoc
      PROVE  Within(k, c, "done", job[k].held \union {c}) /\ StatusIs(c, "PAUSED")
  BY <1>1, <1>8, HoldEffect, StatusEffect DEF Lock, At, InPhase
<1>9. ASSUME LockForReset(k, c), doc[c] # NoDoc
      PROVE  \/ Within(k, c, "done", job[k].held \union {c}) /\ StatusIs(c, "PAUSED")
             \/ /\ LockForReset(k, c) /\ job[k].snap[c].status = "PAUSED" /\ doc' = doc
                /\ Within(k, c, "done", job[k].held)
  <2>1. CASE job[k].snap[c].status = "PAUSED"
    BY <1>1, <1>9, <2>1, DidEffect DEF LockForReset, At, InPhase
  <2>2. CASE job[k].snap[c].status # "PAUSED"
    BY <1>1, <1>9, <2>2, HoldEffect, StatusEffect DEF LockForReset, At, InPhase
  <2> QED
    BY <2>1, <2>2
<1>10. ASSUME Unlock(k, c), doc[c] # NoDoc
       PROVE  Within(k, c, "done", job[k].held \ {c}) /\ StatusIs(c, "ACTIVE")
  <2>1. Working(k) /\ doc' = SetStatus(doc, c, "ACTIVE")
        /\ job' = [job EXCEPT ![k].part[c] = "done", ![k].held = @ \ {c}]
    BY <1>10 DEF Unlock, At, InPhase
  <2> QED
    BY <1>1, <1>10, <2>1, HoldEffect, StatusEffect
<1>11. ASSUME UnlockAfterReset(k, c), doc[c] # NoDoc
       PROVE  \/ Within(k, c, "done", job[k].held \ {c}) /\ StatusIs(c, "ACTIVE")
              \/ /\ UnlockAfterReset(k, c) /\ c \notin job[k].held /\ doc' = doc
                 /\ Within(k, c, "done", job[k].held)
  <2>1. CASE c \in job[k].held
    <3>1. Working(k) /\ doc' = SetStatus(doc, c, "ACTIVE")
          /\ job' = [job EXCEPT ![k].part[c] = "done", ![k].held = @ \ {c}]
      BY <1>11, <2>1 DEF UnlockAfterReset, At, InPhase
    <3> QED
      BY <1>1, <1>11, <3>1, HoldEffect, StatusEffect
  <2>2. CASE c \notin job[k].held
    BY <1>1, <1>11, <2>2, DidEffect DEF UnlockAfterReset, At, InPhase
  <2> QED
    BY <2>1, <2>2
<1>12. ASSUME Lock(k, c) \/ LockForReset(k, c) \/ Unlock(k, c) \/ UnlockAfterReset(k, c), doc[c] = NoDoc
       PROVE  doc' = doc /\ (Throw(k) \/ Within(k, c, "done", job[k].held))
  BY <1>1, <1>12, DidEffect DEF Lock, LockForReset, Unlock, UnlockAfterReset, At, InPhase
<1> QED
  BY <1>2, <1>3, <1>4, <1>5, <1>6, <1>7, <1>8, <1>9, <1>10, <1>11, <1>12

\* What they write: a status, or sums.
DocCounted(c) ==
    /\ doc[c] # NoDoc
    /\ \E d \in Docs : DocIs(c, d) /\ d.status = doc[c].status

LEMMA DocSteps ==
    ASSUME TypeOK, NEW k \in Kinds, NEW c \in Campaigns
    PROVE  /\ StopInRedis(k, c) => \/ doc' = doc /\ doc[c] = NoDoc
                                   \/ StatusIs(c, Target[Phase(k)])
           /\ StartInRedis(k, c) => \/ doc' = doc /\ doc[c] = NoDoc
                                    \/ StatusIs(c, "ACTIVE")
           /\ ReplaceDoc(k, c) => \/ doc' = doc
                                  \/ DocCounted(c) /\ doc'[c].total = job[k].total[c]
           /\ ResetDoc(k, c) => \/ doc' = doc
                                \/ DocCounted(c) /\ doc'[c].total = doc[c].total
           /\ (StopInMySQL(k, c) \/ StartInMySQL(k, c) \/ ReadForLock(k, c) \/ ReadForUnlock(k, c)
                 \/ ReadForReplace(k, c) \/ ReplaceRow(k, c)) => doc' = doc
<1>1. \A phase \in DOMAIN Target : Target[phase] \in Statuses
  BY DEF Target, Statuses
<1>2. "ACTIVE" \in Statuses
  BY DEF Statuses
<1>3. ASSUME StopInRedis(k, c)
      PROVE  (doc' = doc /\ doc[c] = NoDoc) \/ StatusIs(c, Target[Phase(k)])
  BY <1>1, <1>3, StatusEffect DEF StopInRedis, SyncCacheStatus
<1>4. ASSUME StartInRedis(k, c)
      PROVE  (doc' = doc /\ doc[c] = NoDoc) \/ StatusIs(c, "ACTIVE")
  BY <1>2, <1>4, StatusEffect DEF StartInRedis, SyncCacheStatus
<1>5. ASSUME ReplaceDoc(k, c), doc[c] # NoDoc
      PROVE  DocCounted(c) /\ doc'[c].total = job[k].total[c]
  <2>1. job[k].daily[c] \in Nat /\ job[k].total[c] \in Nat
    BY <1>5, JobType DEF ReplaceDoc, At, InPhase
  <2>2. doc[c] \in Docs
    BY <1>5 DEF TypeOK
  <2>3. [doc[c] EXCEPT !.daily = job[k].daily[c], !.total = job[k].total[c]] \in Docs
    BY <2>1, <2>2 DEF Docs
  <2>4. PICK d \in Docs : d = [doc[c] EXCEPT !.daily = job[k].daily[c], !.total = job[k].total[c]]
    BY <2>3
  <2>5. d.status = doc[c].status /\ d.total = job[k].total[c]
    BY <2>2, <2>4 DEF Docs
  <2>6. doc' = [doc EXCEPT ![c] = d]
    BY <1>5, <2>4 DEF ReplaceDoc, TypeOK
  <2>7. DocIs(c, d)
    BY <2>6, DocEffect
  <2> QED
    BY <1>5, <2>5, <2>7 DEF DocCounted, DocIs
<1>6. ASSUME ResetDoc(k, c), doc[c] # NoDoc
      PROVE  DocCounted(c) /\ doc'[c].total = doc[c].total
  <2>2. doc[c] \in Docs
    BY <1>6 DEF TypeOK
  <2>3. [doc[c] EXCEPT !.daily = 0] \in Docs
    BY <2>2 DEF Docs
  <2>4. PICK d \in Docs : d = [doc[c] EXCEPT !.daily = 0]
    BY <2>3
  <2>5. d.status = doc[c].status /\ d.total = doc[c].total
    BY <2>2, <2>4 DEF Docs
  <2>6. doc' = [doc EXCEPT ![c] = d]
    BY <1>6, <2>4 DEF ResetDoc, TypeOK
  <2>7. DocIs(c, d)
    BY <2>6, DocEffect
  <2> QED
    BY <1>6, <2>5, <2>7 DEF DocCounted, DocIs
<1>7. (ReplaceDoc(k, c) \/ ResetDoc(k, c)) /\ doc[c] = NoDoc => doc' = doc
  BY DEF ReplaceDoc, ResetDoc
<1>8. (StopInMySQL(k, c) \/ StartInMySQL(k, c) \/ ReadForLock(k, c) \/ ReadForUnlock(k, c)
         \/ ReadForReplace(k, c) \/ ReplaceRow(k, c)) => doc' = doc
  BY DEF StopInMySQL, StartInMySQL, ReadForLock, ReadForUnlock, ReadForReplace, ReplaceRow, OnlyJob, JobAndRow
<1> QED
  BY <1>3, <1>4, <1>5, <1>6, <1>7, <1>8

\* The row of c gets a status.
RowStatusIs(c, status) ==
    /\ row' \in [Campaigns -> Rows] /\ row'[c].status = status
    /\ \A b \in Campaigns \ {c} : row'[b] = row[b]

LEMMA RowSteps ==
    ASSUME TypeOK, NEW k \in Kinds
    PROVE  /\ ResetRows(k) => RowCounted
           /\ (Load(k) \/ SumDay(k) \/ SumAll(k) \/ Find(k) \/ NextPhase(k)) => row' = row
           /\ \A c \in Campaigns :
                /\ StopInMySQL(k, c) => RowStatusIs(c, Target[Phase(k)])
                /\ StartInMySQL(k, c) => RowStatusIs(c, "ACTIVE")
                /\ ReplaceRow(k, c) => RowCounted
                /\ (\/ StopInRedis(k, c) \/ StartInRedis(k, c)
                    \/ ReadForLock(k, c) \/ Lock(k, c) \/ ReadForUnlock(k, c) \/ Unlock(k, c)
                    \/ LockForReset(k, c) \/ UnlockAfterReset(k, c) \/ ResetDoc(k, c)
                    \/ ReadForReplace(k, c) \/ ReplaceDoc(k, c)) => row' = row
<1>1. \A phase \in DOMAIN Target : Target[phase] \in Statuses
  BY DEF Target, Statuses
<1>2. "ACTIVE" \in Statuses
  BY DEF Statuses
<1>3. ASSUME ResetRows(k)
      PROVE  RowCounted
  <2>1. ASSUME NEW r \in Rows
        PROVE  [r EXCEPT !.daily = 0] \in Rows /\ [r EXCEPT !.daily = 0].status = r.status
    BY DEF Rows
  <2> QED
    BY <1>3, <2>1 DEF ResetRows, RowCounted, TypeOK
<1>4. ASSUME NEW c \in Campaigns, StopInMySQL(k, c)
      PROVE  RowStatusIs(c, Target[Phase(k)])
  BY <1>1, <1>4, RowStatusEffect DEF StopInMySQL, RowStatusIs
<1>5. ASSUME NEW c \in Campaigns, StartInMySQL(k, c)
      PROVE  RowStatusIs(c, "ACTIVE")
  BY <1>2, <1>5, RowStatusEffect DEF StartInMySQL, RowStatusIs
<1>6. ASSUME NEW c \in Campaigns, ReplaceRow(k, c)
      PROVE  RowCounted
  <2>1. job[k].daily[c] \in Nat /\ job[k].total[c] \in Nat
    BY <1>6, JobType DEF ReplaceRow, At, InPhase
  <2>2. row' = [row EXCEPT ![c] = [row[c] EXCEPT !.daily = job[k].daily[c], !.total = job[k].total[c]]]
    BY <1>6 DEF ReplaceRow, TypeOK
  <2> QED
    BY <2>1, <2>2, RowSumEffect
<1>7. (Load(k) \/ SumDay(k) \/ SumAll(k) \/ Find(k) \/ NextPhase(k)) => row' = row
  BY DEF Load, SumDay, SumAll, Find, NextPhase, OnlyJob
<1>8. ASSUME NEW c \in Campaigns
      PROVE  (\/ StopInRedis(k, c) \/ StartInRedis(k, c)
              \/ ReadForLock(k, c) \/ Lock(k, c) \/ ReadForUnlock(k, c) \/ Unlock(k, c)
              \/ LockForReset(k, c) \/ UnlockAfterReset(k, c) \/ ResetDoc(k, c)
              \/ ReadForReplace(k, c) \/ ReplaceDoc(k, c)) => row' = row
  BY DEF StopInRedis, StartInRedis, ReadForLock, Lock, ReadForUnlock, Unlock, LockForReset,
         UnlockAfterReset, ResetDoc, ReadForReplace, ReplaceDoc, OnlyJob, JobAndDoc
<1> QED
  BY <1>3, <1>4, <1>5, <1>6, <1>7, <1>8

\* What is true of every step of a job.
JobFrame(k) ==
    /\ Working(k) /\ Moves(k)
    /\ job' \in [Kinds -> JobRecords \union {Idle}]
    /\ Working(k)' => job'[k].pc \in DOMAIN Plan[k]
    /\ row' \in [Campaigns -> Rows]
    /\ doc' \in [Campaigns -> Docs \union {NoDoc}]
    /\ \A c \in Campaigns : doc'[c] = NoDoc <=> doc[c] = NoDoc
    /\ UNCHANGED <<day, click, due, owner, loader, faults, allowed>>

LEMMA JobSteps ==
    ASSUME TypeOK, NEW k \in Kinds, JobStep(k)
    PROVE  JobFrame(k)
<1>1. UNCHANGED <<day, click, due, owner, loader, faults, allowed>>
  BY DEF JobStep, Load, SumDay, SumAll, ResetRows, Find, NextPhase, StopInRedis, StopInMySQL,
         StartInMySQL, StartInRedis, ReadForLock, Lock, ReadForUnlock, Unlock, LockForReset,
         UnlockAfterReset, ResetDoc, ReadForReplace, ReplaceRow, ReplaceDoc, OnlyJob, JobAndDoc, JobAndRow
<1> DEFINE Writes == /\ doc' \in [Campaigns -> Docs \union {NoDoc}]
                     /\ \A c \in Campaigns : doc'[c] = NoDoc <=> doc[c] = NoDoc
           Records == /\ Working(k) /\ Moves(k)
                      /\ job' \in [Kinds -> JobRecords \union {Idle}]
                      /\ Working(k)' => job'[k].pc \in DOMAIN Plan[k]
<1>2. doc' = doc => Writes
  BY DEF TypeOK
<1>3. ASSUME NEW c \in Campaigns, \/ \E status \in Statuses : StatusIs(c, status)
                                  \/ DocCounted(c)
      PROVE  Writes
  <2>1. PICK d \in Docs : DocIs(c, d) /\ doc[c] # NoDoc
    BY <1>3 DEF StatusIs, DocCounted
  <2> QED
    BY <2>1, DocNotNone DEF DocIs
<1>4. ASSUME NEW r \in JobRecords, Onward(k, r)
      PROVE  Records
  BY <1>4 DEF Onward
<1>5. ASSUME NEW c \in Campaigns, NEW progress, NEW held, Within(k, c, progress, held)
      PROVE  Records
  BY <1>5, JobType DEF Within
<1>6. ASSUME Working(k), Throw(k)
      PROVE  Records
  BY <1>6, ThrowEffect
<1>7. CASE Load(k) \/ SumDay(k) \/ SumAll(k) \/ ResetRows(k) \/ Find(k) \/ NextPhase(k)
  <2>1. Records
    <3>1. job[k] \in JobRecords
      BY <1>7, JobType DEF Load, SumDay, SumAll, ResetRows, Find, NextPhase, InPhase
    <3> QED
      BY <1>4, <1>7, <3>1, OnwardSteps
  <2>2. row' = row \/ RowCounted
    BY <1>7, RowSteps
  <2>3. doc' = doc
    BY <1>7 DEF Load, SumDay, SumAll, ResetRows, Find, NextPhase, OnlyJob, JobAndRow
  <2> QED
    BY <1>1, <1>2, <2>1, <2>2, <2>3 DEF JobFrame, RowCounted, TypeOK
<1>8. ASSUME NEW c \in Campaigns,
             \/ StopInRedis(k, c) \/ StopInMySQL(k, c)
             \/ StartInMySQL(k, c) \/ StartInRedis(k, c)
             \/ ReadForLock(k, c) \/ Lock(k, c) \/ ReadForUnlock(k, c) \/ Unlock(k, c)
             \/ LockForReset(k, c) \/ UnlockAfterReset(k, c) \/ ResetDoc(k, c)
             \/ ReadForReplace(k, c) \/ ReplaceRow(k, c) \/ ReplaceDoc(k, c)
      PROVE  JobFrame(k)
  <2>1. Working(k)
    BY <1>8 DEF StopInRedis, StopInMySQL, StartInMySQL, StartInRedis, ReadForLock, Lock, ReadForUnlock,
           Unlock, LockForReset, UnlockAfterReset, ResetDoc, ReadForReplace, ReplaceRow, ReplaceDoc, At, InPhase
  <2>2. Records
    <3> HIDE DEF Records
    <3> QED
      BY <1>5, <1>6, <1>8, <2>1, WithinSteps
  <2>3. row' \in [Campaigns -> Rows]
    BY <1>8, RowSteps DEF RowCounted, RowStatusIs, TypeOK
  <2>4. Writes
    <3> HIDE DEF Writes
    <3>1. \A phase \in DOMAIN Target : Target[phase] \in Statuses
      BY DEF Target, Statuses
    <3>2. {"ACTIVE", "PAUSED"} \subseteq Statuses
      BY DEF Statuses
    <3>3. CASE StopInRedis(k, c)
      BY <1>2, <1>3, <3>1, <3>3, DocSteps DEF StopInRedis
    <3>4. CASE StartInRedis(k, c) \/ ReplaceDoc(k, c) \/ ResetDoc(k, c)
      BY <1>2, <1>3, <3>2, <3>4, DocSteps
    <3>5. CASE Lock(k, c) \/ LockForReset(k, c) \/ Unlock(k, c) \/ UnlockAfterReset(k, c)
      BY <1>2, <1>3, <3>2, <3>5, WithinSteps
    <3> QED
      BY <1>2, <1>8, <3>3, <3>4, <3>5, DocSteps
  <2> QED
    BY <1>1, <2>2, <2>3, <2>4 DEF JobFrame
<1> QED
  BY <1>7, <1>8 DEF JobStep

-----------------------------------------------------------------------------
(***************************************************************************)
(* What is there, the hazards of the behaviour allow: a job was started, a *)
(* document is gone, a load or a request is under way.                     *)
(***************************************************************************)
Lawful ==
    /\ due \subseteq allowed
    /\ \A k \in Once : Working(k) => May(k)
    /\ loader # NoLoad => May("restart")
    /\ \A c \in Campaigns : doc[c] = NoDoc => May("delete") /\ owner.at \in {"dropped", "over"}
    /\ Asked => May(IF owner.to = "deleted" THEN "delete" ELSE "edit")
    /\ owner.at = "saved" => owner.to # "deleted"
    /\ owner.at = "dropped" => owner.to = "deleted"

\* Without overlap: one job at a time, and no request meanwhile.
Exclusive == ~May("overlap") =>
    /\ Asked => Quiet
    /\ \A j, k \in Kinds : Working(j) /\ Working(k) => j = k

LEMMA Owner ==
    ASSUME TypeOK
    PROVE  /\ Asked <=> owner \in Edits
           /\ owner.at \in {"asked", "paused", "saved", "dropped"} <=> Asked
           /\ owner.at = "none" <=> owner = NoEdit
           /\ Asked => owner.campaign \in Campaigns /\ owner.to \in {"ACTIVE", "PAUSED", "deleted"}
           /\ Lawful /\ owner.at \in {"asked", "paused", "saved"} => doc[owner.campaign] # NoDoc
           /\ Asked => \A at \in {"asked", "paused", "dropped", "saved"} :
                 /\ [owner EXCEPT !.at = at] \in Edits
                 /\ [owner EXCEPT !.at = at].at = at
                 /\ [owner EXCEPT !.at = at].to = owner.to
                 /\ [owner EXCEPT !.at = at].campaign = owner.campaign
<1>1. owner \in Edits \union {NoEdit, Over}
  BY DEF TypeOK
<1>2. Asked <=> owner \in Edits
  BY <1>1 DEF Asked, Edits, NoEdit, Over
<1>3. owner.at \in {"asked", "paused", "saved", "dropped"} <=> Asked
  BY <1>1, <1>2 DEF Edits, NoEdit, Over
<1>4. owner.at = "none" <=> owner = NoEdit
  BY <1>1 DEF Edits, NoEdit, Over
<1>5. Asked => owner.campaign \in Campaigns /\ owner.to \in {"ACTIVE", "PAUSED", "deleted"}
  BY <1>2 DEF Edits
<1>6. Lawful /\ owner.at \in {"asked", "paused", "saved"} => doc[owner.campaign] # NoDoc
  BY <1>3, <1>5 DEF Lawful
<1>7. ASSUME NEW o \in Edits, NEW at \in {"asked", "paused", "dropped", "saved"}
      PROVE  /\ [o EXCEPT !.at = at] \in Edits /\ [o EXCEPT !.at = at].at = at
             /\ [o EXCEPT !.at = at].to = o.to /\ [o EXCEPT !.at = at].campaign = o.campaign
  BY DEF Edits
<1> QED
  BY <1>2, <1>3, <1>4, <1>5, <1>6, <1>7

LEMMA ClickType ==
    ASSUME TypeOK, NEW k \in Clicks
    PROVE  click[k] # NewClick => click[k] \in ClickRecords /\ click[k].campaign \in Campaigns
BY DEF TypeOK, ClickRecords

LEMMA OwnerSteps ==
    ASSUME TypeOK, Lawful, OwnerStep
    PROVE  /\ owner' \in Edits \union {Over}
           /\ row' \in [Campaigns -> Rows]
           /\ doc' \in [Campaigns -> Docs \union {NoDoc}]
           /\ Asked
           /\ UNCHANGED <<day, click, job, due, loader, faults, allowed>>
           /\ \/ /\ StatusIs(owner.campaign, "PAUSED") /\ row' = row
                 /\ owner' \in Edits /\ owner'.at = "paused" /\ owner'.to = owner.to
                 /\ owner'.campaign = owner.campaign /\ owner.at = "asked"
              \/ /\ doc' = doc /\ RowStatusIs(owner.campaign, owner.to)
                 /\ owner' \in Edits /\ owner'.at = "saved" /\ owner'.to = owner.to
                 /\ owner'.campaign = owner.campaign /\ owner.at = "paused" /\ owner.to # "deleted"
              \/ /\ StatusIs(owner.campaign, owner.to) /\ row' = row
                 /\ owner' = Over /\ owner.at = "saved"
              \/ /\ doc'[owner.campaign] = NoDoc /\ row' = row
                 /\ \A b \in Campaigns \ {owner.campaign} : doc'[b] = doc[b]
                 /\ owner' \in Edits /\ owner'.at = "dropped" /\ owner'.to = owner.to
                 /\ owner'.campaign = owner.campaign /\ owner.at = "paused" /\ owner.to = "deleted"
              \/ /\ doc' = doc /\ RowCounted /\ owner' = Over /\ owner.at = "dropped"
<1>1. Asked /\ owner \in Edits /\ owner.campaign \in Campaigns
      /\ owner.to \in {"ACTIVE", "PAUSED", "deleted"}
  BY Owner DEF OwnerStep, PauseFirst, SaveRow, CopyStatus, DropDoc, MarkRow
<1>2. row \in [Campaigns -> Rows] /\ doc \in [Campaigns -> Docs \union {NoDoc}]
  BY DEF TypeOK
<1>3. {"ACTIVE", "PAUSED"} \subseteq Statuses
  BY DEF Statuses
<1>4. CASE PauseFirst
  <2>1. StatusIs(owner.campaign, "PAUSED")
    BY <1>1, <1>3, <1>4, Owner, StatusEffect DEF PauseFirst
  <2> QED
    BY <1>1, <1>2, <1>4, <2>1, Owner DEF PauseFirst, StatusIs, DocIs
<1>5. CASE SaveRow
  <2>1. RowStatusIs(owner.campaign, owner.to)
    BY <1>1, <1>3, <1>5, RowStatusEffect DEF SaveRow, RowStatusIs
  <2> QED
    BY <1>1, <1>2, <1>5, <2>1, Owner DEF SaveRow, RowStatusIs
<1>6. CASE CopyStatus
  <2>1. StatusIs(owner.campaign, owner.to)
    BY <1>1, <1>3, <1>6, Owner, StatusEffect DEF CopyStatus, Lawful
  <2> QED
    BY <1>1, <1>2, <1>6, <2>1 DEF CopyStatus, StatusIs, DocIs
<1>7. CASE DropDoc
  BY <1>1, <1>2, <1>7, Owner DEF DropDoc
<1>8. CASE MarkRow
  <2>1. row' = [row EXCEPT ![owner.campaign] = [row[owner.campaign] EXCEPT !.deleted = TRUE]]
    BY <1>8 DEF MarkRow
  <2>2. RowCounted
    BY <1>1, <2>1, RowSumEffect
  <2> QED
    BY <1>1, <1>2, <1>8, <2>2 DEF MarkRow, RowCounted
<1> QED
  BY <1>4, <1>5, <1>6, <1>7, <1>8 DEF OwnerStep

LEMMA ClickSteps ==
    ASSUME TypeOK, NEW k \in Clicks, ClickStep(k) \/ Crash(k)
    PROVE  /\ RowCounted
           /\ click[k] # NewClick
           /\ \E r \in ClickRecords : /\ click' = [click EXCEPT ![k] = r]
                                      /\ r.campaign = click[k].campaign
                                      /\ r.at # "billed"
                                      /\ \/ r.day = click[k].day
                                         \/ /\ SaveClickLog(k) /\ click[k].at = "billed"
                                            /\ r.day \in Days /\ UNCHANGED row
           /\ UNCHANGED <<day, doc, job, due, owner, loader, faults, allowed>>
<1>1. ASSUME NEW s \in ClickRecords, NEW at \in {"logged", "daily", "done", "dead"}
      PROVE  \E r \in ClickRecords : /\ r = [s EXCEPT !.at = at] /\ r.campaign = s.campaign
                                     /\ r.at # "billed" /\ r.day = s.day
  <2>1. [s EXCEPT !.at = at] \in ClickRecords
    BY DEF ClickRecords
  <2> QED
    BY <2>1 DEF ClickRecords
<1>2. ASSUME NEW s \in ClickRecords
      PROVE  \E r \in ClickRecords : /\ r = [s EXCEPT !.at = "logged", !.day = day]
                                     /\ r.campaign = s.campaign /\ r.at # "billed" /\ r.day \in Days
  <2>1. [s EXCEPT !.at = "logged", !.day = day] \in ClickRecords /\ day \in Days
    BY DEF ClickRecords, TypeOK
  <2> QED
    BY <2>1 DEF ClickRecords
<1>3. click[k] # NewClick /\ click[k] \in ClickRecords /\ click[k].campaign \in Campaigns
  BY ClickType DEF ClickStep, SaveClickLog, IncrementDaily, IncrementTotal, Crash, InHand, NewClick
<1>4. row' = row => RowCounted
  BY DEF RowCounted, TypeOK
<1>5. row[click[k].campaign] \in Rows /\ Cost \in Nat
  BY <1>3, SettlementAssumption DEF TypeOK
<1>6. row[click[k].campaign].daily + Cost \in Nat /\ row[click[k].campaign].total + Cost \in Nat
  BY <1>5 DEF Rows
<1>7. CASE SaveClickLog(k)
  <2>1. click' = [click EXCEPT ![k] = [click[k] EXCEPT !.at = "logged", !.day = day]]
    BY <1>7 DEF SaveClickLog, TypeOK
  <2> QED
    BY <1>2, <1>3, <1>4, <1>7, <2>1 DEF SaveClickLog
<1>8. CASE IncrementDaily(k)
  <2>1. click' = [click EXCEPT ![k] = [click[k] EXCEPT !.at = "daily"]]
    BY <1>8 DEF IncrementDaily, Reach
  <2>2. row' = [row EXCEPT ![click[k].campaign] = [row[click[k].campaign]
                   EXCEPT !.daily = row[click[k].campaign].daily + Cost]]
    BY <1>8, <1>3 DEF IncrementDaily, TypeOK
  <2>3. RowCounted
    BY <1>3, <1>6, <2>2, RowSumEffect
  <2> QED
    BY <1>1, <1>3, <1>8, <2>1, <2>3 DEF IncrementDaily
<1>9. CASE IncrementTotal(k)
  <2>1. click' = [click EXCEPT ![k] = [click[k] EXCEPT !.at = "done"]]
    BY <1>9 DEF IncrementTotal, Reach
  <2>2. row' = [row EXCEPT ![click[k].campaign] = [row[click[k].campaign]
                   EXCEPT !.total = row[click[k].campaign].total + Cost]]
    BY <1>9, <1>3 DEF IncrementTotal, TypeOK
  <2>3. RowCounted
    BY <1>3, <1>6, <2>2, RowSumEffect
  <2> QED
    BY <1>1, <1>3, <1>9, <2>1, <2>3 DEF IncrementTotal
<1>10. CASE Crash(k)
  <2>1. click' = [click EXCEPT ![k] = [click[k] EXCEPT !.at = "dead"]]
    BY <1>10 DEF Crash, Reach
  <2> QED
    BY <1>1, <1>3, <1>4, <1>10, <2>1 DEF Crash
<1> QED
  BY <1>7, <1>8, <1>9, <1>10 DEF ClickStep

LEMMA BillEffect ==
    ASSUME TypeOK, NEW k \in Clicks, NEW c \in Campaigns, Bill(k, c)
    PROVE  /\ DocCounted(c) /\ doc'[c].total = doc[c].total + Cost
           /\ click[k] = NewClick
           /\ \E r \in ClickRecords : /\ click' = [click EXCEPT ![k] = r]
                                      /\ r.at = "billed" /\ r.campaign = c /\ r.day = None
           /\ UNCHANGED <<day, row, job, due, owner, loader, faults, allowed>>
<1>1. doc[c] # NoDoc /\ doc[c] \in Docs
  BY DEF Bill, TypeOK
<1>2. doc[c].daily + Cost \in Nat /\ doc[c].total + Cost \in Nat
  BY <1>1, SettlementAssumption DEF Docs
<1>3. [doc[c] EXCEPT !.daily = doc[c].daily + Cost, !.total = doc[c].total + Cost] \in Docs
  BY <1>1, <1>2 DEF Docs
<1>4. PICK d \in Docs : d = [doc[c] EXCEPT !.daily = doc[c].daily + Cost, !.total = doc[c].total + Cost]
  BY <1>3
<1>5. d.status = doc[c].status /\ d.total = doc[c].total + Cost
  BY <1>1, <1>4 DEF Docs
<1>6. doc' = [doc EXCEPT ![c] = d]
  BY <1>4 DEF Bill, TypeOK
<1>7. DocIs(c, d)
  BY <1>6, DocEffect
<1>8. [at |-> "billed", campaign |-> c, day |-> None] \in ClickRecords
  BY DEF ClickRecords
<1> QED
  BY <1>1, <1>5, <1>7, <1>8 DEF Bill, DocCounted, DocIs

-----------------------------------------------------------------------------
\* The steps of Next.
LEMMA Cases ==
    ASSUME [Next]_vars
    PROVE  \/ Midnight \/ Restart \/ OwnerStep
           \/ \E c \in Campaigns :
                \/ LoadDoc(c)
                \/ \E to \in {"ACTIVE", "PAUSED", "deleted"} : Ask(c, to)
                \/ \E k \in Clicks : Bill(k, c)
           \/ \E k \in Clicks : ClickStep(k) \/ Crash(k)
           \/ \E k \in Kinds : StartJob(k) \/ JobStep(k) \/ Fail(k)
           \/ UNCHANGED vars
BY DEF Next

LEMMA NewJobType ==
    /\ NewJob \in JobRecords /\ NewJob # Idle /\ NewJob.pc = 1 /\ NewJob.held = {}
    /\ \A c \in Campaigns : NewJob.part[c] = "done"
BY DEF NewJob, JobRecords, Progress, Idle

LEMMA StartEffect ==
    ASSUME TypeOK, NEW k \in Kinds, StartJob(k)
    PROVE  /\ ~Working(k) /\ Working(k)' /\ Moves(k)
           /\ job' \in [Kinds -> JobRecords \union {Idle}]
           /\ job'[k] = NewJob /\ job'[k].pc \in DOMAIN Plan[k]
           /\ Phase(k)' \in {"sum", "load", "sumAll"} /\ (Phase(k)' = "sumAll" => k = "migrate")
           /\ due' = due \ {k} /\ (k \in Once => k \in due)
           /\ May("overlap") \/ (Quiet /\ ~Asked)
           /\ UNCHANGED <<day, row, doc, click, owner, loader, faults, allowed>>
<1>1. job' = [job EXCEPT ![k] = NewJob] /\ job'[k] = NewJob
  BY DEF StartJob, TypeOK
<1>2. Phase(k)' = Plan[k][1] /\ 1 \in DOMAIN Plan[k]
  BY <1>1, NewJobType, Order DEF Phase
<1>3. Working(k)' /\ Moves(k) /\ job' \in [Kinds -> JobRecords \union {Idle}]
  BY <1>1, NewJobType DEF Working, Moves, TypeOK
<1> QED
  BY <1>1, <1>2, <1>3, NewJobType, Order DEF StartJob

LEMMA LoadEffect ==
    ASSUME TypeOK, NEW c \in Campaigns, LoadDoc(c)
    PROVE  /\ doc' \in [Campaigns -> Docs \union {NoDoc}] /\ doc'[c] # NoDoc
           /\ \A b \in Campaigns \ {c} : doc'[b] = doc[b]
           /\ loader # NoLoad /\ loader' \in Loads
           /\ UNCHANGED <<day, row, click, job, due, owner, faults, allowed>>
<1>1. loader \in [rows : [Campaigns -> Rows], todo : SUBSET Campaigns]
  BY DEF LoadDoc, TypeOK, Loads
<1>2. loader.rows[c] \in Rows
  BY <1>1
<1>3. PICK d \in Docs : d = [status |-> loader.rows[c].status, daily |-> loader.rows[c].daily,
                             total |-> loader.rows[c].total]
  BY <1>2 DEF Rows, Docs
<1>4. DocIs(c, d)
  BY <1>3, DocEffect DEF LoadDoc
<1>5. [loader EXCEPT !.todo = loader.todo \ {c}] \in Loads /\ NoLoad \in Loads
  BY <1>1 DEF Loads
<1> QED
  BY <1>4, <1>5, DocNotNone DEF LoadDoc, DocIs

LEMMA RestartEffect ==
    ASSUME TypeOK, Restart
    PROVE  /\ job' = [k \in Kinds |-> Idle] /\ \A k \in Kinds : ~Working(k)'
           /\ click' \in [Clicks -> ClickRecords \union {NewClick}]
           /\ owner' = IF Asked THEN Over ELSE owner
           /\ loader' \in Loads /\ faults' \in 0..MaxFaults
           /\ May("restart")
           /\ UNCHANGED <<day, row, doc, due, allowed>>
<1>1. ASSUME NEW r \in ClickRecords
      PROVE  [r EXCEPT !.at = "dead"] \in ClickRecords
  BY DEF ClickRecords
<1>2. click' \in [Clicks -> ClickRecords \union {NewClick}]
  BY <1>1, ClickType DEF Restart, TypeOK, InHand, NewClick
<1>3. loader' \in Loads
  BY DEF Restart, Loads, TypeOK
<1>4. faults' \in 0..MaxFaults
  BY SettlementAssumption DEF Restart, TypeOK
<1> QED
  BY <1>2, <1>3, <1>4 DEF Restart, Working

LEMMA FailEffect ==
    ASSUME TypeOK, NEW k \in Kinds, Fail(k)
    PROVE  /\ job' \in [Kinds -> JobRecords \union {Idle}] /\ ~Working(k)' /\ Moves(k)
           /\ May("fault") /\ faults' \in 0..MaxFaults
           /\ UNCHANGED <<day, row, doc, click, due, owner, loader, allowed>>
<1>1. faults' \in 0..MaxFaults
  BY SettlementAssumption DEF Fail, TypeOK
<1> QED
  BY <1>1, ThrowEffect DEF Fail

LEMMA JobsTyped ==
    ASSUME TypeOK, NEW k \in Kinds, job' \in [Kinds -> JobRecords \union {Idle}], Moves(k),
           Working(k)' => job'[k].pc \in DOMAIN Plan[k]
    PROVE  \A j \in Kinds : job'[j] # Idle => job'[j].pc \in DOMAIN Plan[j]
BY DEF TypeOK, Moves, Working

LEMMA TypesKept ==
    ASSUME TypeOK, Lawful, [Next]_vars
    PROVE  TypeOK'
<1>1. CASE Midnight
  <2>1. day' \in Days
    BY <1>1, SettlementAssumption DEF Midnight, TypeOK, Days
  <2>2. due' \subseteq Once
    BY <1>1, KindsAre DEF Midnight, TypeOK, Once
  <2> QED
    BY <1>1, <2>1, <2>2 DEF Midnight, TypeOK
<1>2. CASE Restart
  <2>1. owner' \in Edits \union {NoEdit, Over}
    BY <1>2, RestartEffect DEF TypeOK
  <2> QED
    BY <1>2, <2>1, RestartEffect DEF TypeOK
<1>3. CASE OwnerStep
  BY <1>3, OwnerSteps DEF TypeOK
<1>4. ASSUME NEW c \in Campaigns, LoadDoc(c)
      PROVE  TypeOK'
  BY <1>4, LoadEffect DEF TypeOK
<1>5. ASSUME NEW c \in Campaigns, NEW to \in {"ACTIVE", "PAUSED", "deleted"}, Ask(c, to)
      PROVE  TypeOK'
  BY <1>5 DEF Ask, TypeOK, Edits
<1>6. ASSUME NEW c \in Campaigns, NEW k \in Clicks, Bill(k, c)
      PROVE  TypeOK'
  BY <1>6, BillEffect DEF TypeOK, DocCounted, DocIs
<1>7. ASSUME NEW k \in Clicks, ClickStep(k) \/ Crash(k)
      PROVE  TypeOK'
  BY <1>7, ClickSteps DEF TypeOK, RowCounted
<1>8. ASSUME NEW k \in Kinds, StartJob(k)
      PROVE  TypeOK'
  <2>1. due' \subseteq Once
    BY <1>8, StartEffect DEF TypeOK
  <2> QED
    BY <1>8, <2>1, StartEffect, JobsTyped DEF TypeOK
<1>9. ASSUME NEW k \in Kinds, JobStep(k)
      PROVE  TypeOK'
  BY <1>9, JobSteps, JobsTyped DEF TypeOK, JobFrame
<1>10. ASSUME NEW k \in Kinds, Fail(k)
       PROVE  TypeOK'
  BY <1>10, FailEffect, JobsTyped DEF TypeOK
<1>11. CASE UNCHANGED vars
  BY <1>11 DEF vars, TypeOK
<1> QED
  BY <1>1, <1>2, <1>3, <1>4, <1>5, <1>6, <1>7, <1>8, <1>9, <1>10, <1>11, Cases

LEMMA LawfulKept ==
    ASSUME TypeOK, Lawful, [Next]_vars
    PROVE  Lawful'
<1>1. CASE Midnight
  BY <1>1 DEF Midnight, Lawful, May, Asked, Working
<1>2. CASE Restart
  BY <1>2, RestartEffect, Owner DEF Lawful, May, Asked, Over, NoEdit, Once, TypeOK
<1>3. CASE OwnerStep
  <2>1. PICK o \in Edits \union {Over} : o = owner'
    BY <1>3, OwnerSteps
  <2>2. Asked' <=> o \in Edits
    BY <2>1 DEF Asked, Edits, NoEdit, Over
  <2>3. \A c \in Campaigns : doc'[c] = NoDoc => May("delete") /\ o.at \in {"dropped", "over"}
    BY <1>3, <2>1, OwnerSteps, Owner, DocNotNone DEF Lawful, StatusIs, DocIs, Over
  <2>4. o \in Edits => May(IF o.to = "deleted" THEN "delete" ELSE "edit")
    BY <1>3, <2>1, OwnerSteps DEF Lawful, Over, Edits
  <2>5. (o.at = "saved" => o.to # "deleted") /\ (o.at = "dropped" => o.to = "deleted")
    BY <1>3, <2>1, OwnerSteps DEF Lawful, Over, Edits
  <2> QED
    BY <1>3, <2>1, <2>2, <2>3, <2>4, <2>5, OwnerSteps DEF Lawful, May, Working
<1>4. ASSUME NEW c \in Campaigns, LoadDoc(c)
      PROVE  Lawful'
  BY <1>4, LoadEffect DEF Lawful, May, Asked, Working
<1>5. ASSUME NEW c \in Campaigns, NEW to \in {"ACTIVE", "PAUSED", "deleted"}, Ask(c, to)
      PROVE  Lawful'
  BY <1>5, Owner DEF Lawful, May, Asked, Working, Ask, NoEdit, Over
<1>6. ASSUME NEW c \in Campaigns, NEW k \in Clicks, Bill(k, c)
      PROVE  Lawful'
  <2>1. \A b \in Campaigns : doc'[b] = NoDoc <=> doc[b] = NoDoc
    BY <1>6, BillEffect, DocNotNone DEF DocCounted, DocIs
  <2> QED
    BY <1>6, <2>1, BillEffect DEF Lawful, May, Asked, Working
<1>7. ASSUME NEW k \in Clicks, ClickStep(k) \/ Crash(k)
      PROVE  Lawful'
  BY <1>7, ClickSteps DEF Lawful, May, Asked, Working
<1>8. ASSUME NEW k \in Kinds, StartJob(k)
      PROVE  Lawful'
  BY <1>8, StartEffect DEF Lawful, May, Asked, Working, Moves, Once
<1>9. ASSUME NEW k \in Kinds, JobStep(k)
      PROVE  Lawful'
  BY <1>9, JobSteps DEF Lawful, May, Asked, Working, Moves, JobFrame, Once
<1>10. ASSUME NEW k \in Kinds, Fail(k)
       PROVE  Lawful'
  BY <1>10, FailEffect DEF Lawful, May, Asked, Working, Moves, Once
<1>11. CASE UNCHANGED vars
  BY <1>11 DEF vars, Lawful, May, Asked, Working
<1> QED
  BY <1>1, <1>2, <1>3, <1>4, <1>5, <1>6, <1>7, <1>8, <1>9, <1>10, <1>11, Cases

LEMMA ExclusiveKept ==
    ASSUME TypeOK, Lawful, Exclusive, [Next]_vars
    PROVE  Exclusive'
<1>1. CASE Midnight
  BY <1>1 DEF Midnight, Exclusive, May, Asked, Working, Quiet
<1>2. CASE Restart
  BY <1>2, RestartEffect DEF Exclusive, Quiet
<1>3. CASE OwnerStep
  BY <1>3, OwnerSteps DEF Exclusive, May, Working, Quiet
<1>4. ASSUME NEW c \in Campaigns, LoadDoc(c)
      PROVE  Exclusive'
  BY <1>4, LoadEffect DEF Exclusive, May, Asked, Working, Quiet
<1>5. ASSUME NEW c \in Campaigns, NEW to \in {"ACTIVE", "PAUSED", "deleted"}, Ask(c, to)
      PROVE  Exclusive'
  BY <1>5 DEF Exclusive, May, Working, Quiet, Ask
<1>6. ASSUME NEW c \in Campaigns, NEW k \in Clicks, Bill(k, c)
      PROVE  Exclusive'
  BY <1>6, BillEffect DEF Exclusive, May, Asked, Working, Quiet
<1>7. ASSUME NEW k \in Clicks, ClickStep(k) \/ Crash(k)
      PROVE  Exclusive'
  BY <1>7, ClickSteps DEF Exclusive, May, Asked, Working, Quiet
<1>8. ASSUME NEW k \in Kinds, StartJob(k)
      PROVE  Exclusive'
  BY <1>8, StartEffect DEF Exclusive, May, Asked, Working, Quiet, Moves
<1>9. ASSUME NEW k \in Kinds, JobStep(k)
      PROVE  Exclusive'
  BY <1>9, JobSteps DEF Exclusive, May, Asked, Working, Quiet, Moves, JobFrame
<1>10. ASSUME NEW k \in Kinds, Fail(k)
       PROVE  Exclusive'
  BY <1>10, FailEffect DEF Exclusive, May, Asked, Working, Quiet, Moves
<1>11. CASE UNCHANGED vars
  BY <1>11 DEF vars, Exclusive, May, Asked, Working, Quiet
<1> QED
  BY <1>1, <1>2, <1>3, <1>4, <1>5, <1>6, <1>7, <1>8, <1>9, <1>10, <1>11, Cases

-----------------------------------------------------------------------------
\* The clicks of c that are logged or about to be.
Counted(c) == {k \in Clicks : /\ click[k] # NewClick /\ click[k].campaign = c
                              /\ click[k].day # None \/ click[k].at = "billed"}

(***************************************************************************)
(* The document counts every click that was billed; between the sums of a  *)
(* job and their use no click is billed and not logged, so that what the   *)
(* job is going to write is what is logged.                                *)
(***************************************************************************)
Covered ==
    /\ \A c \in Campaigns : doc[c] # NoDoc => doc[c].total >= Cost * Cardinality(Counted(c))
    /\ \A k \in Kinds : Summing(k) => ~UnloggedClick
    /\ \A k \in Kinds : InPhase(k, "lock") \/ InPhase(k, "replace") =>
          \A c \in Campaigns : job[k].total[c] = Logged(c)

LEMMA CostOfMore ==
    ASSUME NEW S \in SUBSET Clicks
    PROVE  /\ Cardinality(S) \in Nat /\ Cost * Cardinality(S) \in Nat
           /\ \A T \in SUBSET S : Cost * Cardinality(T) <= Cost * Cardinality(S)
           /\ \A k \in Clicks \ S : Cost * Cardinality(S \union {k}) = Cost * Cardinality(S) + Cost
<1>1. Cost \in Nat
  BY SettlementAssumption
<1>2. IsFiniteSet(S)
  BY SettlementAssumption, FS_Subset
<1>3. Cardinality(S) \in Nat
  BY <1>2, FS_CardinalityType
<1>4. ASSUME NEW m \in Nat, NEW n \in Nat, m <= n
      PROVE  Cost * m \in Nat /\ Cost * n \in Nat /\ Cost * m <= Cost * n
  <2>1. PICK d \in Nat : n = m + d
    <3>1. n - m \in Nat /\ n = m + (n - m)
      BY <1>4
    <3> QED
      BY <3>1
  <2>2. Cost * n = Cost * m + Cost * d /\ Cost * m \in Nat /\ Cost * d \in Nat
    BY <1>1, <2>1
  <2> QED
    BY <2>2
<1>5. ASSUME NEW T \in SUBSET S
      PROVE  Cost * Cardinality(T) <= Cost * Cardinality(S)
  <2>1. Cardinality(T) \in Nat /\ Cardinality(T) <= Cardinality(S)
    BY <1>2, FS_Subset, FS_CardinalityType
  <2> QED
    BY <1>3, <1>4, <2>1
<1>6. ASSUME NEW k \in Clicks \ S
      PROVE  Cost * Cardinality(S \union {k}) = Cost * Cardinality(S) + Cost
  <2>1. Cardinality(S \union {k}) = Cardinality(S) + 1
    BY <1>2, FS_AddElement
  <2> QED
    BY <1>1, <1>3, <2>1
<1> QED
  BY <1>1, <1>3, <1>4, <1>5, <1>6

LEMMA CountedOnce ==
    ASSUME NEW c \in Campaigns
    PROVE  /\ Logged(c) <= Cost * Cardinality(Counted(c))
           /\ ~UnloggedClick => Logged(c) = Cost * Cardinality(Counted(c))
<1> DEFINE S == {k \in Clicks : click[k] # NewClick /\ click[k].campaign = c /\ click[k].day # None}
<1>1. Logged(c) = Cost * Cardinality(S)
  BY DEF Logged
<1>2. Counted(c) \in SUBSET Clicks /\ S \in SUBSET Counted(c)
  BY DEF Counted
<1>3. ~UnloggedClick => S = Counted(c)
  BY DEF Counted, UnloggedClick
<1> HIDE DEF S
<1> QED
  BY <1>1, <1>2, <1>3, CostOfMore

\* A step that touches no click and no total.
LEMMA SameClicks ==
    ASSUME click' = click, NEW c \in Campaigns
    PROVE  Counted(c)' = Counted(c) /\ Logged(c)' = Logged(c) /\ (UnloggedClick' <=> UnloggedClick)
BY DEF Counted, Logged, UnloggedClick

SameTotals == \A c \in Campaigns : doc'[c] # NoDoc => doc[c] # NoDoc /\ doc'[c].total = doc[c].total

LEMMA TotalsKept ==
    ASSUME NEW c \in Campaigns,
           \/ doc' = doc
           \/ \E status \in Statuses : StatusIs(c, status)
           \/ DocCounted(c) /\ doc'[c].total = doc[c].total
           \/ doc'[c] = NoDoc /\ \A b \in Campaigns \ {c} : doc'[b] = doc[b]
    PROVE  SameTotals
BY DEF SameTotals, StatusIs, DocCounted, DocIs

\* Where the sums of a job come from.
SumsKept(k) ==
    /\ Moves(k)
    /\ Summing(k)' => Summing(k) \/ ~UnloggedClick
    /\ InPhase(k, "lock")' \/ InPhase(k, "replace")' =>
          \/ (InPhase(k, "lock") \/ InPhase(k, "replace")) /\ job'[k].total = job[k].total
          \/ \A c \in Campaigns : job'[k].total[c] = Logged(c)

LEMMA JobSums ==
    ASSUME TypeOK, NEW k \in Kinds, JobStep(k), ~May("race")
    PROVE  SumsKept(k)
<1>1. ASSUME NEW r \in JobRecords, Onward(k, r), Working(k)'
      PROVE  /\ job'[k].total = r.total
             /\ Phase(k)' = "replace" => Phase(k) = "lock"
             /\ Phase(k)' = "lock" => Phase(k) = "sumAll"
             /\ Phase(k)' = "sumAll" => Phase(k) = "sum"
  <2>1. /\ job[k].pc \in 1..Len(Plan[k]) /\ job[k].pc # Len(Plan[k])
        /\ Phase(k)' = Plan[k][job[k].pc + 1] /\ job'[k].total = r.total
    BY <1>1, JobType, Order DEF Onward
  <2>2. /\ Plan[k][job[k].pc + 1] = "replace" => Plan[k][job[k].pc] = "lock"
        /\ Plan[k][job[k].pc + 1] = "lock" => Plan[k][job[k].pc] = "sumAll"
        /\ Plan[k][job[k].pc + 1] = "sumAll" => Plan[k][job[k].pc] = "sum"
    BY <2>1, Order DEF Before
  <2> QED
    BY <2>1, <2>2 DEF Phase
<1>2. CASE Load(k) \/ ResetRows(k) \/ Find(k)
  <2>1. PICK r \in JobRecords : Onward(k, r)
    BY <1>2, OnwardSteps, JobType DEF ResetRows, Find, InPhase
  <2>2. Phase(k) \in {"load", "resetRows", "find"} /\ Moves(k)
    BY <1>2, <2>1 DEF Load, ResetRows, Find, InPhase, Onward
  <2> QED
    BY <1>1, <2>1, <2>2 DEF SumsKept, Summing, InPhase, Working
<1>3. CASE NextPhase(k)
  <2>1. Onward(k, job[k]) /\ job[k] \in JobRecords
    BY <1>3, OnwardSteps, JobType DEF NextPhase
  <2>2. Phase(k) \notin {"sum", "sumAll"} /\ Moves(k) /\ Working(k)
    BY <1>3, <2>1 DEF NextPhase, Onward
  <2> QED
    BY <1>1, <2>1, <2>2 DEF SumsKept, Summing, InPhase, Working
<1>4. CASE SumDay(k)
  <2>1. PICK r \in JobRecords : Onward(k, r)
    BY <1>4, OnwardSteps
  <2>2. Phase(k) = "sum" /\ ~UnloggedClick /\ Moves(k)
    BY <1>4, <2>1 DEF SumDay, InPhase, Onward
  <2> QED
    BY <1>1, <2>1, <2>2 DEF SumsKept, Summing, InPhase, Working
<1>5. CASE SumAll(k)
  <2>1. PICK r \in JobRecords : Onward(k, r) /\ \A c \in Campaigns : r.total[c] = Logged(c)
    BY <1>5, OnwardSteps
  <2>2. Phase(k) = "sumAll" /\ ~UnloggedClick /\ Moves(k)
    BY <1>5, <2>1 DEF SumAll, InPhase, Onward
  <2> QED
    BY <1>1, <2>1, <2>2 DEF SumsKept, Summing, InPhase, Working
<1>6. ASSUME NEW c \in Campaigns, NEW progress, NEW held, Within(k, c, progress, held)
      PROVE  SumsKept(k)
  BY <1>6 DEF Within, SumsKept, Summing, InPhase, Working
<1>7. ASSUME Working(k), Throw(k)
      PROVE  SumsKept(k)
  BY <1>7, ThrowEffect DEF SumsKept, Summing, InPhase
<1>8. ASSUME NEW c \in Campaigns,
             \/ StopInRedis(k, c) \/ StopInMySQL(k, c)
             \/ StartInMySQL(k, c) \/ StartInRedis(k, c)
             \/ ReadForLock(k, c) \/ Lock(k, c) \/ ReadForUnlock(k, c) \/ Unlock(k, c)
             \/ LockForReset(k, c) \/ UnlockAfterReset(k, c) \/ ResetDoc(k, c)
             \/ ReadForReplace(k, c) \/ ReplaceRow(k, c) \/ ReplaceDoc(k, c)
      PROVE  SumsKept(k)
  <2>1. Working(k)
    BY JobSteps DEF JobFrame
  <2> QED
    BY <1>6, <1>7, <1>8, <2>1, WithinSteps
<1> QED
  BY <1>2, <1>3, <1>4, <1>5, <1>8 DEF JobStep

LEMMA JobTotals ==
    ASSUME TypeOK, NEW k \in Kinds, JobStep(k)
    PROVE  \/ SameTotals
           \/ \E c \in Campaigns : /\ InPhase(k, "replace") /\ DocCounted(c)
                                   /\ doc'[c].total = job[k].total[c]
<1>1. \A phase \in DOMAIN Target : Target[phase] \in Statuses
  BY DEF Target, Statuses
<1>2. {"ACTIVE", "PAUSED"} \subseteq Statuses
  BY DEF Statuses
<1>3. doc' = doc => SameTotals
  BY DEF SameTotals
<1>4. CASE Load(k) \/ SumDay(k) \/ SumAll(k) \/ ResetRows(k) \/ Find(k) \/ NextPhase(k)
  BY <1>3, <1>4 DEF Load, SumDay, SumAll, ResetRows, Find, NextPhase, OnlyJob, JobAndRow
<1>5. ASSUME NEW c \in Campaigns, StopInRedis(k, c)
      PROVE  SameTotals
  BY <1>1, <1>5, TotalsKept, DocSteps DEF StopInRedis
<1>6. ASSUME NEW c \in Campaigns, StartInRedis(k, c) \/ ResetDoc(k, c)
      PROVE  SameTotals
  BY <1>2, <1>6, TotalsKept, DocSteps
<1>7. ASSUME NEW c \in Campaigns, Lock(k, c) \/ LockForReset(k, c) \/ Unlock(k, c) \/ UnlockAfterReset(k, c)
      PROVE  SameTotals
  BY <1>2, <1>7, TotalsKept, WithinSteps
<1>8. ASSUME NEW c \in Campaigns,
             StopInMySQL(k, c) \/ StartInMySQL(k, c) \/ ReadForLock(k, c) \/ ReadForUnlock(k, c)
                 \/ ReadForReplace(k, c) \/ ReplaceRow(k, c)
      PROVE  SameTotals
  BY <1>3, <1>8, DocSteps
<1>9. ASSUME NEW c \in Campaigns, ReplaceDoc(k, c)
      PROVE  \/ SameTotals
             \/ InPhase(k, "replace") /\ DocCounted(c) /\ doc'[c].total = job[k].total[c]
  BY <1>3, <1>9, DocSteps DEF ReplaceDoc, At
<1> QED
  BY <1>4, <1>5, <1>6, <1>7, <1>8, <1>9 DEF JobStep

\* Then no click falls between the sums of a job and their use.
NoRaces == allowed \intersect {"race", "restart"} = {}

LEMMA CoveredKept ==
    ASSUME TypeOK, Lawful, NoRaces, Covered, [Next]_vars
    PROVE  Covered'
<1>1. ~May("race") /\ ~May("restart") /\ loader = NoLoad
  BY DEF NoRaces, May, Lawful
<1>2. ASSUME click' = click, SameTotals, UNCHANGED job
      PROVE  Covered'
  <2>1. \A c \in Campaigns : doc'[c] # NoDoc => doc'[c].total >= Cost * Cardinality(Counted(c)')
    BY <1>2, SameClicks DEF Covered, SameTotals
  <2>2. /\ UnloggedClick' <=> UnloggedClick
        /\ \A j \in Kinds : /\ Summing(j)' <=> Summing(j)
                            /\ InPhase(j, "lock")' <=> InPhase(j, "lock")
                            /\ InPhase(j, "replace")' <=> InPhase(j, "replace")
    BY <1>2 DEF Summing, Working, Phase, InPhase, UnloggedClick
  <2>3. ASSUME NEW j \in Kinds, InPhase(j, "lock") \/ InPhase(j, "replace"), NEW c \in Campaigns
        PROVE  job'[j].total[c] = Logged(c)'
    BY <1>2, <2>3, SameClicks DEF Covered
  <2> QED
    BY <2>1, <2>2, <2>3 DEF Covered
<1>3. ASSUME click' = click, SameTotals, NEW k \in Kinds, SumsKept(k)
      PROVE  Covered'
  <2>1. \A c \in Campaigns : doc'[c] # NoDoc => doc'[c].total >= Cost * Cardinality(Counted(c)')
    BY <1>3, SameClicks DEF Covered, SameTotals
  <2>2. ASSUME NEW j \in Kinds, Summing(j)'
        PROVE  ~UnloggedClick'
    <3>1. Summing(j) \/ ~UnloggedClick
      <4>1. CASE j = k
        BY <1>3, <2>2, <4>1 DEF SumsKept
      <4>2. CASE j # k
        <5>1. job'[j] = job[j]
          BY <1>3, <4>2 DEF SumsKept, Moves
        <5> QED
          BY <2>2, <5>1 DEF Summing, Working, Phase
      <4> QED
        BY <4>1, <4>2
    <3> QED
      BY <1>3, <3>1 DEF Covered, UnloggedClick
  <2>3. ASSUME NEW j \in Kinds, InPhase(j, "lock")' \/ InPhase(j, "replace")', NEW c \in Campaigns
        PROVE  job'[j].total[c] = Logged(c)'
    BY <1>3, <2>3, SameClicks DEF Covered, SumsKept, Moves, InPhase, Working, Phase
  <2> QED
    BY <2>1, <2>2, <2>3 DEF Covered
<1>4. CASE Midnight
  BY <1>2, <1>4 DEF Midnight, SameTotals
<1>5. ~Restart
  BY <1>1 DEF Restart
<1>6. CASE OwnerStep
  <2>1. SameTotals
    <3>1. owner.campaign \in Campaigns /\ owner.to \in {"ACTIVE", "PAUSED", "deleted"}
      BY <1>6, OwnerSteps, Owner
    <3>2. owner.at = "saved" => owner.to # "deleted"
      BY DEF Lawful
    <3>3. {"ACTIVE", "PAUSED"} \subseteq Statuses
      BY DEF Statuses
    <3> QED
      BY <1>6, <3>1, <3>2, <3>3, OwnerSteps, TotalsKept
  <2> QED
    BY <1>2, <1>6, <2>1, OwnerSteps
<1>7. ASSUME NEW c \in Campaigns
      PROVE  ~LoadDoc(c)
  BY <1>1 DEF LoadDoc
<1>8. ASSUME NEW c \in Campaigns, NEW to \in {"ACTIVE", "PAUSED", "deleted"}, Ask(c, to)
      PROVE  Covered'
  BY <1>2, <1>8 DEF Ask, SameTotals
<1>9. ASSUME NEW c \in Campaigns, NEW k \in Clicks, Bill(k, c)
      PROVE  Covered'
  <2>1. PICK r \in ClickRecords : /\ click' = [click EXCEPT ![k] = r]
                                  /\ r.at = "billed" /\ r.campaign = c /\ r.day = None
    BY <1>9, BillEffect
  <2>2. /\ click[k] = NewClick /\ job' = job
        /\ \A j \in Kinds : ~Summing(j)
    BY <1>1, <1>9, BillEffect DEF Bill
  <2>3. click' \in [Clicks -> ClickRecords \union {NewClick}] /\ click'[k] = r
    BY <2>1 DEF TypeOK
  <2>4. \A i \in Clicks \ {k} : click'[i] = click[i]
    BY <2>1 DEF TypeOK
  <2>5. r # NewClick
    BY <2>1 DEF NewClick
  <2>6. Counted(c)' = Counted(c) \union {k} /\ k \notin Counted(c)
    BY <2>1, <2>2, <2>3, <2>4, <2>5 DEF Counted
  <2>7. \A b \in Campaigns \ {c} : Counted(b)' = Counted(b)
    BY <2>1, <2>2, <2>3, <2>4, <2>5 DEF Counted
  <2>8. ASSUME NEW b \in Campaigns, doc'[b] # NoDoc
        PROVE  doc'[b].total >= Cost * Cardinality(Counted(b)')
    <3>1. CASE b = c
      <4>1. /\ doc[c] # NoDoc /\ doc'[c].total = doc[c].total + Cost
            /\ doc[c].total >= Cost * Cardinality(Counted(c))
        BY <1>9, BillEffect DEF Covered, DocCounted
      <4>2. doc[c].total \in Nat /\ Cost \in Nat
        BY <4>1, SettlementAssumption DEF TypeOK, Docs
      <4>3. Counted(c) \in SUBSET Clicks
        BY DEF Counted
      <4>4. /\ Cost * Cardinality(Counted(c)) \in Nat
            /\ Cost * Cardinality(Counted(c)') = Cost * Cardinality(Counted(c)) + Cost
        BY <2>6, <4>3, CostOfMore
      <4> QED
        BY <3>1, <4>1, <4>2, <4>4
    <3>2. CASE b # c
      BY <1>9, <2>7, <2>8, <3>2, BillEffect DEF Covered, DocCounted, DocIs
    <3> QED
      BY <3>1, <3>2
  <2>9. \A j \in Kinds : ~Summing(j)' /\ ~InPhase(j, "lock")' /\ ~InPhase(j, "replace")'
    BY <2>2 DEF Summing, InPhase, Working, Phase
  <2> QED
    BY <2>8, <2>9 DEF Covered
<1>10. ASSUME NEW k \in Clicks, ClickStep(k) \/ Crash(k)
       PROVE  Covered'
  <2>1. /\ click[k] # NewClick /\ UNCHANGED <<doc, job>>
        /\ \E r \in ClickRecords : /\ click' = [click EXCEPT ![k] = r]
                                   /\ r.campaign = click[k].campaign
                                   /\ r.at # "billed"
                                   /\ \/ r.day = click[k].day
                                      \/ /\ SaveClickLog(k) /\ click[k].at = "billed"
                                         /\ r.day \in Days /\ UNCHANGED row
    BY <1>10, ClickSteps
  <2>2. PICK r \in ClickRecords : /\ click' = [click EXCEPT ![k] = r]
                                  /\ r.campaign = click[k].campaign
                                  /\ r.at # "billed"
                                  /\ \/ r.day = click[k].day
                                     \/ SaveClickLog(k) /\ click[k].at = "billed"
    BY <2>1
  <2>3. click'[k] = r /\ \A i \in Clicks \ {k} : click'[i] = click[i]
    BY <2>2 DEF TypeOK
  <2>4. r # NewClick
    BY DEF ClickRecords, NewClick
  <2>5. \A b \in Campaigns : Counted(b)' \subseteq Counted(b)
    BY <2>1, <2>2, <2>3 DEF Counted
  <2>6. ASSUME NEW b \in Campaigns, doc'[b] # NoDoc
        PROVE  doc'[b].total >= Cost * Cardinality(Counted(b)')
    <3>1. doc[b].total >= Cost * Cardinality(Counted(b)) /\ doc'[b].total = doc[b].total /\ doc[b].total \in Nat
      BY <2>1, <2>6 DEF Covered, TypeOK, Docs
    <3>2. Counted(b) \in SUBSET Clicks
      BY DEF Counted
    <3>3. /\ Cost * Cardinality(Counted(b)) \in Nat /\ Cost * Cardinality(Counted(b)') \in Nat
          /\ Cost * Cardinality(Counted(b)') <= Cost * Cardinality(Counted(b))
      BY <2>5, <3>2, CostOfMore
    <3> QED
      BY <3>1, <3>3
  <2>7. UnloggedClick' => UnloggedClick
    BY <2>2, <2>3 DEF UnloggedClick
  <2>8. ASSUME NEW j \in Kinds, InPhase(j, "lock") \/ InPhase(j, "replace"), NEW c \in Campaigns
        PROVE  Logged(c)' = Logged(c)
    <3>1. Summing(j)
      BY <2>8 DEF InPhase, Summing
    <3>2. r.day = click[k].day
      BY <1>1, <2>2, <3>1 DEF SaveClickLog
    <3>3. {i \in Clicks : click'[i] # NewClick /\ click'[i].campaign = c /\ click'[i].day # None}
            = {i \in Clicks : click[i] # NewClick /\ click[i].campaign = c /\ click[i].day # None}
      BY <2>1, <2>2, <2>3, <2>4, <3>2
    <3> QED
      BY <3>3 DEF Logged
  <2> QED
    BY <2>1, <2>6, <2>7, <2>8 DEF Covered, Summing, InPhase, Working, Phase
<1>11. ASSUME NEW k \in Kinds, StartJob(k)
       PROVE  Covered'
  <2>1. SumsKept(k)
    BY <1>11, StartEffect DEF SumsKept, Summing, InPhase
  <2>2. SameTotals /\ click' = click
    BY <1>11, StartEffect DEF SameTotals
  <2> QED
    BY <1>3, <2>1, <2>2
<1>12. ASSUME NEW k \in Kinds, JobStep(k)
       PROVE  Covered'
  <2>1. SumsKept(k) /\ click' = click
    BY <1>1, <1>12, JobSums, JobSteps DEF JobFrame
  <2>2. ASSUME NEW c \in Campaigns, InPhase(k, "replace"), DocCounted(c), doc'[c].total = job[k].total[c]
        PROVE  Covered'
    <3>1. ~UnloggedClick /\ job[k].total[c] = Logged(c)
      BY <2>2 DEF Covered, InPhase, Summing
    <3>2. doc'[c].total = Cost * Cardinality(Counted(c)) /\ doc'[c].total \in Nat
      BY <2>2, <3>1, CountedOnce DEF DocCounted, DocIs, Docs
    <3>3. \A b \in Campaigns : doc'[b] # NoDoc => doc'[b].total >= Cost * Cardinality(Counted(b)')
      BY <2>1, <2>2, <3>2, SameClicks DEF Covered, DocCounted, DocIs
    <3>4. ASSUME NEW j \in Kinds, Summing(j)'
          PROVE  ~UnloggedClick'
      BY <2>1, <3>1, SameClicks
    <3>5. ASSUME NEW j \in Kinds, InPhase(j, "lock")' \/ InPhase(j, "replace")', NEW b \in Campaigns
          PROVE  job'[j].total[b] = Logged(b)'
      BY <2>1, <3>5, SameClicks DEF Covered, SumsKept, Moves, InPhase, Working, Phase
    <3> QED
      BY <3>3, <3>4, <3>5 DEF Covered
  <2> QED
    BY <1>3, <1>12, <2>1, <2>2, JobTotals
<1>13. ASSUME NEW k \in Kinds, Fail(k)
       PROVE  Covered'
  <2>1. SumsKept(k)
    BY <1>13, FailEffect DEF SumsKept, Summing, InPhase
  <2>2. SameTotals /\ click' = click
    BY <1>13, FailEffect DEF SameTotals
  <2> QED
    BY <1>3, <2>1, <2>2
<1>14. CASE UNCHANGED vars
  BY <1>2, <1>14 DEF vars, SameTotals
<1> QED
  BY <1>4, <1>5, <1>6, <1>7, <1>8, <1>9, <1>10, <1>11, <1>12, <1>13, <1>14, Cases

-----------------------------------------------------------------------------
\* Campaigns that job k holds, or is about to.
Grips(k, c) ==
    /\ Working(k)
    /\ c \in job[k].held \/ At(k, "lock", c, "half") \/ At(k, "unlock", c, "half")

(***************************************************************************)
(* An ACTIVE document has an ACTIVE row, and so has a campaign that a job  *)
(* is going to make ACTIVE again; what the owner paused is PAUSED.         *)
(***************************************************************************)
ActiveOnly ==
    /\ \A c \in Campaigns :
          doc[c] # NoDoc /\ doc[c].status = "ACTIVE" => row[c].status = "ACTIVE"
    /\ owner.at \in {"paused", "saved"} => doc[owner.campaign].status = "PAUSED"
    /\ owner.at = "saved" => row[owner.campaign].status = owner.to
    /\ \A k \in Kinds, c \in Campaigns : Grips(k, c) => row[c].status = "ACTIVE"

\* Then reconciliation and the migration are the only jobs, one at a time.
NoSnapshots == allowed \intersect {"nightly", "manual", "overlap", "restart"} = {}

LEMMA Reconciling ==
    ASSUME TypeOK, Lawful, NoSnapshots, NEW k \in Kinds, Working(k)
    PROVE  Phase(k) \in {"sum", "sumAll", "lock", "replace", "unlock"}
<1>1. k \in {"hourly", "migrate"}
  BY KindsAre DEF Lawful, NoSnapshots, May, Once
<1>2. job[k].pc \in DOMAIN Plan[k]
  BY JobType
<1>3. CASE k = "hourly"
  BY <1>2, <1>3, Plans DEF Phase
<1>4. CASE k = "migrate"
  BY <1>2, <1>4, Plans DEF Phase
<1> QED
  BY <1>1, <1>3, <1>4

RowStatusKept == \A b \in Campaigns : row'[b].status = row[b].status

\* What reconciliation may do to statuses.
LEMMA ReconcileSteps ==
    ASSUME TypeOK, NEW k \in Kinds, JobStep(k),
           Phase(k) \in {"sum", "sumAll", "lock", "replace", "unlock"}
    PROVE  /\ RowStatusKept
           /\ \A b \in Campaigns : Grips(k, b)' => Grips(k, b) \/ (doc[b] # NoDoc /\ doc[b].status = "ACTIVE")
           /\ \A b \in Campaigns : doc'[b] # NoDoc /\ doc'[b].status = "ACTIVE" =>
                 \/ doc[b] # NoDoc /\ doc[b].status = "ACTIVE"
                 \/ Grips(k, b)
<1> DEFINE Grip == \A b \in Campaigns : Grips(k, b)' => Grips(k, b) \/ (doc[b] # NoDoc /\ doc[b].status = "ACTIVE")
           Active == \A b \in Campaigns : doc'[b] # NoDoc /\ doc'[b].status = "ACTIVE" =>
                       \/ doc[b] # NoDoc /\ doc[b].status = "ACTIVE"
                       \/ Grips(k, b)
<1>1. row' = row \/ RowCounted => RowStatusKept
  BY DEF RowStatusKept, RowCounted
<1>2. doc' = doc => Active
  OBVIOUS
<1>3. ASSUME NEW r \in JobRecords, Onward(k, r)
      PROVE  Grip
  <2>1. ASSUME NEW b \in Campaigns, Grips(k, b)'
        PROVE  b \in job[k].held /\ Working(k)
    BY <1>3, <2>1 DEF Onward, Grips, At, InPhase
  <2> QED
    BY <2>1 DEF Grips
<1>4. ASSUME NEW c \in Campaigns, NEW progress, NEW held, Within(k, c, progress, held),
             c \in held => Grips(k, c) \/ (doc[c] # NoDoc /\ doc[c].status = "ACTIVE"),
             \A b \in Campaigns \ {c} : b \in held => b \in job[k].held,
             (progress = "half" /\ Phase(k) \in {"lock", "unlock"}) =>
                Grips(k, c) \/ (doc[c] # NoDoc /\ doc[c].status = "ACTIVE")
      PROVE  Grip
  <2>1. ASSUME NEW b \in Campaigns, Grips(k, b)', b # c
        PROVE  Grips(k, b)
    BY <1>4, <2>1 DEF Within, Grips, At, InPhase
  <2>2. ASSUME Grips(k, c)'
        PROVE  Grips(k, c) \/ (doc[c] # NoDoc /\ doc[c].status = "ACTIVE")
    BY <1>4, <2>2 DEF Within, Grips, At, InPhase
  <2> QED
    BY <2>1, <2>2
<1>5. ASSUME NEW c \in Campaigns, NEW status, StatusIs(c, status), status = "ACTIVE" => Grips(k, c)
      PROVE  Active
  BY <1>5 DEF StatusIs, DocIs
<1>6. ASSUME NEW c \in Campaigns, DocCounted(c)
      PROVE  Active
  BY <1>6 DEF DocCounted, DocIs
<1>7. ASSUME Throw(k)
      PROVE  Grip
  BY <1>7, ThrowEffect DEF Grips
<1>8. ASSUME Load(k) \/ SumDay(k) \/ SumAll(k) \/ ResetRows(k) \/ Find(k) \/ NextPhase(k)
      PROVE  RowStatusKept /\ Grip /\ Active
  <2>1. doc' = doc
    BY <1>8 DEF Load, SumDay, SumAll, ResetRows, Find, NextPhase, OnlyJob, JobAndRow
  <2>2. Working(k) /\ job[k] \in JobRecords
    BY JobSteps, JobType DEF JobFrame
  <2>3. row' = row \/ RowCounted
    BY <1>8, RowSteps
  <2>4. Grip
    <3> HIDE DEF Grip
    <3> QED
      BY <1>3, <1>8, <2>2, OnwardSteps
  <2> QED
    BY <1>1, <1>2, <2>1, <2>3, <2>4
<1>9. ASSUME NEW c \in Campaigns,
             \/ StopInRedis(k, c) \/ StopInMySQL(k, c)
             \/ StartInMySQL(k, c) \/ StartInRedis(k, c)
             \/ LockForReset(k, c) \/ UnlockAfterReset(k, c) \/ ResetDoc(k, c)
      PROVE  FALSE
  BY <1>9 DEF StopInRedis, StopInMySQL, StartInMySQL, StartInRedis, LockForReset,
              UnlockAfterReset, ResetDoc, At, InPhase, Target
<1>10. ASSUME NEW c \in Campaigns, ReadForReplace(k, c) \/ ReplaceRow(k, c) \/ ReplaceDoc(k, c)
       PROVE  RowStatusKept /\ Grip /\ Active
  <2>1. PICK progress : Within(k, c, progress, job[k].held)
    BY <1>10, WithinSteps
  <2>2. Phase(k) = "replace" /\ Working(k)
    BY <1>10 DEF ReadForReplace, ReplaceRow, ReplaceDoc, At, InPhase
  <2>3. Grip
    <3>1. c \in job[k].held => Grips(k, c)
      BY <2>2 DEF Grips
    <3> QED
      BY <1>4, <2>1, <2>2, <3>1
  <2>4. Active
    <3> HIDE DEF Active
    <3> QED
      BY <1>2, <1>6, <1>10, DocSteps
  <2> QED
    BY <1>1, <1>10, <2>3, <2>4, RowSteps
<1>11. ASSUME NEW c \in Campaigns, ReadForLock(k, c) \/ ReadForUnlock(k, c)
       PROVE  RowStatusKept /\ Grip /\ Active
  <2>1. Working(k) /\ doc' = doc /\ row' = row
    BY <1>11, DocSteps, RowSteps DEF ReadForLock, ReadForUnlock, At, InPhase
  <2>2. c \in job[k].held => Grips(k, c)
    BY <2>1 DEF Grips
  <2>3. PICK progress : /\ Within(k, c, progress, job[k].held)
                        /\ progress = "half" => c \in job[k].held \/ (doc[c] # NoDoc /\ doc[c].status = "ACTIVE")
    BY <1>11, WithinSteps
  <2>4. Grip
    BY <1>4, <2>2, <2>3
  <2> QED
    BY <1>1, <1>2, <2>1, <2>4
<1>12. ASSUME NEW c \in Campaigns, Lock(k, c) \/ Unlock(k, c)
       PROVE  RowStatusKept /\ Grip /\ Active
  <2>1. Grips(k, c) /\ row' = row
    BY <1>12, RowSteps DEF Lock, Unlock, At, InPhase, Grips
  <2>2. CASE doc[c] = NoDoc
    <3>1. doc' = doc /\ (Throw(k) \/ Within(k, c, "done", job[k].held))
      BY <1>12, <2>2, WithinSteps
    <3>2. Grip
      <4> HIDE DEF Grip
      <4> QED
        BY <1>4, <1>7, <2>1, <3>1
    <3> QED
      BY <1>1, <1>2, <2>1, <3>1, <3>2
  <2>3. CASE doc[c] # NoDoc
    <3>1. \/ Within(k, c, "done", job[k].held \union {c}) /\ StatusIs(c, "PAUSED")
          \/ Within(k, c, "done", job[k].held \ {c}) /\ StatusIs(c, "ACTIVE")
      <4>1. ~LockForReset(k, c) /\ ~UnlockAfterReset(k, c)
        BY <1>9
      <4> QED
        BY <1>12, <2>3, <4>1, WithinSteps
    <3>2. Grip
      <4> HIDE DEF Grip
      <4>1. \A b \in Campaigns \ {c} : /\ b \in job[k].held \union {c} => b \in job[k].held
                                       /\ b \in job[k].held \ {c} => b \in job[k].held
        OBVIOUS
      <4>2. CASE Within(k, c, "done", job[k].held \union {c})
        BY <1>4, <2>1, <4>1, <4>2
      <4>3. CASE Within(k, c, "done", job[k].held \ {c})
        BY <1>4, <2>1, <4>1, <4>3
      <4> QED
        BY <3>1, <4>2, <4>3
    <3>3. Active
      <4> HIDE DEF Active
      <4> QED
        BY <1>5, <2>1, <3>1
    <3> QED
      BY <1>1, <2>1, <3>2, <3>3
  <2> QED
    BY <2>2, <2>3
<1> HIDE DEF Grip, Active
<1>13. RowStatusKept /\ Grip /\ Active
  BY <1>8, <1>9, <1>10, <1>11, <1>12 DEF JobStep
<1> QED
  BY <1>13 DEF Grip, Active

LEMMA ActiveOnlyKept ==
    ASSUME TypeOK, Lawful, Exclusive, NoSnapshots, ActiveOnly, [Next]_vars
    PROVE  ActiveOnly'
<1>1. ~May("restart") /\ ~May("overlap") /\ loader = NoLoad
  BY DEF NoSnapshots, May, Lawful
<1>2. ASSUME UNCHANGED <<job, owner>>, RowStatusKept,
             \A c \in Campaigns : /\ doc'[c] = NoDoc <=> doc[c] = NoDoc
                                  /\ doc[c] # NoDoc => doc'[c].status = doc[c].status
      PROVE  ActiveOnly'
  <2>1. \A k \in Kinds, c \in Campaigns : Grips(k, c)' <=> Grips(k, c)
    BY <1>2 DEF Grips, Working, At, InPhase, Phase
  <2>2. owner.at \in {"paused", "saved"} => owner.campaign \in Campaigns /\ doc[owner.campaign] # NoDoc
    BY Owner
  <2>3. \A c \in Campaigns : doc'[c] # NoDoc /\ doc'[c].status = "ACTIVE" => row'[c].status = "ACTIVE"
    BY <1>2 DEF ActiveOnly, RowStatusKept
  <2>4. owner'.at \in {"paused", "saved"} => doc'[owner'.campaign].status = "PAUSED"
    BY <1>2, <2>2 DEF ActiveOnly
  <2>5. owner'.at = "saved" => row'[owner'.campaign].status = owner'.to
    BY <1>2, <2>2 DEF ActiveOnly, RowStatusKept
  <2>6. \A k \in Kinds, c \in Campaigns : Grips(k, c)' => row'[c].status = "ACTIVE"
    BY <1>2, <2>1 DEF ActiveOnly, RowStatusKept
  <2> QED
    BY <2>3, <2>4, <2>5, <2>6 DEF ActiveOnly
<1>3. CASE Midnight
  BY <1>2, <1>3 DEF Midnight, RowStatusKept
<1>4. ~Restart
  BY <1>1 DEF Restart
<1>5. CASE OwnerStep
  <2>1. Quiet /\ Asked
    BY <1>1, <1>5, OwnerSteps DEF Exclusive
  <2>2. \A k \in Kinds, c \in Campaigns : ~Grips(k, c)'
    BY <1>5, <2>1, OwnerSteps DEF Quiet, Grips, Working
  <2>3. owner.campaign \in Campaigns /\ owner.to \in {"ACTIVE", "PAUSED", "deleted"}
    BY <2>1, Owner
  <2>4. Over.at = "over"
    BY DEF Over
  <2>5. \A c \in Campaigns :
          doc'[c] # NoDoc /\ doc'[c].status = "ACTIVE" => row'[c].status = "ACTIVE"
    BY <1>5, <2>3, OwnerSteps DEF ActiveOnly, StatusIs, DocIs, RowStatusIs, RowCounted
  <2>6. owner'.at \in {"paused", "saved"} => doc'[owner'.campaign].status = "PAUSED"
    BY <1>5, <2>3, <2>4, OwnerSteps DEF ActiveOnly, StatusIs, DocIs
  <2>7. owner'.at = "saved" => row'[owner'.campaign].status = owner'.to
    BY <1>5, <2>3, <2>4, OwnerSteps DEF RowStatusIs
  <2> QED
    BY <2>2, <2>5, <2>6, <2>7 DEF ActiveOnly
<1>6. ASSUME NEW c \in Campaigns
      PROVE  ~LoadDoc(c)
  BY <1>1 DEF LoadDoc
<1>7. ASSUME NEW c \in Campaigns, NEW to \in {"ACTIVE", "PAUSED", "deleted"}, Ask(c, to)
      PROVE  ActiveOnly'
  <2>1. \A k \in Kinds, b \in Campaigns : Grips(k, b)' <=> Grips(k, b)
    BY <1>7 DEF Ask, Grips, Working, At, InPhase, Phase
  <2> QED
    BY <1>7, <2>1 DEF ActiveOnly, Ask
<1>8. ASSUME NEW c \in Campaigns, NEW k \in Clicks, Bill(k, c)
      PROVE  ActiveOnly'
  <2>1. \A b \in Campaigns : /\ doc'[b] = NoDoc <=> doc[b] = NoDoc
                             /\ doc[b] # NoDoc => doc'[b].status = doc[b].status
    BY <1>8, BillEffect, DocNotNone DEF DocCounted, DocIs
  <2> QED
    BY <1>2, <1>8, <2>1, BillEffect DEF RowStatusKept
<1>9. ASSUME NEW k \in Clicks, ClickStep(k) \/ Crash(k)
      PROVE  ActiveOnly'
  BY <1>2, <1>9, ClickSteps DEF RowStatusKept, RowCounted
<1>10. ASSUME NEW k \in Kinds, StartJob(k)
       PROVE  ActiveOnly'
  <2>1. ASSUME NEW j \in Kinds, NEW c \in Campaigns, Grips(j, c)'
        PROVE  Grips(j, c)
    <3>1. CASE j = k
      BY <1>10, <2>1, <3>1, StartEffect, NewJobType DEF Grips, At, InPhase
    <3>2. CASE j # k
      BY <1>10, <2>1, <3>2, StartEffect DEF Moves, Grips, Working, At, InPhase, Phase
    <3> QED
      BY <3>1, <3>2
  <2> QED
    BY <1>10, <2>1, StartEffect DEF ActiveOnly
<1>11. ASSUME NEW k \in Kinds, JobStep(k)
       PROVE  ActiveOnly'
  <2>1. Working(k) /\ Moves(k) /\ owner' = owner /\ ~Asked
    BY <1>1, <1>11, JobSteps DEF JobFrame, Exclusive, Quiet
  <2>2. Phase(k) \in {"sum", "sumAll", "lock", "replace", "unlock"}
    BY <2>1, Reconciling
  <2>3. owner'.at \notin {"paused", "saved"}
    BY <2>1, Owner
  <2>4. ASSUME NEW j \in Kinds, NEW c \in Campaigns, Grips(j, c)'
        PROVE  row'[c].status = "ACTIVE"
    <3>1. CASE j = k
      BY <1>11, <2>2, <2>4, <3>1, ReconcileSteps DEF ActiveOnly, RowStatusKept
    <3>2. CASE j # k
      <4>1. Grips(j, c)
        BY <2>1, <2>4, <3>2 DEF Moves, Grips, Working, At, InPhase, Phase
      <4> QED
        BY <1>11, <2>2, <4>1, ReconcileSteps DEF ActiveOnly, RowStatusKept
    <3> QED
      BY <3>1, <3>2
  <2>5. \A c \in Campaigns : doc'[c] # NoDoc /\ doc'[c].status = "ACTIVE" => row'[c].status = "ACTIVE"
    BY <1>11, <2>2, ReconcileSteps DEF ActiveOnly, RowStatusKept
  <2> QED
    BY <2>3, <2>4, <2>5 DEF ActiveOnly
<1>12. ASSUME NEW k \in Kinds, Fail(k)
       PROVE  ActiveOnly'
  <2>1. ASSUME NEW j \in Kinds, NEW c \in Campaigns, Grips(j, c)'
        PROVE  Grips(j, c)
    <3>1. CASE j = k
      BY <1>12, <2>1, <3>1, FailEffect DEF Grips
    <3>2. CASE j # k
      BY <1>12, <2>1, <3>2, FailEffect DEF Moves, Grips, Working, At, InPhase, Phase
    <3> QED
      BY <3>1, <3>2
  <2> QED
    BY <1>12, <2>1, FailEffect DEF ActiveOnly
<1>13. CASE UNCHANGED vars
  BY <1>2, <1>13 DEF vars, RowStatusKept
<1> QED
  BY <1>3, <1>4, <1>5, <1>6, <1>7, <1>8, <1>9, <1>10, <1>11, <1>12, <1>13, Cases

-----------------------------------------------------------------------------
Follows == [lock |-> "replace", replace |-> "unlock", resetLock |-> "resetDocs", resetDocs |-> "resetUnlock"]

\* A phase that locks is followed by one that unlocks.
LEMMA Sequel ==
    ASSUME NEW k \in Kinds, NEW i \in 1..Len(Plan[k]), Plan[k][i] \in DOMAIN Follows
    PROVE  i # Len(Plan[k]) /\ Plan[k][i + 1] = Follows[Plan[k][i]]
<1>1. CASE k = "hourly"
  BY <1>1, Plans DEF Follows
<1>2. CASE k = "nightly"
  BY <1>2, Plans DEF Follows
<1>3. CASE k = "manual"
  BY <1>3, Plans DEF Follows
<1>4. CASE k = "migrate"
  BY <1>4, Plans DEF Follows
<1> QED
  BY <1>1, <1>2, <1>3, <1>4, KindsAre

\* The record r, of a job of kind k, has c in the batch that it locks.
Chosen(k, r, c) ==
    /\ Plan[k][r.pc] \in Batches => (IF k = "migrate" THEN r.total[c] ELSE r.daily[c]) > 0
    /\ Plan[k][r.pc] \in Resets => r.snap[c] # NoDoc /\ r.snap[c].status \in {"ACTIVE", "PAUSED"}

LEMMA ChosenAre ==
    ASSUME NEW k \in Kinds, NEW r \in JobRecords, NEW c \in Campaigns,
           Plan[k][r.pc] \in Batches \union Resets
    PROVE  c \in Batch(k, r) <=> Chosen(k, r, c)
<1>1. CASE Plan[k][r.pc] \in Batches
  BY <1>1 DEF Batch, Chosen, Batches, Resets
<1>2. CASE Plan[k][r.pc] \in Resets
  BY <1>2 DEF Batch, Chosen, Batches, Resets
<1> QED
  BY <1>1, <1>2

\* What a locking phase has still to handle is in its batch.
Batched ==
    \A k \in Kinds, c \in Campaigns :
       Working(k) /\ Phase(k) \in Batches \union Resets /\ job[k].part[c] # "done" => Chosen(k, job[k], c)

\* The steps of a job that handle one campaign, and the others.
Call(k) == Load(k) \/ SumDay(k) \/ SumAll(k) \/ ResetRows(k) \/ Find(k) \/ NextPhase(k)

Handle(k, c) ==
    \/ StopInRedis(k, c) \/ StopInMySQL(k, c)
    \/ StartInMySQL(k, c) \/ StartInRedis(k, c)
    \/ ReadForLock(k, c) \/ Lock(k, c) \/ ReadForUnlock(k, c) \/ Unlock(k, c)
    \/ LockForReset(k, c) \/ UnlockAfterReset(k, c) \/ ResetDoc(k, c)
    \/ ReadForReplace(k, c) \/ ReplaceRow(k, c) \/ ReplaceDoc(k, c)

LEMMA CallSteps ==
    ASSUME TypeOK, NEW k \in Kinds, Call(k)
    PROVE  /\ Working(k) /\ doc' = doc /\ (row' = row \/ RowCounted)
           /\ \E r \in JobRecords : Onward(k, r)
           /\ \/ Phase(k) \in {"load", "sum", "sumAll", "resetRows", "find"}
              \/ /\ Onward(k, job[k])
                 /\ \A c \in Campaigns : job[k].part[c] = "done"
<1>1. Working(k) /\ doc' = doc
  BY DEF Call, Load, SumDay, SumAll, ResetRows, Find, NextPhase, InPhase, OnlyJob, JobAndRow
<1>2. row' = row \/ RowCounted
  BY RowSteps DEF Call
<1>3. \E r \in JobRecords : Onward(k, r)
  BY <1>1, OnwardSteps, JobType DEF Call
<1>4. CASE NextPhase(k)
  BY <1>1, <1>2, <1>3, <1>4, OnwardSteps DEF NextPhase
<1>5. CASE ~NextPhase(k)
  BY <1>1, <1>2, <1>3, <1>5 DEF Call, Load, SumDay, SumAll, ResetRows, Find, InPhase
<1> QED
  BY <1>4, <1>5

LEMMA HandleSteps ==
    ASSUME TypeOK, NEW k \in Kinds, NEW c \in Campaigns, Handle(k, c)
    PROVE  /\ Working(k) /\ job[k].part[c] # "done"
           /\ \/ Throw(k) /\ doc[c] = NoDoc
              \/ \E progress, held : Within(k, c, progress, held) /\ \A b \in Campaigns \ {c} : b \in held <=> b \in job[k].held
           /\ \A b \in Campaigns \ {c} : doc'[b] = doc[b] /\ row'[b].status = row[b].status
<1>1. Working(k) /\ job[k].part[c] # "done"
  BY DEF Handle, StopInRedis, StopInMySQL, StartInMySQL, StartInRedis, ReadForLock, Lock, ReadForUnlock,
         Unlock, LockForReset, UnlockAfterReset, ResetDoc, ReadForReplace, ReplaceRow, ReplaceDoc, At, InPhase
<1> DEFINE Same(held) == \A b \in Campaigns \ {c} : b \in held <=> b \in job[k].held
<1>2. Same(job[k].held) /\ Same(job[k].held \union {c}) /\ Same(job[k].held \ {c})
  OBVIOUS
<1>3. (Throw(k) /\ doc[c] = NoDoc) \/ \E progress, held : Within(k, c, progress, held) /\ Same(held)
  <2> HIDE DEF Same
  <2>1. CASE Lock(k, c) \/ LockForReset(k, c) \/ Unlock(k, c) \/ UnlockAfterReset(k, c)
    BY <1>2, <2>1, WithinSteps
  <2>2. CASE ~(Lock(k, c) \/ LockForReset(k, c) \/ Unlock(k, c) \/ UnlockAfterReset(k, c))
    <3>1. \E progress : Within(k, c, progress, job[k].held)
      BY <2>2, WithinSteps DEF Handle
    <3> QED
      BY <1>2, <3>1
  <2> QED
    BY <2>1, <2>2
<1>4. \A b \in Campaigns \ {c} : row'[b].status = row[b].status
  <2>1. row' = row \/ RowCounted \/ \E status : RowStatusIs(c, status)
    BY RowSteps DEF Handle
  <2> QED
    BY <2>1 DEF RowCounted, RowStatusIs
<1>5. \A b \in Campaigns \ {c} : doc'[b] = doc[b]
  <2>1. doc' = doc \/ DocCounted(c) \/ \E status : StatusIs(c, status)
    BY DocSteps, WithinSteps DEF Handle
  <2> QED
    BY <2>1 DEF DocCounted, StatusIs, DocIs
<1> QED
  BY <1>1, <1>3, <1>4, <1>5

LEMMA StepsAre ==
    ASSUME NEW k \in Kinds, JobStep(k)
    PROVE  Call(k) \/ \E c \in Campaigns : Handle(k, c)
BY DEF JobStep, Call, Handle

LEMMA ChosenKept ==
    ASSUME TypeOK, NEW k \in Kinds, NEW c \in Campaigns, Working(k), Working(k)', Chosen(k, job[k], c)
    PROVE  /\ \A b, progress, held : Within(k, b, progress, held) => Chosen(k, job'[k], c)
           /\ Onward(k, job[k]) /\ Phase(k) \in DOMAIN Follows => Chosen(k, job'[k], c)
<1>1. ASSUME NEW b, NEW progress, NEW held, Within(k, b, progress, held)
      PROVE  Chosen(k, job'[k], c)
  BY <1>1 DEF Within, Chosen, Phase
<1>2. ASSUME Onward(k, job[k]), Phase(k) \in DOMAIN Follows
      PROVE  Chosen(k, job'[k], c)
  <2>1. job[k].pc \in 1..Len(Plan[k])
    BY JobType, Order
  <2>2. Plan[k][job'[k].pc] = Follows[Phase(k)]
    BY <1>2, <2>1, Sequel DEF Phase, Onward
  <2> QED
    BY <1>2, <2>2 DEF Chosen, Onward, Phase, Follows, Batches, Resets
<1> QED
  BY <1>1, <1>2

LEMMA BatchedKept ==
    ASSUME TypeOK, Batched, [Next]_vars
    PROVE  Batched'
<1>1. job' = job => Batched'
  BY DEF Batched, Working, Phase
<1>2. ASSUME NEW k \in Kinds, Moves(k),
             Working(k)' /\ Phase(k)' \in Batches \union Resets =>
                \A c \in Campaigns : job'[k].part[c] # "done" => Chosen(k, job'[k], c)
      PROVE  Batched'
  BY <1>2 DEF Batched, Moves, Working, Phase
<1>3. CASE Restart
  BY <1>3, RestartEffect DEF Batched
<1>4. ASSUME NEW k \in Kinds, StartJob(k)
      PROVE  Batched'
  BY <1>2, <1>4, StartEffect DEF Batches, Resets
<1>5. ASSUME NEW k \in Kinds, Fail(k)
      PROVE  Batched'
  BY <1>2, <1>5, FailEffect
<1>6. ASSUME NEW k \in Kinds, Call(k)
      PROVE  Batched'
  <2>1. PICK r \in JobRecords : Onward(k, r)
    BY <1>6, CallSteps
  <2>2. ASSUME Working(k)', Phase(k)' \in Batches \union Resets, NEW c \in Campaigns, job'[k].part[c] # "done"
        PROVE  Chosen(k, job'[k], c)
    <3>1. c \in Batch(k, job'[k]) /\ job'[k] \in JobRecords
      BY <2>1, <2>2 DEF Onward, Working
    <3> QED
      BY <2>2, <3>1, ChosenAre DEF Phase
  <2> QED
    BY <1>2, <2>1, <2>2 DEF Onward
<1>7. ASSUME NEW k \in Kinds, NEW c \in Campaigns, Handle(k, c)
      PROVE  Batched'
  <2>1. CASE Throw(k)
    BY <1>2, <2>1, ThrowEffect
  <2>2. ASSUME NEW progress, NEW held, Within(k, c, progress, held)
        PROVE  Batched'
    <3>1. ASSUME Working(k)', Phase(k)' \in Batches \union Resets, NEW b \in Campaigns, job'[k].part[b] # "done"
          PROVE  Chosen(k, job'[k], b)
      <4>1. Working(k) /\ Phase(k) \in Batches \union Resets /\ job[k].part[b] # "done"
        BY <1>7, <2>2, <3>1, HandleSteps DEF Within
      <4> QED
        BY <2>2, <3>1, <4>1, ChosenKept DEF Batched
    <3> QED
      BY <1>2, <2>2, <3>1 DEF Within
  <2> QED
    BY <1>7, <2>1, <2>2, HandleSteps
<1>8. CASE Midnight \/ OwnerStep \/ UNCHANGED vars
  BY <1>1, <1>8 DEF Midnight, OwnerStep, PauseFirst, SaveRow, CopyStatus, DropDoc, MarkRow, vars
<1>9. ASSUME NEW c \in Campaigns, \/ LoadDoc(c)
                                  \/ \E to \in {"ACTIVE", "PAUSED", "deleted"} : Ask(c, to)
                                  \/ \E i \in Clicks : Bill(i, c)
      PROVE  Batched'
  BY <1>1, <1>9 DEF LoadDoc, Ask, Bill
<1>10. ASSUME NEW i \in Clicks, ClickStep(i) \/ Crash(i)
       PROVE  Batched'
  BY <1>1, <1>10 DEF ClickStep, SaveClickLog, IncrementDaily, IncrementTotal, Crash
<1> QED
  BY <1>3, <1>4, <1>5, <1>6, <1>7, <1>8, <1>9, <1>10, Cases, StepsAre

-----------------------------------------------------------------------------
\* Then every lock is released by the job that took it.
NoLosses == /\ allowed \intersect {"delete", "fault", "restart"} = {}
            /\ ~({"edit", "overlap"} \subseteq allowed)

\* A job that has c PAUSED in Redis, or is writing both its statuses.
Excuse(k, c) ==
    /\ Working(k)
    /\ c \in job[k].held \/ At(k, "pause", c, "half") \/ At(k, "start", c, "half")

PausedOnly(c) == doc[c] # NoDoc /\ doc[c].status = "PAUSED" /\ row[c].status = "ACTIVE"

\* What a job holds is in its batch, and not yet unlocked.
HeldInBatch ==
    \A k \in Kinds, c \in Campaigns :
       Working(k) /\ c \in job[k].held =>
          /\ Phase(k) \in Batches \union Resets
          /\ Chosen(k, job[k], c)
          /\ Phase(k) \in {"unlock", "resetUnlock"} => job[k].part[c] # "done"

(***************************************************************************)
(* LocksAreReleased, and why it stays true: what is held is still to be    *)
(* unlocked, and what the owner's request ends with is the row's status.   *)
(***************************************************************************)
Releasing ==
    /\ owner.at = "saved" => row[owner.campaign].status = owner.to
    /\ HeldInBatch
    /\ \A c \in Campaigns : PausedOnly(c) =>
          (\E k \in Kinds : Excuse(k, c)) \/ (Asked /\ owner.campaign = c)

LEMMA NothingIsLost ==
    ASSUME TypeOK, Lawful, Exclusive, NoLosses
    PROVE  /\ \A c \in Campaigns : doc[c] # NoDoc
           /\ loader = NoLoad
           /\ \A k \in Kinds : Working(k) => ~Asked
           /\ Asked => owner.to # "deleted"
           /\ ~May("fault") /\ ~May("restart") /\ ~May("delete")
<1>1. ~May("fault") /\ ~May("restart") /\ ~May("delete") /\ (May("edit") => ~May("overlap"))
  BY DEF NoLosses, May
<1>2. Asked => owner.to # "deleted" /\ May("edit")
  BY <1>1 DEF Lawful
<1> QED
  BY <1>1, <1>2 DEF Lawful, Exclusive, Quiet

LEMMA HeldKept ==
    ASSUME TypeOK, Batched, HeldInBatch, \A c \in Campaigns : doc[c] # NoDoc, NEW k \in Kinds, JobStep(k)
    PROVE  HeldInBatch'
<1>1. ASSUME Moves(k),
             \A c \in Campaigns : Working(k)' /\ c \in job'[k].held =>
                /\ Phase(k)' \in Batches \union Resets
                /\ Chosen(k, job'[k], c)
                /\ Phase(k)' \in {"unlock", "resetUnlock"} => job'[k].part[c] # "done"
      PROVE  HeldInBatch'
  BY <1>1 DEF HeldInBatch, Moves, Working, Phase
<1>2. ASSUME Call(k)
      PROVE  HeldInBatch'
  <2>1. PICK r \in JobRecords : Onward(k, r)
    BY <1>2, CallSteps
  <2>2. ASSUME NEW c \in Campaigns, Working(k)', c \in job'[k].held
        PROVE  /\ Phase(k)' \in Batches \union Resets
               /\ Chosen(k, job'[k], c)
               /\ Phase(k)' \in {"unlock", "resetUnlock"} => job'[k].part[c] # "done"
    <3>1. Working(k) /\ c \in job[k].held /\ Phase(k) \notin {"unlock", "resetUnlock"}
      BY <2>1, <2>2 DEF Onward
    <3>2. Phase(k) \in Batches \union Resets /\ Chosen(k, job[k], c)
      BY <3>1 DEF HeldInBatch
    <3>3. Phase(k) \in DOMAIN Follows
      BY <3>1, <3>2 DEF Follows, Batches, Resets
    <3>4. Onward(k, job[k])
      BY <1>2, <3>2, CallSteps DEF Batches, Resets
    <3>5. Chosen(k, job'[k], c)
      BY <2>2, <3>1, <3>2, <3>3, <3>4, ChosenKept
    <3>6. job[k].pc \in 1..Len(Plan[k])
      BY <3>1, JobType, Order
    <3>7. Phase(k)' = Follows[Phase(k)]
      BY <2>2, <3>3, <3>4, <3>6, Sequel DEF Phase, Onward
    <3>8. Phase(k)' \in Batches \union Resets
      BY <3>3, <3>7 DEF Follows, Batches, Resets
    <3>9. job'[k] \in JobRecords
      BY <2>2, <3>4 DEF Onward, Working
    <3>10. c \in Batch(k, job'[k])
      BY <3>5, <3>8, <3>9, ChosenAre DEF Phase
    <3>11. job'[k].part[c] # "done"
      BY <2>2, <3>4, <3>10 DEF Onward
    <3> QED
      BY <3>5, <3>8, <3>11
  <2> QED
    BY <1>1, <2>1, <2>2 DEF Onward
<1>3. ASSUME NEW c \in Campaigns, Handle(k, c)
      PROVE  HeldInBatch'
  <2>1. doc[c] # NoDoc /\ Working(k) /\ job[k].part[c] # "done"
    BY <1>3, HandleSteps
  <2>2. PICK progress, held : /\ Within(k, c, progress, held)
                              /\ \A b \in Campaigns \ {c} : b \in held <=> b \in job[k].held
    BY <1>3, <2>1, HandleSteps
  <2>3. ASSUME NEW b \in Campaigns, b # c, Working(k)', b \in job'[k].held
        PROVE  /\ Phase(k)' \in Batches \union Resets
               /\ Chosen(k, job'[k], b)
               /\ Phase(k)' \in {"unlock", "resetUnlock"} => job'[k].part[b] # "done"
    <3>1. b \in job[k].held /\ Phase(k)' = Phase(k) /\ job'[k].part[b] = job[k].part[b]
      BY <2>2, <2>3 DEF Within
    <3>2. Chosen(k, job'[k], b)
      BY <2>1, <2>2, <2>3, <3>1, ChosenKept DEF HeldInBatch
    <3> QED
      BY <2>1, <3>1, <3>2 DEF HeldInBatch
  <2>4. ASSUME Working(k)', c \in job'[k].held
        PROVE  /\ Phase(k)' \in Batches \union Resets
               /\ Chosen(k, job'[k], c)
               /\ Phase(k)' \in {"unlock", "resetUnlock"} => job'[k].part[c] # "done"
    <3>1. Phase(k)' = Phase(k) /\ held = job'[k].held
      BY <2>2 DEF Within
    <3>2. c \in job[k].held \/ Phase(k) \in {"lock", "resetLock"}
      <4>1. CASE Lock(k, c) \/ LockForReset(k, c)
        BY <4>1 DEF Lock, LockForReset, At, InPhase
      <4>2. CASE Unlock(k, c) \/ UnlockAfterReset(k, c)
        BY <2>1, <2>4, <4>2, WithinSteps DEF Within
      <4>3. CASE ~(Lock(k, c) \/ LockForReset(k, c) \/ Unlock(k, c) \/ UnlockAfterReset(k, c))
        <5>1. \E p : Within(k, c, p, job[k].held)
          BY <1>3, <4>3, WithinSteps DEF Handle
        <5> QED
          BY <2>4, <5>1 DEF Within
      <4> QED
        BY <4>1, <4>2, <4>3
    <3>3. Phase(k) \in Batches \union Resets
      BY <2>1, <3>2 DEF HeldInBatch, Batches, Resets
    <3>4. Chosen(k, job[k], c)
      BY <2>1, <3>3 DEF Batched
    <3>5. Chosen(k, job'[k], c)
      BY <2>1, <2>2, <2>4, <3>4, ChosenKept
    <3>6. ASSUME Phase(k) \in {"unlock", "resetUnlock"}
          PROVE  job'[k].part[c] # "done"
      <4>1. c \in job[k].held
        BY <3>2, <3>6
      <4>2. ReadForUnlock(k, c) \/ Unlock(k, c) \/ UnlockAfterReset(k, c)
        BY <1>3, <3>6 DEF Handle, StopInRedis, StopInMySQL, StartInMySQL, StartInRedis, ReadForLock, Lock,
              LockForReset, ResetDoc, ReadForReplace, ReplaceRow, ReplaceDoc, At, InPhase, Target
      <4>3. CASE ReadForUnlock(k, c)
        BY <2>1, <4>1, <4>3, WithinSteps DEF Within
      <4>4. CASE Unlock(k, c) \/ UnlockAfterReset(k, c)
        BY <2>1, <2>4, <4>1, <4>4, WithinSteps DEF Within
      <4> QED
        BY <4>2, <4>3, <4>4
    <3> QED
      BY <3>1, <3>3, <3>5, <3>6
  <2> QED
    BY <1>1, <2>2, <2>3, <2>4 DEF Within
<1> QED
  BY <1>2, <1>3, StepsAre

LEMMA ReleaseSteps ==
    ASSUME TypeOK, HeldInBatch, \A c \in Campaigns : doc[c] # NoDoc, NEW k \in Kinds, JobStep(k),
           NEW b \in Campaigns, PausedOnly(b)'
    PROVE  Excuse(k, b)' \/ (PausedOnly(b) /\ ~Excuse(k, b))
<1>1. CASE Call(k)
  <2>1. PausedOnly(b)
    BY <1>1, CallSteps DEF PausedOnly, RowCounted
  <2>2. ASSUME Excuse(k, b)
        PROVE  Excuse(k, b)'
    <3>1. Phase(k) \in Batches \union Resets \union {"pause", "start"}
      BY <2>2 DEF Excuse, HeldInBatch, At, InPhase
    <3>2. Onward(k, job[k]) /\ \A c \in Campaigns : job[k].part[c] = "done"
      BY <1>1, <3>1, CallSteps DEF Batches, Resets
    <3>3. Working(k) /\ b \in job[k].held /\ Phase(k) \notin {"unlock", "resetUnlock"}
      BY <2>2, <3>2 DEF Excuse, At, InPhase, HeldInBatch
    <3>4. Phase(k) \in DOMAIN Follows
      BY <3>3 DEF HeldInBatch, Batches, Resets, Follows
    <3>5. job[k].pc \in 1..Len(Plan[k])
      BY <3>3, JobType, Order
    <3>6. job[k].pc # Len(Plan[k])
      BY <3>4, <3>5, Sequel DEF Phase
    <3> QED
      BY <3>2, <3>3, <3>6 DEF Excuse, Onward
  <2> QED
    BY <2>1, <2>2
<1>2. ASSUME NEW c \in Campaigns, Handle(k, c)
      PROVE  Excuse(k, b)' \/ (PausedOnly(b) /\ ~Excuse(k, b))
  <2>1. doc[c] # NoDoc /\ Working(k)
    BY <1>2, HandleSteps
  <2>2. PICK progress, held : /\ Within(k, c, progress, held)
                              /\ \A a \in Campaigns \ {c} : a \in held <=> a \in job[k].held
    BY <1>2, <2>1, HandleSteps
  <2>3. CASE b # c
    <3>1. PausedOnly(b)
      BY <1>2, <2>3, HandleSteps DEF PausedOnly
    <3>2. Excuse(k, b) => Excuse(k, b)'
      BY <2>2, <2>3 DEF Excuse, Within, At, InPhase
    <3> QED
      BY <3>1, <3>2
  <2>4. CASE b = c
    <3>1. CASE StopInRedis(k, c)
      <4>1. StatusIs(c, Target[Phase(k)]) /\ Phase(k) \in DOMAIN Target
        BY <2>1, <3>1, DocSteps DEF StopInRedis
      <4>2. Phase(k) = "pause"
        BY <2>4, <4>1 DEF PausedOnly, StatusIs, DocIs, Target
      <4>3. Within(k, c, "half", job[k].held)
        BY <3>1, WithinSteps
      <4> QED
        BY <2>4, <4>2, <4>3 DEF Within, Excuse, At, InPhase
    <3>2. CASE StopInMySQL(k, c)
      BY <2>4, <3>2, RowSteps DEF PausedOnly, RowStatusIs, StopInMySQL, Target
    <3>3. CASE StartInMySQL(k, c)
      <4>1. Within(k, c, "half", job[k].held) /\ Phase(k) = "start"
        BY <3>3, WithinSteps DEF StartInMySQL, At, InPhase
      <4> QED
        BY <2>4, <4>1 DEF Within, Excuse, At, InPhase
    <3>4. CASE StartInRedis(k, c)
      BY <2>1, <2>4, <3>4, DocSteps DEF PausedOnly, StatusIs, DocIs
    <3>5. CASE Lock(k, c) \/ LockForReset(k, c)
      <4>1. CASE Within(k, c, "done", job[k].held \union {c})
        BY <2>4, <4>1 DEF Within, Excuse
      <4>2. CASE Within(k, c, "done", job[k].held) /\ doc' = doc
        <5>1. row' = row /\ Phase(k) \in {"lock", "resetLock"}
          BY <3>5, RowSteps DEF Lock, LockForReset, At, InPhase
        <5> QED
          BY <4>2, <5>1 DEF Within, Excuse, PausedOnly, At, InPhase
      <4> QED
        BY <2>1, <3>5, <4>1, <4>2, WithinSteps
    <3>6. CASE Unlock(k, c) \/ UnlockAfterReset(k, c)
      <4>1. CASE StatusIs(c, "ACTIVE")
        BY <2>4, <4>1 DEF PausedOnly, StatusIs, DocIs
      <4>2. CASE c \notin job[k].held /\ doc' = doc
        <5>1. row' = row /\ Phase(k) \in {"unlock", "resetUnlock"}
          BY <3>6, RowSteps DEF Unlock, UnlockAfterReset, At, InPhase
        <5> QED
          BY <2>4, <4>2, <5>1 DEF Excuse, PausedOnly, At, InPhase
      <4> QED
        BY <2>1, <3>6, <4>1, <4>2, WithinSteps
    <3>7. CASE \/ ReadForLock(k, c) \/ ReadForUnlock(k, c) \/ ResetDoc(k, c)
               \/ ReadForReplace(k, c) \/ ReplaceRow(k, c) \/ ReplaceDoc(k, c)
      <4>1. PICK p : Within(k, c, p, job[k].held)
        BY <3>7, WithinSteps
      <4>2. Phase(k) \in Batches \union Resets
        BY <3>7 DEF ReadForLock, ReadForUnlock, ResetDoc, ReadForReplace, ReplaceRow, ReplaceDoc,
               At, InPhase, Batches, Resets
      <4>3. row' = row \/ RowCounted
        BY <3>7, RowSteps
      <4>4. doc' = doc \/ DocCounted(c)
        BY <3>7, DocSteps
      <4>5. PausedOnly(b)
        BY <2>1, <2>4, <4>3, <4>4 DEF PausedOnly, RowCounted, DocCounted, DocIs
      <4>6. Excuse(k, b) => Excuse(k, b)'
        BY <4>1, <4>2 DEF Excuse, Within, At, InPhase, Batches, Resets
      <4> QED
        BY <4>5, <4>6
    <3> QED
      BY <1>2, <3>1, <3>2, <3>3, <3>4, <3>5, <3>6, <3>7 DEF Handle
  <2> QED
    BY <2>3, <2>4
<1> QED
  BY <1>1, <1>2, StepsAre

LEMMA ReleasingKept ==
    ASSUME TypeOK, Lawful, Exclusive, Batched, NoLosses, Releasing, [Next]_vars
    PROVE  Releasing'
<1>1. /\ \A c \in Campaigns : doc[c] # NoDoc
      /\ loader = NoLoad
      /\ \A k \in Kinds : Working(k) => ~Asked
      /\ Asked => owner.to # "deleted"
      /\ ~May("fault") /\ ~May("restart") /\ ~May("delete")
  BY NothingIsLost
<1>2. ASSUME job' = job
      PROVE  /\ HeldInBatch'
             /\ \A k \in Kinds, c \in Campaigns : Excuse(k, c)' <=> Excuse(k, c)
  BY <1>2 DEF Releasing, HeldInBatch, Excuse, Working, Phase, At, InPhase
<1>3. ASSUME UNCHANGED <<job, owner>>, RowStatusKept,
             \A c \in Campaigns : doc'[c].status = doc[c].status
      PROVE  Releasing'
  <2>1. owner.at = "saved" => owner.campaign \in Campaigns
    BY Owner
  <2>2. \A c \in Campaigns : PausedOnly(c)' => PausedOnly(c)
    BY <1>1, <1>3 DEF PausedOnly, RowStatusKept
  <2>3. owner'.at = "saved" => row'[owner'.campaign].status = owner'.to
    BY <1>3, <2>1 DEF Releasing, RowStatusKept
  <2> QED
    BY <1>2, <1>3, <2>2, <2>3 DEF Releasing, Asked
<1>4. CASE Midnight
  BY <1>3, <1>4 DEF Midnight, RowStatusKept
<1>5. ~Restart
  BY <1>1 DEF Restart
<1>6. CASE OwnerStep
  <2>1. Asked /\ job' = job /\ owner.campaign \in Campaigns
    BY <1>6, OwnerSteps, Owner
  <2>2. \A k \in Kinds, c \in Campaigns : ~Excuse(k, c)
    BY <1>1, <2>1 DEF Excuse
  <2>3. \A c \in Campaigns : PausedOnly(c) => c = owner.campaign
    BY <2>2 DEF Releasing
  <2>4. ASSUME owner' \in Edits, owner'.campaign = owner.campaign, row' = row \/ RowStatusIs(owner.campaign, owner.to),
               doc' = doc \/ StatusIs(owner.campaign, "PAUSED"),
               owner'.at = "saved" => RowStatusIs(owner.campaign, owner.to) /\ owner'.to = owner.to
        PROVE  Releasing'
    <3>1. Asked'
      BY <2>4 DEF Asked, Edits, NoEdit, Over
    <3>2. \A c \in Campaigns : PausedOnly(c)' => c = owner'.campaign
      BY <2>3, <2>4 DEF PausedOnly, RowStatusIs, StatusIs, DocIs
    <3>3. owner'.at = "saved" => row'[owner'.campaign].status = owner'.to
      BY <2>4 DEF RowStatusIs
    <3> QED
      BY <1>2, <2>1, <3>1, <3>2, <3>3 DEF Releasing
  <2>5. ASSUME StatusIs(owner.campaign, owner.to), row' = row, owner' = Over, owner.at = "saved"
        PROVE  Releasing'
    <3>1. row[owner.campaign].status = owner.to
      BY <2>5 DEF Releasing
    <3>2. \A c \in Campaigns : ~PausedOnly(c)'
      BY <2>3, <2>5, <3>1 DEF PausedOnly, StatusIs, DocIs
    <3>3. owner'.at # "saved"
      BY <2>5 DEF Over
    <3> QED
      BY <1>2, <2>1, <3>2, <3>3 DEF Releasing
  <2>6. owner.to # "deleted" /\ owner.at # "dropped"
    BY <1>1, <2>1 DEF Lawful
  <2> QED
    BY <1>6, <2>4, <2>5, <2>6, OwnerSteps
<1>7. ASSUME NEW c \in Campaigns
      PROVE  ~LoadDoc(c)
  BY <1>1 DEF LoadDoc
<1>8. ASSUME NEW c \in Campaigns, NEW to \in {"ACTIVE", "PAUSED", "deleted"}, Ask(c, to)
      PROVE  Releasing'
  <2>1. ~Asked /\ owner'.at = "asked" /\ UNCHANGED <<row, doc, job>>
    BY <1>8 DEF Ask, Asked
  <2>2. \A b \in Campaigns : PausedOnly(b)' => \E k \in Kinds : Excuse(k, b)'
    BY <1>2, <2>1 DEF Releasing, PausedOnly
  <2> QED
    BY <1>2, <2>1, <2>2 DEF Releasing
<1>9. ASSUME NEW c \in Campaigns, NEW k \in Clicks, Bill(k, c)
      PROVE  Releasing'
  <2>1. \A b \in Campaigns : doc'[b].status = doc[b].status
    BY <1>9, BillEffect DEF DocCounted, DocIs
  <2> QED
    BY <1>3, <1>9, <2>1, BillEffect DEF RowStatusKept
<1>10. ASSUME NEW k \in Clicks, ClickStep(k) \/ Crash(k)
       PROVE  Releasing'
  BY <1>3, <1>10, ClickSteps DEF RowStatusKept, RowCounted
<1>11. ASSUME NEW k \in Kinds, StartJob(k)
       PROVE  Releasing'
  <2>1. HeldInBatch'
    BY <1>11, StartEffect, NewJobType DEF Releasing, HeldInBatch, Moves, Working, Phase
  <2>2. ASSUME NEW j \in Kinds, NEW c \in Campaigns, Excuse(j, c)
        PROVE  Excuse(j, c)'
    <3>1. j # k
      BY <1>11, <2>2, StartEffect DEF Excuse
    <3> QED
      BY <1>11, <2>2, <3>1, StartEffect DEF Excuse, Moves, Working, Phase, At, InPhase
  <2> QED
    BY <1>11, <2>1, <2>2, StartEffect DEF Releasing, PausedOnly, Asked
<1>12. ASSUME NEW k \in Kinds, JobStep(k)
       PROVE  Releasing'
  <2>1. Working(k) /\ Moves(k) /\ owner' = owner /\ ~Asked
    BY <1>1, <1>12, JobSteps DEF JobFrame
  <2>2. HeldInBatch'
    BY <1>1, <1>12, HeldKept DEF Releasing
  <2>3. owner'.at # "saved"
    BY <2>1, Owner
  <2>4. ASSUME NEW c \in Campaigns, PausedOnly(c)'
        PROVE  \E j \in Kinds : Excuse(j, c)'
    <3>1. CASE Excuse(k, c)'
      BY <3>1
    <3>2. CASE PausedOnly(c) /\ ~Excuse(k, c)
      <4>1. PICK j \in Kinds : Excuse(j, c) /\ j # k
        BY <2>1, <3>2 DEF Releasing
      <4>2. Excuse(j, c)'
        BY <2>1, <4>1 DEF Excuse, Moves, Working, Phase, At, InPhase
      <4> QED
        BY <4>2
    <3> QED
      BY <1>1, <1>12, <2>4, <3>1, <3>2, ReleaseSteps DEF Releasing
  <2> QED
    BY <2>2, <2>3, <2>4 DEF Releasing
<1>13. ASSUME NEW k \in Kinds
       PROVE  ~Fail(k)
  BY <1>1 DEF Fail
<1>14. CASE UNCHANGED vars
  BY <1>3, <1>14 DEF vars, RowStatusKept
<1> QED
  BY <1>4, <1>5, <1>6, <1>7, <1>8, <1>9, <1>10, <1>11, <1>12, <1>13, <1>14, Cases

-----------------------------------------------------------------------------
SettlementInv ==
    /\ TypeOK /\ Lawful /\ Exclusive /\ Batched
    /\ NoRaces => Covered
    /\ NoSnapshots => ActiveOnly
    /\ NoLosses => Releasing

LEMMA HazardsStay ==
    ASSUME TypeOK, Lawful, [Next]_vars
    PROVE  allowed' = allowed
<1>1. ASSUME NEW k \in Kinds, StartJob(k) \/ JobStep(k) \/ Fail(k)
      PROVE  allowed' = allowed
  BY <1>1, StartEffect, JobSteps, FailEffect DEF JobFrame
<1>2. ASSUME NEW k \in Clicks, ClickStep(k) \/ Crash(k)
      PROVE  allowed' = allowed
  BY <1>2, ClickSteps
<1> QED
  BY <1>1, <1>2, Cases, OwnerSteps
     DEF Midnight, Restart, LoadDoc, Ask, Bill, vars

\* The invariant holds at the start, and every step keeps it.
LEMMA StartsSound == Init => SettlementInv
<1> SUFFICES ASSUME Init
             PROVE  SettlementInv
  OBVIOUS
<1>1. /\ \A c \in Campaigns : row[c] \in Rows /\ doc[c] \in Docs /\ row[c].status = doc[c].status
                              /\ doc[c].status # "PAUSED"
      /\ \A c \in Campaigns : doc[c].total = 0
  BY DEF Init, Rows, Docs, Statuses
<1>2. /\ \A k \in Kinds : ~Working(k)
      /\ \A k \in Clicks : click[k] = NewClick
      /\ ~Asked /\ owner.at = "none" /\ loader = NoLoad
  BY DEF Init, Working, Asked, NoEdit, Over
<1>3. TypeOK
  <2>1. day \in Days /\ faults \in 0..MaxFaults /\ due \subseteq Once
    BY SettlementAssumption, KindsAre DEF Init, Days, Once
  <2>2. row \in [Campaigns -> Rows] /\ doc \in [Campaigns -> Docs \union {NoDoc}]
    BY <1>1 DEF Init
  <2> QED
    BY <2>1, <2>2 DEF Init, TypeOK, Loads
<1>4. Lawful
  <2>1. due \subseteq allowed
    BY DEF Init
  <2>2. \A c \in Campaigns : doc[c] # NoDoc
    BY <1>1, DocNotNone
  <2> QED
    BY <1>2, <2>1, <2>2 DEF Lawful, Once
<1>5. Exclusive /\ Batched
  BY <1>2 DEF Exclusive, Batched
<1>6. Covered
  <2>1. ASSUME NEW c \in Campaigns
        PROVE  doc[c].total >= Cost * Cardinality(Counted(c))
    <3>1. Counted(c) = {}
      BY <1>2 DEF Counted
    <3>2. Cost \in Nat
      BY SettlementAssumption
    <3> QED
      BY <1>1, <3>1, <3>2, FS_EmptySet
  <2> QED
    BY <1>2, <2>1 DEF Covered, Summing, InPhase
<1>7. ActiveOnly
  BY <1>1, <1>2 DEF ActiveOnly, Grips
<1>8. Releasing
  BY <1>1, <1>2 DEF Releasing, HeldInBatch, PausedOnly
<1> QED
  BY <1>3, <1>4, <1>5, <1>6, <1>7, <1>8 DEF SettlementInv

LEMMA StaysSound == SettlementInv /\ [Next]_vars => SettlementInv'
<1> SUFFICES ASSUME SettlementInv, [Next]_vars
             PROVE  SettlementInv'
  OBVIOUS
<1>1. TypeOK /\ Lawful /\ Exclusive /\ Batched
  BY DEF SettlementInv
<1>2. TypeOK' /\ Lawful' /\ Exclusive' /\ Batched'
  BY <1>1, TypesKept, LawfulKept, ExclusiveKept, BatchedKept
<1>3. allowed' = allowed
  BY <1>1, HazardsStay
<1>4. NoRaces' => Covered'
  BY <1>1, <1>3, CoveredKept DEF SettlementInv, NoRaces
<1>5. NoSnapshots' => ActiveOnly'
  BY <1>1, <1>3, ActiveOnlyKept DEF SettlementInv, NoSnapshots
<1>6. NoLosses' => Releasing'
  BY <1>1, <1>3, ReleasingKept DEF SettlementInv, NoLosses
<1> QED
  BY <1>2, <1>4, <1>5, <1>6 DEF SettlementInv

LEMMA AlwaysSound == Spec => []SettlementInv
<1>1. Init => SettlementInv
  BY StartsSound
<1>2. SettlementInv /\ [Next]_vars => SettlementInv'
  BY StaysSound
<1> QED
  BY <1>1, <1>2, PTL DEF Spec

(***************************************************************************)
(* What a job locked, it unlocks: a campaign whose row is ACTIVE is PAUSED *)
(* in Redis only while a job holds, pauses or starts it or a request of    *)
(* its owner is under way (reconcileSpentFromClickLog, resetDailyBudgets   *)
(* and the jobs beside them), unless a call fails, the server restarts, a  *)
(* campaign is deleted, or edits overlap jobs.                             *)
(***************************************************************************)
THEOREM LocksGoAway == Spec => []LocksAreReleased
<1>1. SettlementInv => LocksAreReleased
  BY DEF SettlementInv, Releasing, LocksAreReleased, NoLosses, PausedOnly, Excuse
<1> QED
  BY <1>1, AlwaysSound, PTL

(***************************************************************************)
(* Reconciliation and the migration never make a campaign ACTIVE in Redis  *)
(* whose row is not: they unlock only what was ACTIVE when they locked it. *)
(***************************************************************************)
THEOREM StoppedStaysUnsold == Spec => []StoppedIsNotSold
<1>1. SettlementInv => StoppedIsNotSold
  BY DEF SettlementInv, ActiveOnly, StoppedIsNotSold, NoSnapshots
<1> QED
  BY <1>1, AlwaysSound, PTL

(***************************************************************************)
(* Replacing what was spent by the sum of the click logs never makes Redis *)
(* count less than the logs say, as long as no click falls between the     *)
(* sums of a job and their use and no restart loads rows over documents.   *)
(***************************************************************************)
THEOREM LogsAreCovered == Spec => []SpentCoversLogs
<1>1. SettlementInv => SpentCoversLogs
  <2> SUFFICES ASSUME SettlementInv, NoRaces, NEW c \in Campaigns, doc[c] # NoDoc
               PROVE  doc[c].total >= Logged(c)
    BY DEF SpentCoversLogs, NoRaces
  <2>1. doc[c].total \in Nat
    BY DEF SettlementInv, TypeOK, Docs
  <2>2. Logged(c) \in Nat /\ Cost * Cardinality(Counted(c)) \in Nat
    BY Sums, CostOfMore DEF Counted
  <2>3. doc[c].total >= Cost * Cardinality(Counted(c))
    BY DEF SettlementInv, Covered
  <2> QED
    BY <2>1, <2>2, <2>3, CountedOnce
<1> QED
  BY <1>1, AlwaysSound, PTL
=============================================================================
