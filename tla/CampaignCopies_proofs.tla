------------------------ MODULE CampaignCopies_proofs -----------------------
(***************************************************************************)
(* Proofs about the copies of a campaign, for every set of texts and tags, *)
(* every number of writes, errors and embedding jobs, and every set of     *)
(* hazards.                                                                *)
(***************************************************************************)
EXTENDS CampaignCopies, TLAPS

-----------------------------------------------------------------------------
(***************************************************************************)
(* Copies.  A campaign is told from its absence, and setting a field of it *)
(* leaves the other fields.                                                *)
(***************************************************************************)
Writing == [at : Steps, value : Copy]

\* A copy that is not the absence of one has the fields of a campaign.
LEMMA CopyHas ==
    ASSUME NEW c \in Copy, c # Absent
    PROVE  c \in Campaign /\ c.status \in Statuses /\ c.text \in Texts /\ c.emb \in Texts \union {None}
BY DEF Copy, Campaign

\* No campaign looks like the absence of one.
LEMMA AbsentIsCopy == Absent \in Copy /\ Absent \notin Campaign
BY CopiesAssumption DEF Copy, Campaign, Absent, Statuses

\* d is a campaign with these fields.
Like(d, s, t, e) == d \in Campaign /\ d # Absent /\ d.status = s /\ d.text = t /\ d.emb = e

\* A copy that is there stays one when a field of it is set.
LEMMA CopyChanges ==
    ASSUME NEW c \in Copy, c # Absent
    PROVE  /\ \A s \in Statuses : Like([c EXCEPT !.status = s], s, c.text, c.emb)
           /\ \A t \in Texts : Like([c EXCEPT !.text = t], c.status, t, c.emb)
           /\ \A e \in Texts \union {None} : Like([c EXCEPT !.emb = e], c.status, c.text, e)
           /\ \A t \in Texts, s \in Statuses : Like([c EXCEPT !.text = t, !.status = s], s, t, c.emb)
<1>0. c \in Campaign
  BY CopyHas
<1>1. ASSUME NEW s \in Statuses
      PROVE  Like([c EXCEPT !.status = s], s, c.text, c.emb)
  BY <1>0, AbsentIsCopy DEF Like, Campaign
<1>2. ASSUME NEW t \in Texts
      PROVE  Like([c EXCEPT !.text = t], c.status, t, c.emb)
  BY <1>0, AbsentIsCopy DEF Like, Campaign
<1>3. ASSUME NEW e \in Texts \union {None}
      PROVE  Like([c EXCEPT !.emb = e], c.status, c.text, e)
  BY <1>0, AbsentIsCopy DEF Like, Campaign
<1>4. ASSUME NEW t \in Texts, NEW s \in Statuses
      PROVE  Like([c EXCEPT !.text = t, !.status = s], s, t, c.emb)
  BY <1>0, AbsentIsCopy DEF Like, Campaign
<1> QED
  BY <1>1, <1>2, <1>3, <1>4

(***************************************************************************)
(* What a writer does next: one writer moves, the others stay.             *)
(***************************************************************************)
Moves(w, at, c) ==
    /\ writer' \in [Writers -> Writing]
    /\ writer'[w].at = at /\ writer'[w].value = c
    /\ \A v \in Writers \ {w} : writer'[v] = writer[v]

\* Going on, carrying a copy and finishing are moves.
LEMMA Moving ==
    ASSUME TypeOK, NEW w \in Writers
    PROVE  /\ \A at \in Steps : Goto(w, at) => Moves(w, at, writer[w].value)
           /\ \A at \in Steps, c \in Copy : Carry(w, at, c) => Moves(w, at, c)
           /\ Finish(w) => Moves(w, "idle", Absent)
<1>1. writer \in [Writers -> Writing]
  BY DEF TypeOK, Writing
<1>2. ASSUME NEW at \in Steps, Goto(w, at)
      PROVE  Moves(w, at, writer[w].value)
  BY <1>1, <1>2 DEF Goto, Moves, Writing
<1>3. ASSUME NEW at \in Steps, NEW c \in Copy, Carry(w, at, c)
      PROVE  Moves(w, at, c)
  BY <1>1, <1>3 DEF Carry, Moves, Writing
<1>4. ASSUME Finish(w)
      PROVE  Moves(w, "idle", Absent)
  <2>1. "idle" \in Steps
    BY DEF Steps
  <2> QED
    BY <1>1, <1>4, <2>1, AbsentIsCopy DEF Finish, Idle, Moves, Writing
<1> QED
  BY <1>2, <1>3, <1>4

-----------------------------------------------------------------------------
(***************************************************************************)
(* Types, in the parts that writers, readers and counters change, and with *)
(* them that a writer which is to write a copy has one.                    *)
(***************************************************************************)
WrittenTypes ==
    /\ row \in Copy /\ doc \in Copy /\ listed \in BOOLEAN
    /\ tagVec \in [Tags -> Statuses \union {None}]
    /\ docVec \in [status : Statuses, emb : Texts] \union {Absent}
    /\ jobs \in Nat /\ lost \in BOOLEAN
    /\ writer \in [Writers -> Writing]

ReadTypes ==
    /\ list \in [value : Copy, age : {"none", "fresh", "stale", "old"}]
    /\ refresh \in [at : {"idle", "keys", "read", "unlist", "store"}, value : Copy, previous : Copy \union {Nothing}]
    /\ snapshot \in Copy /\ ready \in BOOLEAN /\ building \in BOOLEAN
    /\ mutation \in Copy \union {Nothing}
    /\ repair \in [at : {"idle", "read", "apply"}, value : Copy]

\* A writer that is on its way to write has a copy that is there to be written.
Needs(w, at) ==
    \/ at \in {"set", "status", "list", "clear", "republish", "enqueue", "fields", "model",
               "dropTags", "writeTags", "publish"}
    \/ w = "load" /\ at = "find"

Loaded == \A w \in Writers : Needs(w, writer[w].at) => writer[w].value # Absent

CountTypes == writes \in 0..MaxWrites /\ errors \in 0..MaxErrors /\ allowed \in Regimes

\* The type invariant is the three parts together.
LEMMA TypesSplit == TypeOK <=> WrittenTypes /\ ReadTypes /\ CountTypes
BY DEF TypeOK, WrittenTypes, ReadTypes, CountTypes, Writing

\* The vectors made of a copy are typed.
LEMMA VectorTypes ==
    ASSUME NEW c \in Copy
    PROVE  /\ DocVector(c) \in [status : Statuses, emb : Texts] \union {Absent}
           /\ HasTagVector(c) => c \in Campaign /\ TagOf[c.text] \in Tags
<1>1. CASE c = Absent
  BY <1>1 DEF DocVector, HasTagVector
<1>2. CASE c # Absent
  BY <1>2, CopyHas, CopiesAssumption DEF DocVector, HasTagVector
<1> QED
  BY <1>1, <1>2

Typed == TypeOK /\ Loaded

\* A writer that moves on with a copy keeps all writers loaded.
LEMMA LoadedMoves ==
    ASSUME Loaded, NEW w \in Writers, NEW at, NEW c, Moves(w, at, c), Needs(w, at) => c # Absent
    PROVE  Loaded'
<1>1. ASSUME NEW v \in Writers, Needs(v, writer'[v].at)
      PROVE  writer'[v].value # Absent
  <2>1. CASE v = w
    BY <1>1, <2>1 DEF Moves
  <2>2. CASE v # w
    BY <1>1, <2>2 DEF Moves, Loaded
  <2> QED
    BY <2>1, <2>2
<1> QED
  BY <1>1 DEF Loaded

-----------------------------------------------------------------------------
(***************************************************************************)
(* What the steps do that set a field of a copy or start a writer, without *)
(* the updates they are written with.                                      *)
(***************************************************************************)

\* A load takes over what the document was embedded from, if its tag is the same.
LEMMA FindForLoadDoes ==
    ASSUME Typed, FindForLoad
    PROVE  /\ writer["load"].at = "find"
           /\ \E d \in Campaign :
                /\ Like(d, writer["load"].value.status, writer["load"].value.text,
                        IF doc # Absent /\ doc.emb # None /\ TagOf[doc.emb] = TagOf[writer["load"].value.text]
                        THEN doc.emb ELSE None)
                /\ Moves("load", "set", d)
           /\ UNCHANGED <<row, redis, jobs, lost, memory, writes, errors, allowed>>
<1> PICK c : c = writer["load"].value
  OBVIOUS
<1> PICK e : e = IF doc # Absent /\ doc.emb # None /\ TagOf[doc.emb] = TagOf[c.text] THEN doc.emb ELSE None
  OBVIOUS
<1>1. c \in Copy /\ c # Absent /\ doc \in Copy
  BY DEF Typed, TypeOK, Loaded, Needs, Writers, FindForLoad
<1>2. e \in Texts \union {None}
  BY <1>1, CopyHas
<1>3. Like([c EXCEPT !.emb = e], c.status, c.text, e)
  BY <1>1, <1>2, CopyChanges
<1>4. Carry("load", "set", [c EXCEPT !.emb = e])
  BY DEF FindForLoad
<1>5. Moves("load", "set", [c EXCEPT !.emb = e])
  BY <1>3, <1>4, Moving DEF Typed, Like, Copy, Steps, Writers
<1> QED
  BY <1>3, <1>5 DEF FindForLoad, Like

\* The cron job sets the status of a document that is there.
LEMMA SetStatusDoes ==
    ASSUME Typed, SetStatus
    PROVE  /\ writer["cron"].at = "status"
           /\ \/ doc = Absent /\ doc' = Absent /\ Moves("cron", "idle", Absent)
              \/ /\ doc # Absent /\ Like(doc', writer["cron"].value.status, doc.text, doc.emb)
                 /\ Moves("cron", "read", writer["cron"].value)
           /\ UNCHANGED <<row, listed, tagVec, docVec, jobs, lost, memory, writes, errors, allowed>>
<1>1. doc \in Copy /\ writer["cron"].value \in Copy /\ writer["cron"].value # Absent
  BY DEF Typed, TypeOK, Loaded, Needs, Writers, SetStatus
<1>2. writer["cron"].value.status \in Statuses
  BY <1>1, CopyHas
<1>3. doc # Absent => Like([doc EXCEPT !.status = writer["cron"].value.status],
                           writer["cron"].value.status, doc.text, doc.emb)
  BY <1>1, <1>2, CopyChanges
<1>4. /\ Finish("cron") => Moves("cron", "idle", Absent)
      /\ Goto("cron", "read") => Moves("cron", "read", writer["cron"].value)
  BY Moving DEF Typed, Steps, Writers
<1> QED
  BY <1>3, <1>4 DEF SetStatus

\* An edit clears what the document was embedded from, and its vectors.
LEMMA ClearEmbeddingDoes ==
    ASSUME Typed, ClearEmbedding
    PROVE  /\ writer["owner"].at = "clear"
           /\ \/ /\ doc = Absent /\ doc' = Absent /\ Moves("owner", "idle", Absent)
                 /\ UNCHANGED <<tagVec, docVec>>
              \/ /\ doc # Absent /\ Like(doc', doc.status, doc.text, None)
                 /\ tagVec' = [t \in Tags |-> None] /\ docVec' = Absent
                 /\ Moves("owner", "republish", writer["owner"].value)
           /\ UNCHANGED <<row, listed, jobs, lost, memory, writes, errors, allowed>>
<1>1. doc # Absent => Like([doc EXCEPT !.emb = None], doc.status, doc.text, None)
  BY CopyChanges DEF Typed, TypeOK
<1>2. /\ Finish("owner") => Moves("owner", "idle", Absent)
      /\ Goto("owner", "republish") => Moves("owner", "republish", writer["owner"].value)
  BY Moving DEF Typed, Steps, Writers
<1> QED
  BY <1>1, <1>2 DEF ClearEmbedding

\* An edit sets the text and the status, and leaves the embedding.
LEMMA SetFieldsDoes ==
    ASSUME Typed, SetFields
    PROVE  /\ writer["owner"].at = "fields"
           /\ \/ doc = Absent /\ doc' = Absent /\ Moves("owner", "idle", Absent)
              \/ /\ doc # Absent
                 /\ Like(doc', writer["owner"].value.status, writer["owner"].value.text, doc.emb)
                 /\ Moves("owner", "read", writer["owner"].value)
           /\ UNCHANGED <<row, listed, tagVec, docVec, jobs, lost, memory, writes, errors, allowed>>
<1> PICK c : c = writer["owner"].value
  OBVIOUS
<1>1. doc \in Copy /\ c \in Copy /\ c # Absent
  BY DEF Typed, TypeOK, Loaded, Needs, Writers, SetFields
<1>2. c.status \in Statuses /\ c.text \in Texts
  BY <1>1, CopyHas
<1>3. doc # Absent => Like([doc EXCEPT !.text = c.text, !.status = c.status], c.status, c.text, doc.emb)
  BY <1>1, <1>2, CopyChanges
<1>4. /\ Finish("owner") => Moves("owner", "idle", Absent)
      /\ Goto("owner", "read") => Moves("owner", "read", writer["owner"].value)
  BY Moving DEF Typed, Steps, Writers
<1> QED
  BY <1>3, <1>4 DEF SetFields

\* A job sets what it embedded in a document that is still there.
LEMMA SetEmbeddingsDoes ==
    ASSUME Typed, SetEmbeddings
    PROVE  /\ writer["worker"].at = "model"
           /\ \/ doc = Absent /\ doc' = Absent
              \/ doc # Absent /\ Like(doc', doc.status, doc.text, writer["worker"].value.text)
           /\ Moves("worker", "read", writer["worker"].value)
           /\ UNCHANGED <<row, listed, tagVec, docVec, jobs, lost, memory, writes, errors, allowed>>
<1> PICK c : c = writer["worker"].value
  OBVIOUS
<1>1. doc \in Copy /\ c \in Copy /\ c # Absent
  BY DEF Typed, TypeOK, Loaded, Needs, Writers, SetEmbeddings
<1>2. c.text \in Texts \union {None}
  BY <1>1, CopyHas
<1>3. doc # Absent => Like([doc EXCEPT !.emb = c.text], doc.status, doc.text, c.text)
  BY <1>1, <1>2, CopyChanges
<1>4. Goto("worker", "read") => Moves("worker", "read", writer["worker"].value)
  BY Moving DEF Typed, Steps, Writers
<1> QED
  BY <1>3, <1>4 DEF SetEmbeddings

\* A writer starts when it may, and not beside a reader that forbids it.
LEMMA StartDoes ==
    ASSUME TypeOK, NEW w \in Writers, NEW at \in Steps, NEW c \in Copy, Start(w, at, c)
    PROVE  /\ writer[w].at = "idle"
           /\ May("overlap") \/ ~Working \/ (w = "worker" /\ May("eager"))
           /\ \/ w = "worker" \/ ServerWrites
              \/ refresh.at = "idle" \/ May("refresh") \/ May("boot") \/ May("error")
           /\ w = "worker" \/ ServerWrites \/ repair.at = "idle" \/ May("repair")
           /\ writes' \in 0..MaxWrites
           /\ Moves(w, at, c)
<1>1. Moves(w, at, c)
  BY Moving DEF Start
<1>2. writes' \in 0..MaxWrites
  BY CopiesAssumption DEF Start, TypeOK
<1> QED
  BY <1>1, <1>2 DEF Start

\* A change of the status starts from the document.
LEMMA StartStatusDoes ==
    ASSUME Typed, NEW s \in Statuses, StartStatus(s)
    PROVE  /\ doc # Absent
           /\ \E d \in Copy : Like(d, s, doc.text, doc.emb) /\ Start("cron", "status", d)
           /\ UNCHANGED <<row, redis, jobs, lost, memory, errors, allowed>>
<1>1. Like([doc EXCEPT !.status = s], s, doc.text, doc.emb)
  BY CopyChanges DEF Typed, TypeOK, StartStatus
<1> QED
  BY <1>1 DEF StartStatus, Like, Copy

\* An edit starts from the row as its transaction left it.
LEMMA StartEditDoes ==
    ASSUME Typed, NEW t \in Texts, StartEdit(t)
    PROVE  /\ row # Absent /\ doc # Absent
           /\ Like(row', row.status, t, row.emb)
           /\ Start("owner", "clear", row')
           /\ UNCHANGED <<redis, jobs, lost, memory, errors, allowed>>
<1>1. row # Absent => Like([row EXCEPT !.text = t], row.status, t, row.emb)
  BY CopyChanges DEF Typed, TypeOK
<1> QED
  BY <1>1 DEF StartEdit

\* After the old vectors are gone, the tag vectors are those of the copy.
LEMMA WriteTagsDoes ==
    ASSUME Typed, NEW w \in Writers, WriteTags(w)
    PROVE  /\ writer[w].at = "writeTags"
           /\ tagVec' \in [Tags -> Statuses \union {None}]
           /\ tagVec = [t \in Tags |-> None] => tagVec' = TagVectors(writer[w].value)
           /\ Moves(w, "publish", writer[w].value)
           /\ UNCHANGED <<row, doc, listed, docVec, jobs, lost, memory, writes, errors, allowed>>
<1> PICK c : c = writer[w].value
  OBVIOUS
<1>1. c \in Copy /\ c # Absent
  BY DEF Typed, TypeOK, Loaded, Needs, WriteTags
<1>2. c.status \in Statuses /\ TagOf[c.text] \in Tags
  BY <1>1, CopyHas, CopiesAssumption
<1>3. tagVec \in [Tags -> Statuses \union {None}]
  BY DEF Typed, TypeOK
<1>4. tagVec' = IF HasTagVector(c) THEN [tagVec EXCEPT ![TagOf[c.text]] = c.status] ELSE tagVec
  BY DEF WriteTags
<1>5. tagVec' \in [Tags -> Statuses \union {None}]
  BY <1>2, <1>3, <1>4
<1>6. ASSUME tagVec = [t \in Tags |-> None]
      PROVE  tagVec' = TagVectors(c)
  BY <1>2, <1>4, <1>5, <1>6 DEF TagVectors
<1>7. Moves(w, "publish", writer[w].value)
  BY Moving DEF Typed, Steps, WriteTags
<1> QED
  BY <1>5, <1>6, <1>7 DEF WriteTags

\* Publishing writes the vector, emits the copy, and ends the writer.
LEMMA PublishCopyDoes ==
    ASSUME Typed, NEW w \in Writers, PublishCopy(w)
    PROVE  /\ writer[w].at = "publish"
           /\ docVec' = DocVector(writer[w].value)
           /\ docVec' \in [status : Statuses, emb : Texts] \union {Absent}
           /\ w = "worker" => UNCHANGED memory
           /\ w # "worker" => PublishUpsert(writer[w].value)
           /\ jobs' \in Nat /\ lost' \in BOOLEAN
           /\ jobs' >= jobs
           /\ w = "load" /\ ~HasRequiredEmbeddings(writer[w].value) => jobs' > 0
           /\ w # "load" => jobs' = jobs
           /\ lost => lost' \/ jobs' > 0
           /\ \/ row' = row
              \/ w = "cron" /\ row # Absent /\ Like(row', writer[w].value.status, row.text, row.emb)
           /\ w # "cron" => row' = row
           /\ Moves(w, "idle", Absent)
           /\ UNCHANGED <<doc, listed, tagVec, writes, errors, allowed>>
<1> PICK c : c = writer[w].value
  OBVIOUS
<1>1. c \in Copy /\ c # Absent /\ row \in Copy /\ jobs \in Nat /\ lost \in BOOLEAN
  BY DEF Typed, TypeOK, Loaded, Needs, PublishCopy
<1>2. c.status \in Statuses
  BY <1>1, CopyHas
<1>3. row # Absent => Like([row EXCEPT !.status = c.status], c.status, row.text, row.emb)
  BY <1>1, <1>2, CopyChanges
<1>4. Moves(w, "idle", Absent)
  BY Moving DEF Typed, PublishCopy
<1>5. /\ jobs' = (IF w = "load" /\ ~HasRequiredEmbeddings(c) THEN jobs + 1 ELSE jobs)
      /\ lost' = (lost /\ ~(w = "load" /\ ~HasRequiredEmbeddings(c)))
  BY DEF PublishCopy
<1>6. row' = IF w = "cron" /\ row # Absent THEN [row EXCEPT !.status = c.status] ELSE row
  BY DEF PublishCopy
<1>7. DocVector(c) \in [status : Statuses, emb : Texts] \union {Absent}
  BY <1>1, VectorTypes
<1>8. /\ jobs' \in Nat /\ jobs' >= jobs /\ lost' \in BOOLEAN
      /\ w = "load" /\ ~HasRequiredEmbeddings(c) => jobs' > 0
      /\ w # "load" => jobs' = jobs
      /\ lost => lost' \/ jobs' > 0
  BY <1>1, <1>5
<1>9. /\ row' = row \/ (w = "cron" /\ row # Absent /\ Like(row', c.status, row.text, row.emb))
      /\ w # "cron" => row' = row
  BY <1>3, <1>6
<1> QED
  BY <1>4, <1>7, <1>8, <1>9 DEF PublishCopy

\* A job that fails ends, or goes on without having set anything; it is handed
\* out again or lost.
LEMMA FailJobDoes ==
    ASSUME Typed, FailJob
    PROVE  /\ May("failure") /\ writer["worker"].at # "idle"
           /\ \/ Moves("worker", "idle", Absent)
              \/ writer["worker"].at = "model" /\ Moves("worker", "read", writer["worker"].value)
           /\ jobs' \in Nat /\ lost' \in BOOLEAN /\ errors' \in 0..MaxErrors
           /\ jobs' >= jobs /\ (lost => lost')
           /\ lost' \/ jobs' > 0
           /\ UNCHANGED <<row, redis, memory, writes, allowed>>
<1>1. jobs \in Nat /\ lost \in BOOLEAN /\ errors \in 0..MaxErrors /\ MaxErrors \in Nat
  BY CopiesAssumption DEF Typed, TypeOK
<1>2. /\ Finish("worker") => Moves("worker", "idle", Absent)
      /\ Goto("worker", "read") => Moves("worker", "read", writer["worker"].value)
  BY Moving DEF Typed, Steps, Writers
<1>3. /\ jobs' \in Nat /\ errors' \in 0..MaxErrors /\ jobs' >= jobs
      /\ jobs' > 0 \/ lost' = TRUE
  BY <1>1 DEF FailJob
<1>4. lost' \in BOOLEAN /\ (lost => lost')
  BY <1>1 DEF FailJob
<1> QED
  BY <1>2, <1>3, <1>4 DEF FailJob

\* Where a writer goes when it starts.
LEMMA StartMoves ==
    ASSUME Typed
    PROVE  /\ StartLoad => Moves("load", "find", row)
           /\ StartDelete => Moves("owner", "remove", Absent)
           /\ StartJob => Moves("worker", "find", Absent)
           /\ \A s \in Statuses : StartStatus(s) =>
                \E d \in Copy : Like(d, s, doc.text, doc.emb) /\ Moves("cron", "status", d)
           /\ \A t \in Texts : StartEdit(t) => Moves("owner", "clear", row')
<1> USE DEF Typed, Steps, Writers
<1>1. StartLoad => Moves("load", "find", row)
  BY StartDoes DEF StartLoad, TypeOK
<1>2. StartDelete => Moves("owner", "remove", Absent)
  BY StartDoes, AbsentIsCopy DEF StartDelete
<1>3. StartJob => Moves("worker", "find", Absent)
  BY StartDoes, AbsentIsCopy DEF StartJob
<1>4. ASSUME NEW s \in Statuses, StartStatus(s)
      PROVE  \E d \in Copy : Like(d, s, doc.text, doc.emb) /\ Moves("cron", "status", d)
  BY <1>4, StartStatusDoes, StartDoes
<1>5. ASSUME NEW t \in Texts, StartEdit(t)
      PROVE  Moves("owner", "clear", row')
  BY <1>5, StartEditDoes, StartDoes DEF Like, Copy
<1> QED
  BY <1>1, <1>2, <1>3, <1>4, <1>5

\* Where the steps go that change no field of a copy.
LEMMA WriterMoves ==
    ASSUME Typed
    PROVE  /\ SaveDoc => Moves("load", "list", writer["load"].value)
           /\ ListKey => Moves("load", "dropTags", writer["load"].value)
           /\ RepublishCleared => Moves("owner", "enqueue", writer["owner"].value)
           /\ EnqueueJob => Moves("owner", "fields", writer["owner"].value)
           /\ FindForJob => IF doc = Absent THEN Moves("worker", "idle", Absent) ELSE Moves("worker", "model", doc)
           /\ RemoveDoc => Moves("owner", "unlist", writer["owner"].value)
           /\ UnlistKey => Moves("owner", "dropVectors", writer["owner"].value)
           /\ DropVectors => Moves("owner", "removed", writer["owner"].value)
           /\ EmitRemoved => Moves("owner", "idle", Absent)
           /\ \A w \in Writers : ReadBack(w) =>
                IF doc = Absent THEN Moves(w, "idle", Absent) ELSE Moves(w, "dropTags", doc)
           /\ \A w \in Writers : DropTags(w) => Moves(w, "writeTags", writer[w].value)
<1> USE Moving DEF Typed, Steps, Writers
<1>1. SaveDoc => Moves("load", "list", writer["load"].value)
  BY DEF SaveDoc
<1>2. ListKey => Moves("load", "dropTags", writer["load"].value)
  BY DEF ListKey
<1>3. RepublishCleared => Moves("owner", "enqueue", writer["owner"].value)
  BY DEF RepublishCleared
<1>4. EnqueueJob => Moves("owner", "fields", writer["owner"].value)
  BY DEF EnqueueJob
<1>5. RemoveDoc => Moves("owner", "unlist", writer["owner"].value)
  BY DEF RemoveDoc
<1>6. UnlistKey => Moves("owner", "dropVectors", writer["owner"].value)
  BY DEF UnlistKey
<1>7. DropVectors => Moves("owner", "removed", writer["owner"].value)
  BY DEF DropVectors
<1>8. EmitRemoved => Moves("owner", "idle", Absent)
  BY DEF EmitRemoved
<1>9. FindForJob => IF doc = Absent THEN Moves("worker", "idle", Absent) ELSE Moves("worker", "model", doc)
  BY DEF FindForJob, TypeOK
<1>10. ASSUME NEW w \in Writers, ReadBack(w)
       PROVE  IF doc = Absent THEN Moves(w, "idle", Absent) ELSE Moves(w, "dropTags", doc)
  BY <1>10 DEF ReadBack, TypeOK
<1>11. ASSUME NEW w \in Writers, DropTags(w)
       PROVE  Moves(w, "writeTags", writer[w].value)
  BY <1>11 DEF DropTags
<1> QED
  BY <1>1, <1>2, <1>3, <1>4, <1>5, <1>6, <1>7, <1>8, <1>9, <1>10, <1>11

\* A step of a writer, the start of one included.
WritersAct ==
    \/ StartLoad
    \/ StartDelete
    \/ StartJob
    \/ \E s \in Statuses : StartStatus(s)
    \/ \E t \in Texts : StartEdit(t)
    \/ FindForLoad
    \/ SaveDoc
    \/ ListKey
    \/ SetStatus
    \/ ClearEmbedding
    \/ RepublishCleared
    \/ EnqueueJob
    \/ SetFields
    \/ FindForJob
    \/ SetEmbeddings
    \/ FailJob
    \/ \E w \in Writers : ReadBack(w)
    \/ \E w \in Writers : DropTags(w)
    \/ \E w \in Writers : WriteTags(w)
    \/ \E w \in Writers : PublishCopy(w)
    \/ RemoveDoc
    \/ UnlistKey
    \/ DropVectors
    \/ EmitRemoved

\* Writers keep the types of what they write ...
LEMMA WritersKeepTypes ==
    ASSUME Typed, WritersAct
    PROVE  WrittenTypes'
<1> USE DEF WrittenTypes, Typed, TypeOK, Moves
<1>1. ASSUME StartLoad
      PROVE  WrittenTypes'
  BY <1>1, StartMoves DEF StartLoad, Start, redis
<1>2. ASSUME StartDelete
      PROVE  WrittenTypes'
  BY <1>2, StartMoves, AbsentIsCopy DEF StartDelete, Start, redis
<1>3. ASSUME StartJob
      PROVE  WrittenTypes'
  BY <1>3, StartMoves DEF StartJob, Start, redis
<1>4. ASSUME NEW s \in Statuses, StartStatus(s)
      PROVE  WrittenTypes'
  BY <1>4, StartMoves, StartStatusDoes DEF Start, redis
<1>5. ASSUME NEW t \in Texts, StartEdit(t)
      PROVE  WrittenTypes'
  BY <1>5, StartMoves, StartEditDoes DEF Start, redis, Copy, Like
<1>6. ASSUME FindForLoad
      PROVE  WrittenTypes'
  BY <1>6, FindForLoadDoes DEF redis
<1>7. ASSUME SaveDoc
      PROVE  WrittenTypes'
  BY <1>7, WriterMoves DEF SaveDoc, redis, Writers
<1>8. ASSUME ListKey
      PROVE  WrittenTypes'
  BY <1>8, WriterMoves DEF ListKey, redis
<1>9. ASSUME SetStatus
      PROVE  WrittenTypes'
  BY <1>9, SetStatusDoes DEF redis, Copy, Like
<1>10. ASSUME ClearEmbedding
      PROVE  WrittenTypes'
  BY <1>10, ClearEmbeddingDoes DEF redis, Copy, Like
<1>11. ASSUME RepublishCleared
      PROVE  WrittenTypes'
  BY <1>11, WriterMoves DEF RepublishCleared, redis
<1>12. ASSUME EnqueueJob
      PROVE  WrittenTypes'
  <2>1. jobs' \in Nat
    BY <1>12 DEF EnqueueJob
  <2>2. lost' \in BOOLEAN
    BY <1>12 DEF EnqueueJob
  <2>3. UNCHANGED <<row, doc, listed, tagVec, docVec>> /\ Moves("owner", "fields", writer["owner"].value)
    BY <1>12, WriterMoves DEF EnqueueJob, redis
  <2> QED
    BY <2>1, <2>2, <2>3
<1>13. ASSUME SetFields
      PROVE  WrittenTypes'
  BY <1>13, SetFieldsDoes DEF redis, Copy, Like
<1>14. ASSUME FindForJob
      PROVE  WrittenTypes'
  BY <1>14, WriterMoves DEF FindForJob, redis
<1>15. ASSUME SetEmbeddings
      PROVE  WrittenTypes'
  BY <1>15, SetEmbeddingsDoes DEF redis, Copy, Like
<1>16. ASSUME NEW w \in Writers, ReadBack(w)
      PROVE  WrittenTypes'
  BY <1>16, WriterMoves DEF ReadBack, redis
<1>17. ASSUME NEW w \in Writers, DropTags(w)
      PROVE  WrittenTypes'
  BY <1>17, WriterMoves DEF DropTags, redis
<1>18. ASSUME NEW w \in Writers, WriteTags(w)
      PROVE  WrittenTypes'
  BY <1>18, WriteTagsDoes DEF redis
<1>19. ASSUME NEW w \in Writers, PublishCopy(w)
      PROVE  WrittenTypes'
  BY <1>19, PublishCopyDoes DEF redis, Copy, Like
<1>20. ASSUME RemoveDoc
      PROVE  WrittenTypes'
  BY <1>20, WriterMoves, AbsentIsCopy DEF RemoveDoc, redis
<1>21. ASSUME UnlistKey
      PROVE  WrittenTypes'
  BY <1>21, WriterMoves DEF UnlistKey, redis
<1>22. ASSUME DropVectors
      PROVE  WrittenTypes'
  BY <1>22, WriterMoves DEF DropVectors, redis
<1>23. ASSUME EmitRemoved
      PROVE  WrittenTypes'
  BY <1>23, WriterMoves DEF EmitRemoved, redis
<1>24. ASSUME FailJob
      PROVE  WrittenTypes'
  BY <1>24, FailJobDoes DEF redis
<1> QED
  BY <1>1, <1>2, <1>3, <1>4, <1>5, <1>6, <1>7, <1>8, <1>9, <1>10, <1>11, <1>12, <1>13, <1>14, <1>15, <1>16, <1>17,
     <1>18, <1>19, <1>20, <1>21, <1>22, <1>23, <1>24 DEF WritersAct

\* ... keep having a copy when they are to write one ...
LEMMA WritersKeepLoaded ==
    ASSUME Typed, WritersAct
    PROVE  Loaded'
<1> USE LoadedMoves DEF Typed, Writers
<1>1. ASSUME StartLoad
      PROVE  Loaded'
  BY <1>1, StartMoves DEF StartLoad, Start, Needs, Like
<1>2. ASSUME StartDelete
      PROVE  Loaded'
  BY <1>2, StartMoves DEF StartDelete, Start, Needs, Like
<1>3. ASSUME StartJob
      PROVE  Loaded'
  BY <1>3, StartMoves DEF StartJob, Start, Needs, Like
<1>4. ASSUME NEW s \in Statuses, StartStatus(s)
      PROVE  Loaded'
  BY <1>4, StartMoves, StartStatusDoes DEF Start, Needs, Like
<1>5. ASSUME NEW t \in Texts, StartEdit(t)
      PROVE  Loaded'
  BY <1>5, StartMoves, StartEditDoes DEF Start, Needs, Like
<1>6. ASSUME FindForLoad
      PROVE  Loaded'
  BY <1>6, FindForLoadDoes DEF Needs, Like
<1>7. ASSUME SaveDoc
      PROVE  Loaded'
  BY <1>7, WriterMoves DEF SaveDoc, Needs, Like, Loaded
<1>8. ASSUME ListKey
      PROVE  Loaded'
  BY <1>8, WriterMoves DEF ListKey, Needs, Like, Loaded
<1>9. ASSUME SetStatus
      PROVE  Loaded'
  BY <1>9, SetStatusDoes DEF Needs, Like
<1>10. ASSUME ClearEmbedding
      PROVE  Loaded'
  BY <1>10, ClearEmbeddingDoes DEF Needs, Like, Loaded
<1>11. ASSUME RepublishCleared
      PROVE  Loaded'
  BY <1>11, WriterMoves DEF RepublishCleared, Needs, Like, Loaded
<1>12. ASSUME EnqueueJob
      PROVE  Loaded'
  BY <1>12, WriterMoves DEF EnqueueJob, Needs, Like, Loaded
<1>13. ASSUME SetFields
      PROVE  Loaded'
  BY <1>13, SetFieldsDoes DEF Needs, Like
<1>14. ASSUME FindForJob
      PROVE  Loaded'
  BY <1>14, WriterMoves DEF FindForJob, Needs, Like
<1>15. ASSUME SetEmbeddings
      PROVE  Loaded'
  BY <1>15, SetEmbeddingsDoes DEF Needs, Like
<1>16. ASSUME NEW w \in Writers, ReadBack(w)
      PROVE  Loaded'
  BY <1>16, WriterMoves DEF ReadBack, Needs, Like
<1>17. ASSUME NEW w \in Writers, DropTags(w)
      PROVE  Loaded'
  BY <1>17, WriterMoves DEF DropTags, Needs, Like, Loaded
<1>18. ASSUME NEW w \in Writers, WriteTags(w)
      PROVE  Loaded'
  BY <1>18, WriteTagsDoes DEF Needs, Like, Loaded
<1>19. ASSUME NEW w \in Writers, PublishCopy(w)
      PROVE  Loaded'
  BY <1>19, PublishCopyDoes DEF Needs, Like
<1>20. ASSUME RemoveDoc
      PROVE  Loaded'
  BY <1>20, WriterMoves DEF RemoveDoc, Needs, Like
<1>21. ASSUME UnlistKey
      PROVE  Loaded'
  BY <1>21, WriterMoves DEF UnlistKey, Needs, Like
<1>22. ASSUME DropVectors
      PROVE  Loaded'
  BY <1>22, WriterMoves DEF DropVectors, Needs, Like
<1>23. ASSUME EmitRemoved
      PROVE  Loaded'
  BY <1>23, WriterMoves DEF EmitRemoved, Needs, Like
<1>24. ASSUME FailJob
      PROVE  Loaded'
  BY <1>24, FailJobDoes DEF Needs, Like
<1> QED
  BY <1>1, <1>2, <1>3, <1>4, <1>5, <1>6, <1>7, <1>8, <1>9, <1>10, <1>11, <1>12, <1>13, <1>14, <1>15, <1>16, <1>17,
     <1>18, <1>19, <1>20, <1>21, <1>22, <1>23, <1>24 DEF WritersAct

\* An event that has not come is not the event of a removal.
LEMMA NothingIsNoCopy == Nothing \notin Copy
BY CopiesAssumption DEF Nothing, Copy, Campaign, Absent, Statuses

\* Events keep the types.
LEMMA EmitTypes ==
    ASSUME ReadTypes, NEW c \in Copy, Emit(c)
    PROVE  ReadTypes'
BY AbsentIsCopy DEF ReadTypes, Emit, Take, NoList

\* ... and keep the types of what readers keep.
LEMMA WritersKeepReadTypes ==
    ASSUME Typed, WritersAct
    PROVE  ReadTypes'
<1>0. ReadTypes
  BY TypesSplit DEF Typed
<1>1. ASSUME UNCHANGED memory
      PROVE  ReadTypes'
  BY <1>0, <1>1 DEF memory, ReadTypes
<1>2. ASSUME RepublishCleared
      PROVE  ReadTypes'
  BY <1>0, <1>1, <1>2, EmitTypes DEF RepublishCleared, PublishUpsert, Typed, TypeOK
<1>3. ASSUME NEW w \in Writers, PublishCopy(w)
      PROVE  ReadTypes'
  BY <1>0, <1>1, <1>3, EmitTypes, PublishCopyDoes DEF PublishUpsert, Typed, TypeOK
<1>4. CASE EmitRemoved
  BY <1>0, <1>4, EmitTypes, AbsentIsCopy DEF EmitRemoved
<1>5. UNCHANGED memory \/ RepublishCleared \/ EmitRemoved \/ \E w \in Writers : PublishCopy(w)
  <2>1. ASSUME StartLoad
        PROVE  UNCHANGED memory
    BY <2>1 DEF StartLoad
  <2>2. ASSUME StartDelete
        PROVE  UNCHANGED memory
    BY <2>2 DEF StartDelete
  <2>3. ASSUME StartJob
        PROVE  UNCHANGED memory
    BY <2>3 DEF StartJob
  <2>4. ASSUME NEW s \in Statuses, StartStatus(s)
        PROVE  UNCHANGED memory
    BY <2>4, StartStatusDoes
  <2>5. ASSUME NEW t \in Texts, StartEdit(t)
        PROVE  UNCHANGED memory
    BY <2>5, StartEditDoes
  <2>6. ASSUME FindForLoad
        PROVE  UNCHANGED memory
    BY <2>6 DEF FindForLoad
  <2>7. ASSUME SaveDoc
        PROVE  UNCHANGED memory
    BY <2>7 DEF SaveDoc
  <2>8. ASSUME ListKey
        PROVE  UNCHANGED memory
    BY <2>8 DEF ListKey
  <2>9. ASSUME SetStatus
        PROVE  UNCHANGED memory
    BY <2>9 DEF SetStatus
  <2>10. ASSUME ClearEmbedding
        PROVE  UNCHANGED memory
    BY <2>10 DEF ClearEmbedding
  <2>11. ASSUME EnqueueJob
        PROVE  UNCHANGED memory
    BY <2>11 DEF EnqueueJob
  <2>12. ASSUME SetFields
        PROVE  UNCHANGED memory
    BY <2>12 DEF SetFields
  <2>13. ASSUME FindForJob
        PROVE  UNCHANGED memory
    BY <2>13 DEF FindForJob
  <2>14. ASSUME SetEmbeddings
        PROVE  UNCHANGED memory
    BY <2>14 DEF SetEmbeddings
  <2>15. ASSUME NEW w \in Writers, ReadBack(w)
        PROVE  UNCHANGED memory
    BY <2>15 DEF ReadBack
  <2>16. ASSUME NEW w \in Writers, DropTags(w)
        PROVE  UNCHANGED memory
    BY <2>16 DEF DropTags
  <2>17. ASSUME NEW w \in Writers, WriteTags(w)
        PROVE  UNCHANGED memory
    BY <2>17 DEF WriteTags
  <2>18. ASSUME RemoveDoc
        PROVE  UNCHANGED memory
    BY <2>18 DEF RemoveDoc
  <2>19. ASSUME UnlistKey
        PROVE  UNCHANGED memory
    BY <2>19 DEF UnlistKey
  <2>20. ASSUME DropVectors
        PROVE  UNCHANGED memory
    BY <2>20 DEF DropVectors
  <2>21. ASSUME FailJob
        PROVE  UNCHANGED memory
    BY <2>21 DEF FailJob
  <2> QED
    BY <2>1, <2>2, <2>3, <2>4, <2>5, <2>6, <2>7, <2>8, <2>9, <2>10, <2>11, <2>12, <2>13, <2>14, <2>15, <2>16, <2>17,
       <2>18, <2>19, <2>20, <2>21 DEF WritersAct
<1> QED
  BY <1>1, <1>2, <1>3, <1>4, <1>5

\* A step of one who reads copies, or of time.
ReadersAct ==
    \/ ReaderStep \/ StartRefresh \/ StartBuild \/ StartRepair \/ FailRefresh \/ Age

\* Readers change neither the row nor the document nor the vectors.
LEMMA ReadersLeave ==
    ASSUME ReadersAct
    PROVE  UNCHANGED <<row, doc, tagVec, docVec, jobs, lost, writer, writes, allowed>>
<1>1. ASSUME ReadKeys
      PROVE  UNCHANGED <<row, doc, tagVec, docVec, jobs, lost, writer, writes, allowed>>
  BY <1>1 DEF ReadKeys, redis
<1>2. ASSUME ReadDocs
      PROVE  UNCHANGED <<row, doc, tagVec, docVec, jobs, lost, writer, writes, allowed>>
  BY <1>2 DEF ReadDocs, redis
<1>3. ASSUME UnlistStale
      PROVE  UNCHANGED <<row, doc, tagVec, docVec, jobs, lost, writer, writes, allowed>>
  BY <1>3 DEF UnlistStale, redis
<1>4. ASSUME StoreList
      PROVE  UNCHANGED <<row, doc, tagVec, docVec, jobs, lost, writer, writes, allowed>>
  BY <1>4 DEF StoreList, redis
<1>5. ASSUME ReadForRepair
      PROVE  UNCHANGED <<row, doc, tagVec, docVec, jobs, lost, writer, writes, allowed>>
  BY <1>5 DEF ReadForRepair, redis
<1>6. ASSUME ApplyRepair
      PROVE  UNCHANGED <<row, doc, tagVec, docVec, jobs, lost, writer, writes, allowed>>
  BY <1>6 DEF ApplyRepair, redis
<1>7. ASSUME StartRefresh
      PROVE  UNCHANGED <<row, doc, tagVec, docVec, jobs, lost, writer, writes, allowed>>
  BY <1>7 DEF StartRefresh, redis
<1>8. ASSUME StartBuild
      PROVE  UNCHANGED <<row, doc, tagVec, docVec, jobs, lost, writer, writes, allowed>>
  BY <1>8 DEF StartBuild, redis
<1>9. ASSUME StartRepair
      PROVE  UNCHANGED <<row, doc, tagVec, docVec, jobs, lost, writer, writes, allowed>>
  BY <1>9 DEF StartRepair, redis
<1>10. ASSUME FailRefresh
      PROVE  UNCHANGED <<row, doc, tagVec, docVec, jobs, lost, writer, writes, allowed>>
  BY <1>10 DEF FailRefresh, redis
<1>11. ASSUME Age
      PROVE  UNCHANGED <<row, doc, tagVec, docVec, jobs, lost, writer, writes, allowed>>
  BY <1>11 DEF Age, redis
<1> QED
  BY <1>1, <1>2, <1>3, <1>4, <1>5, <1>6, <1>7, <1>8, <1>9, <1>10, <1>11 DEF ReadersAct, ReaderStep

\* Readers keep the types.
LEMMA ReadersKeepTypes ==
    ASSUME TypeOK, ReadersAct
    PROVE  ReadTypes' /\ listed' \in BOOLEAN /\ errors' \in 0..MaxErrors
<1> USE DEF ReadTypes, TypeOK
<1>1. ASSUME ReadKeys
      PROVE  ReadTypes' /\ listed' \in BOOLEAN /\ errors' \in 0..MaxErrors
  BY <1>1, AbsentIsCopy, NothingIsNoCopy, CopiesAssumption DEF ReadKeys, redis
<1>2. ASSUME ReadDocs
      PROVE  ReadTypes' /\ listed' \in BOOLEAN /\ errors' \in 0..MaxErrors
  BY <1>2, AbsentIsCopy, NothingIsNoCopy, CopiesAssumption DEF ReadDocs, redis
<1>3. ASSUME UnlistStale
      PROVE  ReadTypes' /\ listed' \in BOOLEAN /\ errors' \in 0..MaxErrors
  BY <1>3, AbsentIsCopy, NothingIsNoCopy, CopiesAssumption DEF UnlistStale, redis
<1>4. ASSUME StoreList
      PROVE  ReadTypes' /\ listed' \in BOOLEAN /\ errors' \in 0..MaxErrors
  BY <1>4, AbsentIsCopy, NothingIsNoCopy, CopiesAssumption DEF StoreList, redis, Built, NoRefresh, NoList
<1>5. ASSUME ReadForRepair
      PROVE  ReadTypes' /\ listed' \in BOOLEAN /\ errors' \in 0..MaxErrors
  BY <1>5, AbsentIsCopy, NothingIsNoCopy, CopiesAssumption DEF ReadForRepair, redis, NoRepair
<1>6. ASSUME ApplyRepair
      PROVE  ReadTypes' /\ listed' \in BOOLEAN /\ errors' \in 0..MaxErrors
  BY <1>6, AbsentIsCopy, NothingIsNoCopy, CopiesAssumption DEF ApplyRepair, redis, NoRepair
<1>7. ASSUME StartRefresh
      PROVE  ReadTypes' /\ listed' \in BOOLEAN /\ errors' \in 0..MaxErrors
  BY <1>7, AbsentIsCopy, NothingIsNoCopy, CopiesAssumption DEF StartRefresh, redis, BeginRefresh
<1>8. ASSUME StartBuild
      PROVE  ReadTypes' /\ listed' \in BOOLEAN /\ errors' \in 0..MaxErrors
  <2>1. BeginRefresh => refresh' \in [at : {"idle", "keys", "read", "unlist", "store"}, value : Copy,
                                      previous : Copy \union {Nothing}]
    BY AbsentIsCopy DEF BeginRefresh
  <2>2. Built(list.value) => snapshot' \in Copy /\ ready' \in BOOLEAN /\ building' \in BOOLEAN
                             /\ mutation' \in Copy \union {Nothing}
    BY DEF Built
  <2>3. UNCHANGED <<list, repair, listed, errors>>
    BY <1>8 DEF StartBuild, redis
  <2>4. CASE list.age = "fresh"
    BY <1>8, <2>2, <2>3, <2>4 DEF StartBuild
  <2>5. CASE list.age # "fresh"
    BY <1>8, <2>1, <2>3, <2>5 DEF StartBuild
  <2> QED
    BY <2>4, <2>5
<1>9. ASSUME StartRepair
      PROVE  ReadTypes' /\ listed' \in BOOLEAN /\ errors' \in 0..MaxErrors
  BY <1>9, AbsentIsCopy, NothingIsNoCopy, CopiesAssumption DEF StartRepair, redis
<1>10. ASSUME FailRefresh
      PROVE  ReadTypes' /\ listed' \in BOOLEAN /\ errors' \in 0..MaxErrors
  <2> PICK v : v = IF refresh.previous = Nothing THEN Absent ELSE refresh.previous
    OBVIOUS
  <2>1. v \in Copy
    BY AbsentIsCopy
  <2>2. refresh' = [refresh EXCEPT !.at = "store", !.value = v]
    BY <1>10 DEF FailRefresh
  <2>3. refresh' \in [at : {"idle", "keys", "read", "unlist", "store"}, value : Copy, previous : Copy \union {Nothing}]
    BY <2>1, <2>2
  <2>4. errors' \in 0..MaxErrors
    BY <1>10, CopiesAssumption DEF FailRefresh
  <2> QED
    BY <1>10, <2>3, <2>4 DEF FailRefresh, redis
<1>11. ASSUME Age
      PROVE  ReadTypes' /\ listed' \in BOOLEAN /\ errors' \in 0..MaxErrors
  BY <1>11, AbsentIsCopy, NothingIsNoCopy, CopiesAssumption DEF Age, redis
<1> QED
  BY <1>1, <1>2, <1>3, <1>4, <1>5, <1>6, <1>7, <1>8, <1>9, <1>10, <1>11 DEF ReadersAct, ReaderStep

-----------------------------------------------------------------------------
(***************************************************************************)
(* The inductive invariant.  Each part belongs to the hazards it needs to  *)
(* be absent; what holds only between two steps of a writer names the step *)
(* the writer is at.                                                       *)
(***************************************************************************)

Busy(w) == writer[w].at # "idle"

\* Writers keep to the steps of their kind.
Roles ==
    /\ writer["load"].at \in {"idle", "find", "set", "list", "dropTags", "writeTags", "publish"}
    /\ writer["owner"].at \in {"idle", "clear", "republish", "enqueue", "fields", "read", "dropTags", "writeTags",
                               "publish", "remove", "unlist", "dropVectors", "removed"}
    /\ writer["cron"].at \in {"idle", "status", "read", "dropTags", "writeTags", "publish"}
    /\ writer["worker"].at \in {"idle", "find", "model", "read", "dropTags", "writeTags", "publish"}

\* One writer at a time, but for an embedding job that starts early; or one at a time.
InTurn == \A v, w \in Writers : Busy(v) /\ Busy(w) => v = w \/ "worker" \in {v, w}
Alone  == \A v, w \in Writers : Busy(v) /\ Busy(w) => v = w

Deleting == writer["owner"].at \in {"remove", "unlist", "dropVectors", "removed"}
Removed  == writer["owner"].at \in {"unlist", "dropVectors", "removed"}

(***************************************************************************)
(* The keys.  A document that is there has its key in the set; and who is  *)
(* about to take a key out of the set has found no document, and will find *)
(* none, since without expiry the campaign itself is gone, and with expiry *)
(* nobody reads the set while a writer works.                              *)
(***************************************************************************)
Keyed == Without({"overlap"}) /\ (Without({"expiry"}) \/ Without({"refresh", "boot", "error"}))

Listing ==
    /\ InTurn
    /\ Busy("load") => row # Absent
    /\ writer["load"].at = "list" => doc # Absent
    /\ Deleting => row = Absent
    /\ Removed => doc = Absent
    /\ doc # Absent /\ writer["load"].at # "list" => listed
    /\ refresh.at = "unlist" => doc = Absent
    /\ Without({"expiry"}) =>
         /\ listed => doc # Absent \/ row = Absent
         /\ refresh.at = "read" => doc # Absent \/ row = Absent
         /\ refresh.at = "unlist" => row = Absent
    /\ Without({"refresh", "boot", "error"}) => refresh.at = "idle" \/ ~ServerWrites

ListingInv == Keyed => Listing

(***************************************************************************)
(* What a writer carries after it has read is the document, which is there *)
(* until an owner removes it.                                              *)
(***************************************************************************)
Carrying ==
    /\ Alone
    /\ \A w \in Writers :
         /\ writer[w].at \in {"list", "dropTags", "writeTags", "publish", "model"} => writer[w].value = doc
         /\ writer[w].at \in {"status", "clear", "republish", "enqueue", "fields", "read", "list", "dropTags",
                              "writeTags", "publish", "model"} => doc # Absent
         /\ writer[w].at \in {"republish", "enqueue", "fields"} => doc.emb = None
         /\ writer[w].at \in {"unlist", "dropVectors", "removed"} => doc = Absent

CarryingInv == Without({"overlap", "eager"}) => Carrying

\* The vectors are those of the document, but where a writer replaces them.
Following ==
    /\ (\A w \in Writers : writer[w].at \in {"idle", "find", "set", "status", "clear", "republish", "enqueue",
                                             "fields", "model", "remove", "removed"})
         => tagVec = TagVectors(doc) /\ docVec = DocVector(doc)
    /\ \A w \in Writers :
         /\ writer[w].at = "writeTags" => tagVec = [t \in Tags |-> None]
         /\ writer[w].at = "publish" => tagVec = TagVectors(doc)

FollowingInv == Without({"overlap", "eager", "expiry", "failure"}) => Following

(***************************************************************************)
(* What is embedded is the text of the document, and that is the row's,    *)
(* but during an edit.  Where nothing is embedded, a job is waiting or has *)
(* failed, or somebody is about to ask for one.                            *)
(***************************************************************************)
Editing(w) == writer[w].at \in {"clear", "republish", "enqueue", "fields"}

Embedded ==
    /\ doc # Absent => doc.emb \in {None, doc.text}
    /\ row # Absent /\ doc # Absent => doc.text = row.text \/ Editing("owner")
    /\ Editing("owner") => writer["owner"].value = row /\ row # Absent
    /\ writer["load"].at = "find" => writer["load"].value = row /\ row # Absent
    /\ writer["load"].at = "set" =>
         /\ row # Absent /\ writer["load"].value # Absent
         /\ writer["load"].value.text = row.text /\ writer["load"].value.emb \in {None, row.text}
    /\ doc # Absent /\ doc.emb = None =>
         \/ jobs > 0 \/ lost \/ writer["owner"].at \in {"republish", "enqueue"}
         \/ writer["load"].at \in {"list", "dropTags", "writeTags", "publish"}
         \/ writer["worker"].at \in {"find", "model"}

EmbeddedInv == Without({"overlap", "eager"}) => Embedded

\* A writer of the server that has changed the document has still to tell it.
Announcing == \E w \in Writers \ {"worker"} : writer[w].at \in {"list", "republish", "enqueue", "fields", "read", "dropTags",
                  "writeTags", "publish", "unlist", "dropVectors", "removed"}

\* A list is what a reader finds, but for what is embedded, unless a writer has
\* still to invalidate it.
Current ==
    /\ refresh.at = "idle" \/ ~ServerWrites
    /\ refresh.at = "keys" => refresh.value = Absent
    /\ refresh.at = "read" => listed
    /\ refresh.at = "unlist" => doc = Absent /\ refresh.value = Absent
    /\ refresh.at = "store" => Alike(refresh.value, Findable)
    /\ writer["owner"].at \in {"clear", "republish", "enqueue", "fields", "read"} => doc # Absent
    /\ doc = Absent /\ writer["cron"].at = "read" => list.age = "none" \/ Removed
    /\ list.age = "none" \/ Alike(list.value, Findable) \/ Announcing

CurrentInv == Without({"refresh", "boot", "expiry", "error"}) => Current

(***************************************************************************)
(* The snapshot lags behind the document by an embedding at most, unless a *)
(* writer has still to announce it; and while it is built, the event that  *)
(* came last does, or without an event what was read.                      *)
(***************************************************************************)
Served ==
    /\ building => ~ready
    /\ repair.at # "idle" => ready /\ ~ServerWrites
    /\ repair.at = "apply" => Lags(repair.value, doc)
    /\ refresh.at = "keys" => refresh.value = Absent
    /\ ready => Lags(snapshot, doc) \/ Announcing
    /\ ~ready /\ mutation # Nothing => Lags(mutation, doc) \/ Announcing
    /\ ~ready /\ mutation = Nothing =>
         /\ refresh.at \in {"unlist", "store"} => Lags(refresh.value, doc) \/ Announcing
         /\ list.age # "none" => Lags(list.value, doc) \/ Announcing

ServedInv == Without({"overlap", "eager", "refresh", "repair", "expiry", "error", "disabled"}) => Served

CopiesInv ==
    /\ Typed /\ Roles
    /\ ListingInv /\ CarryingInv /\ FollowingInv /\ EmbeddedInv /\ CurrentInv /\ ServedInv

-----------------------------------------------------------------------------
(***************************************************************************)
(* The steps keep each part.                                               *)
(***************************************************************************)
\* Writers keep to the steps of their kind.
LEMMA WritersKeepRoles ==
    ASSUME Typed, Roles, WritersAct
    PROVE  Roles'
<1> USE DEF Roles, Moves, Writers
<1>1. ASSUME StartLoad
      PROVE  Roles'
  BY <1>1, StartMoves DEF StartLoad, Start
<1>2. ASSUME StartDelete
      PROVE  Roles'
  BY <1>2, StartMoves DEF StartDelete, Start
<1>3. ASSUME StartJob
      PROVE  Roles'
  BY <1>3, StartMoves DEF StartJob, Start
<1>4. ASSUME NEW s \in Statuses, StartStatus(s)
      PROVE  Roles'
  BY <1>4, StartMoves, StartStatusDoes DEF Start
<1>5. ASSUME NEW t \in Texts, StartEdit(t)
      PROVE  Roles'
  BY <1>5, StartMoves, StartEditDoes DEF Start
<1>6. ASSUME FindForLoad
      PROVE  Roles'
  BY <1>6, FindForLoadDoes
<1>7. ASSUME SaveDoc
      PROVE  Roles'
  BY <1>7, WriterMoves DEF SaveDoc
<1>8. ASSUME ListKey
      PROVE  Roles'
  BY <1>8, WriterMoves DEF ListKey
<1>9. ASSUME SetStatus
      PROVE  Roles'
  BY <1>9, SetStatusDoes
<1>10. ASSUME ClearEmbedding
      PROVE  Roles'
  BY <1>10, ClearEmbeddingDoes
<1>11. ASSUME RepublishCleared
      PROVE  Roles'
  BY <1>11, WriterMoves DEF RepublishCleared
<1>12. ASSUME EnqueueJob
      PROVE  Roles'
  BY <1>12, WriterMoves DEF EnqueueJob
<1>13. ASSUME SetFields
      PROVE  Roles'
  BY <1>13, SetFieldsDoes
<1>14. ASSUME FindForJob
      PROVE  Roles'
  BY <1>14, WriterMoves DEF FindForJob
<1>15. ASSUME SetEmbeddings
      PROVE  Roles'
  BY <1>15, SetEmbeddingsDoes
<1>16. ASSUME NEW w \in Writers, ReadBack(w)
      PROVE  Roles'
  BY <1>16, WriterMoves DEF ReadBack
<1>17. ASSUME NEW w \in Writers, DropTags(w)
      PROVE  Roles'
  BY <1>17, WriterMoves DEF DropTags
<1>18. ASSUME NEW w \in Writers, WriteTags(w)
      PROVE  Roles'
  BY <1>18, WriteTagsDoes
<1>19. ASSUME NEW w \in Writers, PublishCopy(w)
      PROVE  Roles'
  BY <1>19, PublishCopyDoes
<1>20. ASSUME RemoveDoc
      PROVE  Roles'
  BY <1>20, WriterMoves DEF RemoveDoc
<1>21. ASSUME UnlistKey
      PROVE  Roles'
  BY <1>21, WriterMoves DEF UnlistKey
<1>22. ASSUME DropVectors
      PROVE  Roles'
  BY <1>22, WriterMoves DEF DropVectors
<1>23. ASSUME EmitRemoved
      PROVE  Roles'
  BY <1>23, WriterMoves DEF EmitRemoved
<1>24. ASSUME FailJob
      PROVE  Roles'
  BY <1>24, FailJobDoes
<1> QED
  BY <1>1, <1>2, <1>3, <1>4, <1>5, <1>6, <1>7, <1>8, <1>9, <1>10, <1>11, <1>12, <1>13, <1>14, <1>15, <1>16, <1>17,
     <1>18, <1>19, <1>20, <1>21, <1>22, <1>23, <1>24 DEF WritersAct

\* Without overlap, what a writer carries stays what the document is.
LEMMA WritersCarry ==
    ASSUME Typed, Roles, Carrying, Without({"overlap", "eager"}), WritersAct
    PROVE  Carrying'
<1> USE DEF Carrying, Alone, Busy, Moves, Writers, Roles
<1>0. ~May("overlap") /\ ~May("eager")
  BY DEF Without, May
<1>1. ASSUME StartLoad
      PROVE  Carrying'
  BY <1>1, StartMoves, <1>0 DEF StartLoad, Start, Working, Like, redis
<1>2. ASSUME StartDelete
      PROVE  Carrying'
  BY <1>2, StartMoves, <1>0 DEF StartDelete, Start, Working, Like, redis
<1>3. ASSUME StartJob
      PROVE  Carrying'
  BY <1>3, StartMoves, <1>0 DEF StartJob, Start, Working, Like, redis
<1>4. ASSUME NEW s \in Statuses, StartStatus(s)
      PROVE  Carrying'
  BY <1>4, StartMoves, StartStatusDoes, <1>0 DEF Start, Working, Like, redis
<1>5. ASSUME NEW t \in Texts, StartEdit(t)
      PROVE  Carrying'
  BY <1>5, StartMoves, StartEditDoes, <1>0 DEF Start, Working, Like, redis
<1>6. ASSUME FindForLoad
      PROVE  Carrying'
  BY <1>6, FindForLoadDoes, <1>0 DEF Working, Like, redis
<1>7. ASSUME SaveDoc
      PROVE  Carrying'
  BY <1>7, WriterMoves, <1>0 DEF SaveDoc, Working, Like, redis, Typed, Loaded, Needs
<1>8. ASSUME ListKey
      PROVE  Carrying'
  BY <1>8, WriterMoves, <1>0 DEF ListKey, Working, Like, redis
<1>9. ASSUME SetStatus
      PROVE  Carrying'
  BY <1>9, SetStatusDoes, <1>0 DEF Working, Like, redis
<1>10. ASSUME ClearEmbedding
      PROVE  Carrying'
  BY <1>10, ClearEmbeddingDoes, <1>0 DEF Working, Like, redis
<1>11. ASSUME RepublishCleared
      PROVE  Carrying'
  BY <1>11, WriterMoves, <1>0 DEF RepublishCleared, Working, Like, redis
<1>12. ASSUME EnqueueJob
      PROVE  Carrying'
  BY <1>12, WriterMoves, <1>0 DEF EnqueueJob, Working, Like, redis
<1>13. ASSUME SetFields
      PROVE  Carrying'
  BY <1>13, SetFieldsDoes, <1>0 DEF Working, Like, redis
<1>14. ASSUME FindForJob
      PROVE  Carrying'
  BY <1>14, WriterMoves, <1>0 DEF FindForJob, Working, Like, redis
<1>15. ASSUME SetEmbeddings
      PROVE  Carrying'
  BY <1>15, SetEmbeddingsDoes, <1>0 DEF Working, Like, redis
<1>16. ASSUME NEW w \in Writers, ReadBack(w)
      PROVE  Carrying'
  BY <1>16, WriterMoves, <1>0 DEF ReadBack, Working, Like, redis
<1>17. ASSUME NEW w \in Writers, DropTags(w)
      PROVE  Carrying'
  BY <1>17, WriterMoves, <1>0 DEF DropTags, Working, Like, redis
<1>18. ASSUME NEW w \in Writers, WriteTags(w)
      PROVE  Carrying'
  BY <1>18, WriteTagsDoes, <1>0 DEF Working, Like, redis
<1>19. ASSUME NEW w \in Writers, PublishCopy(w)
      PROVE  Carrying'
  BY <1>19, PublishCopyDoes, <1>0 DEF Working, Like, redis
<1>20. ASSUME RemoveDoc
      PROVE  Carrying'
  BY <1>20, WriterMoves, <1>0 DEF RemoveDoc, Working, Like, redis
<1>21. ASSUME UnlistKey
      PROVE  Carrying'
  <2>1. writer["owner"].at = "unlist" /\ doc = Absent /\ doc' = doc
    BY <1>21 DEF UnlistKey
  <2>2. Moves("owner", "dropVectors", writer["owner"].value)
    BY <1>21, WriterMoves
  <2> QED
    BY <2>1, <2>2
<1>22. ASSUME DropVectors
      PROVE  Carrying'
  BY <1>22, WriterMoves, <1>0 DEF DropVectors, Working, Like, redis
<1>23. ASSUME EmitRemoved
      PROVE  Carrying'
  BY <1>23, WriterMoves, <1>0 DEF EmitRemoved, Working, Like, redis
<1>24. ASSUME FailJob
      PROVE  Carrying'
  BY <1>24, FailJobDoes, <1>0 DEF redis
<1> QED
  BY <1>1, <1>2, <1>3, <1>4, <1>5, <1>6, <1>7, <1>8, <1>9, <1>10, <1>11, <1>12, <1>13, <1>14, <1>15, <1>16, <1>17,
     <1>18, <1>19, <1>20, <1>21, <1>22, <1>23, <1>24 DEF WritersAct

\* A campaign that is not embedded has no vectors.
LEMMA NoVectors ==
    ASSUME NEW c, c = Absent \/ c.emb = None
    PROVE  TagVectors(c) = [t \in Tags |-> None] /\ DocVector(c) = Absent
BY DEF TagVectors, DocVector, HasTagVector

\* Without overlap and expiry, the vectors stay those of the document.
LEMMA WritersFollow ==
    ASSUME Typed, Roles, Carrying, Following, Without({"overlap", "eager", "failure"}), WritersAct
    PROVE  Following'
<1> USE DEF Following, Moves, Writers, Roles
<1>0. ~May("overlap") /\ ~May("eager") /\ ~May("failure")
  BY DEF Without, May
<1>c. /\ Alone
      /\ \A w \in Writers :
         /\ writer[w].at \in {"publish", "writeTags"} => writer[w].value = doc
         /\ writer[w].at = "read" => doc # Absent
         /\ writer[w].at = "fields" => doc.emb = None
         /\ writer[w].at = "dropVectors" => doc = Absent
  BY DEF Carrying
<1> USE DEF Alone, Busy
<1>1. ASSUME StartLoad
      PROVE  Following'
  BY <1>1, StartMoves, <1>0, <1>c, NoVectors DEF StartLoad, Start, Working, Like, redis
<1>2. ASSUME StartDelete
      PROVE  Following'
  BY <1>2, StartMoves, <1>0, <1>c, NoVectors DEF StartDelete, Start, Working, Like, redis
<1>3. ASSUME StartJob
      PROVE  Following'
  BY <1>3, StartMoves, <1>0, <1>c, NoVectors DEF StartJob, Start, Working, Like, redis
<1>4. ASSUME NEW s \in Statuses, StartStatus(s)
      PROVE  Following'
  BY <1>4, StartMoves, StartStatusDoes, <1>0, <1>c, NoVectors DEF Start, Working, Like, redis
<1>5. ASSUME NEW t \in Texts, StartEdit(t)
      PROVE  Following'
  BY <1>5, StartMoves, StartEditDoes, <1>0, <1>c, NoVectors DEF Start, Working, Like, redis
<1>6. ASSUME FindForLoad
      PROVE  Following'
  BY <1>6, FindForLoadDoes, <1>0, <1>c, NoVectors DEF Working, Like, redis
<1>7. ASSUME SaveDoc
      PROVE  Following'
  BY <1>7, WriterMoves, <1>0, <1>c, NoVectors DEF SaveDoc, Working, Like, redis
<1>8. ASSUME ListKey
      PROVE  Following'
  BY <1>8, WriterMoves, <1>0, <1>c, NoVectors DEF ListKey, Working, Like, redis
<1>9. ASSUME SetStatus
      PROVE  Following'
  BY <1>9, SetStatusDoes, <1>0, <1>c, NoVectors DEF Working, Like, redis
<1>10. ASSUME ClearEmbedding
      PROVE  Following'
  BY <1>10, ClearEmbeddingDoes, <1>0, <1>c, NoVectors DEF Working, Like, redis
<1>11. ASSUME RepublishCleared
      PROVE  Following'
  BY <1>11, WriterMoves, <1>0, <1>c, NoVectors DEF RepublishCleared, Working, Like, redis
<1>12. ASSUME EnqueueJob
      PROVE  Following'
  BY <1>12, WriterMoves, <1>0, <1>c, NoVectors DEF EnqueueJob, Working, Like, redis
<1>13. ASSUME SetFields
      PROVE  Following'
  BY <1>13, SetFieldsDoes, <1>0, <1>c, NoVectors DEF Working, Like, redis
<1>14. ASSUME FindForJob
      PROVE  Following'
  BY <1>14, WriterMoves, <1>0, <1>c, NoVectors DEF FindForJob, Working, Like, redis
<1>15. ASSUME SetEmbeddings
      PROVE  Following'
  BY <1>15, SetEmbeddingsDoes, <1>0, <1>c, NoVectors DEF Working, Like, redis
<1>16. ASSUME NEW w \in Writers, ReadBack(w)
      PROVE  Following'
  BY <1>16, WriterMoves, <1>0, <1>c, NoVectors DEF ReadBack, Working, Like, redis
<1>17. ASSUME NEW w \in Writers, DropTags(w)
      PROVE  Following'
  BY <1>17, WriterMoves, <1>0, <1>c, NoVectors DEF DropTags, Working, Like, redis
<1>18. ASSUME NEW w \in Writers, WriteTags(w)
      PROVE  Following'
  BY <1>18, WriteTagsDoes, <1>0, <1>c, NoVectors DEF Working, Like, redis
<1>19. ASSUME NEW w \in Writers, PublishCopy(w)
      PROVE  Following'
  BY <1>19, PublishCopyDoes, <1>0, <1>c, NoVectors DEF Working, Like, redis
<1>20. ASSUME RemoveDoc
      PROVE  Following'
  BY <1>20, WriterMoves, <1>0, <1>c, NoVectors DEF RemoveDoc, Working, Like, redis
<1>21. ASSUME UnlistKey
      PROVE  Following'
  BY <1>21, WriterMoves, <1>0, <1>c, NoVectors DEF UnlistKey, Working, Like, redis
<1>22. ASSUME DropVectors
      PROVE  Following'
  BY <1>22, WriterMoves, <1>0, <1>c, NoVectors DEF DropVectors, Working, Like, redis
<1>23. ASSUME EmitRemoved
      PROVE  Following'
  BY <1>23, WriterMoves, <1>0, <1>c, NoVectors DEF EmitRemoved, Working, Like, redis
<1>24. ~FailJob
  BY <1>0 DEF FailJob
<1> QED
  BY <1>1, <1>2, <1>3, <1>4, <1>5, <1>6, <1>7, <1>8, <1>9, <1>10, <1>11, <1>12, <1>13, <1>14, <1>15, <1>16, <1>17,
     <1>18, <1>19, <1>20, <1>21, <1>22, <1>23, <1>24 DEF WritersAct

\* Without overlap, what is embedded stays the text, or a job is waiting.
LEMMA WritersEmbed ==
    ASSUME Typed, Roles, Carrying, Embedded, Without({"overlap", "eager"}), WritersAct
    PROVE  Embedded'
<1> USE DEF Embedded, Moves, Writers, Roles, Carrying, Alone, Busy, Editing
<1>0. ~May("overlap") /\ ~May("eager")
  BY DEF Without, May
<1>c. doc \in Copy /\ row \in Copy /\ jobs \in Nat
  BY DEF Typed, TypeOK
<1>1. ASSUME StartLoad
      PROVE  Embedded'
  BY <1>1, StartMoves, <1>0, <1>c DEF StartLoad, Start, Working, Like, redis
<1>2. ASSUME StartDelete
      PROVE  Embedded'
  BY <1>2, StartMoves, <1>0, <1>c DEF StartDelete, Start, Working, Like, redis
<1>3. ASSUME StartJob
      PROVE  Embedded'
  BY <1>3, StartMoves, <1>0, <1>c DEF StartJob, Start, Working, Like, redis
<1>4. ASSUME NEW s \in Statuses, StartStatus(s)
      PROVE  Embedded'
  BY <1>4, StartMoves, StartStatusDoes, <1>0, <1>c DEF Start, Working, Like, redis
<1>5. ASSUME NEW t \in Texts, StartEdit(t)
      PROVE  Embedded'
  BY <1>5, StartMoves, StartEditDoes, <1>0, <1>c DEF Start, Working, Like, redis
<1>6. ASSUME FindForLoad
      PROVE  Embedded'
  BY <1>6, FindForLoadDoes, <1>0, <1>c DEF Working, Like, redis
<1>7. ASSUME SaveDoc
      PROVE  Embedded'
  BY <1>7, WriterMoves, <1>0, <1>c DEF SaveDoc, Working, Like, redis
<1>8. ASSUME ListKey
      PROVE  Embedded'
  BY <1>8, WriterMoves, <1>0, <1>c DEF ListKey, Working, Like, redis
<1>9. ASSUME SetStatus
      PROVE  Embedded'
  BY <1>9, SetStatusDoes, <1>0, <1>c DEF Working, Like, redis
<1>10. ASSUME ClearEmbedding
      PROVE  Embedded'
  BY <1>10, ClearEmbeddingDoes, <1>0, <1>c DEF Working, Like, redis
<1>11. ASSUME RepublishCleared
      PROVE  Embedded'
  BY <1>11, WriterMoves, <1>0, <1>c DEF RepublishCleared, Working, Like, redis
<1>12. ASSUME EnqueueJob
      PROVE  Embedded'
  <2>1. jobs' > 0
    BY <1>c, <1>12 DEF EnqueueJob
  <2>2. UNCHANGED <<row, doc>> /\ writer["owner"].at = "enqueue" /\ Moves("owner", "fields", writer["owner"].value)
    BY <1>12, WriterMoves DEF EnqueueJob, redis
  <2> QED
    BY <2>1, <2>2
<1>13. ASSUME SetFields
      PROVE  Embedded'
  BY <1>13, SetFieldsDoes, <1>0, <1>c DEF Working, Like, redis
<1>14. ASSUME FindForJob
      PROVE  Embedded'
  BY <1>14, WriterMoves, <1>0, <1>c DEF FindForJob, Working, Like, redis
<1>15. ASSUME SetEmbeddings
      PROVE  Embedded'
  <2>1. /\ writer["worker"].at = "model" /\ doc # Absent /\ writer["worker"].value = doc
        /\ Like(doc', doc.status, doc.text, doc.text)
        /\ Moves("worker", "read", writer["worker"].value) /\ row' = row /\ jobs' = jobs
    BY <1>15, SetEmbeddingsDoes
  <2>2. doc.text \in Texts /\ doc.text # None
    BY <1>c, <2>1, CopyHas, CopiesAssumption
  <2> QED
    BY <2>1, <2>2 DEF Like
<1>16. ASSUME NEW w \in Writers, ReadBack(w)
      PROVE  Embedded'
  BY <1>16, WriterMoves, <1>0, <1>c DEF ReadBack, Working, Like, redis
<1>17. ASSUME NEW w \in Writers, DropTags(w)
      PROVE  Embedded'
  BY <1>17, WriterMoves, <1>0, <1>c DEF DropTags, Working, Like, redis
<1>18. ASSUME NEW w \in Writers, WriteTags(w)
      PROVE  Embedded'
  BY <1>18, WriteTagsDoes, <1>0, <1>c DEF Working, Like, redis
<1>19. ASSUME NEW w \in Writers, PublishCopy(w)
      PROVE  Embedded'
  <2>1. /\ writer[w].at = "publish" /\ writer[w].value = doc /\ doc # Absent
        /\ Moves(w, "idle", Absent) /\ doc' = doc
        /\ \A v \in Writers : v # w => writer[v].at = "idle" /\ writer'[v].at = "idle"
        /\ \A v \in Writers : writer'[v].at = "idle"
    BY <1>19, PublishCopyDoes
  <2>2. row' = Absent <=> row = Absent
    BY <1>19, PublishCopyDoes DEF Like
  <2>3. row # Absent => row'.text = row.text
    BY <1>19, PublishCopyDoes DEF Like
  <2>4. jobs > 0 \/ lost => jobs' > 0 \/ lost'
    BY <1>c, <1>19, PublishCopyDoes
  <2>5. doc.emb = None => jobs' > 0 \/ lost'
    <3>1. CASE w = "load"
      BY <1>19, <2>1, <3>1, PublishCopyDoes DEF HasRequiredEmbeddings, HasTagVector
    <3>2. CASE w # "load"
      BY <2>1, <2>4, <3>2
    <3> QED
      BY <3>1, <3>2
  <2> QED
    BY <2>1, <2>2, <2>3, <2>5
<1>20. ASSUME RemoveDoc
      PROVE  Embedded'
  BY <1>20, WriterMoves, <1>0, <1>c DEF RemoveDoc, Working, Like, redis
<1>21. ASSUME UnlistKey
      PROVE  Embedded'
  BY <1>21, WriterMoves, <1>0, <1>c DEF UnlistKey, Working, Like, redis
<1>22. ASSUME DropVectors
      PROVE  Embedded'
  BY <1>22, WriterMoves, <1>0, <1>c DEF DropVectors, Working, Like, redis
<1>23. ASSUME EmitRemoved
      PROVE  Embedded'
  BY <1>23, WriterMoves, <1>0, <1>c DEF EmitRemoved, Working, Like, redis
<1>24. ASSUME FailJob
      PROVE  Embedded'
  BY <1>24, FailJobDoes, <1>0, <1>c DEF Like, redis
<1> QED
  BY <1>1, <1>2, <1>3, <1>4, <1>5, <1>6, <1>7, <1>8, <1>9, <1>10, <1>11, <1>12, <1>13, <1>14, <1>15, <1>16, <1>17,
     <1>18, <1>19, <1>20, <1>21, <1>22, <1>23, <1>24 DEF WritersAct

\* Writers do not change what may happen.
LEMMA WritersStayAllowed ==
    ASSUME Typed, WritersAct
    PROVE  allowed' = allowed
<1>1. ASSUME StartLoad
      PROVE  allowed' = allowed
  BY <1>1, StartMoves DEF StartLoad, Start
<1>2. ASSUME StartDelete
      PROVE  allowed' = allowed
  BY <1>2, StartMoves DEF StartDelete, Start
<1>3. ASSUME StartJob
      PROVE  allowed' = allowed
  BY <1>3, StartMoves DEF StartJob, Start
<1>4. ASSUME NEW s \in Statuses, StartStatus(s)
      PROVE  allowed' = allowed
  BY <1>4, StartMoves, StartStatusDoes DEF Start
<1>5. ASSUME NEW t \in Texts, StartEdit(t)
      PROVE  allowed' = allowed
  BY <1>5, StartMoves, StartEditDoes DEF Start
<1>6. ASSUME FindForLoad
      PROVE  allowed' = allowed
  BY <1>6, FindForLoadDoes
<1>7. ASSUME SaveDoc
      PROVE  allowed' = allowed
  BY <1>7, WriterMoves DEF SaveDoc
<1>8. ASSUME ListKey
      PROVE  allowed' = allowed
  BY <1>8, WriterMoves DEF ListKey
<1>9. ASSUME SetStatus
      PROVE  allowed' = allowed
  BY <1>9, SetStatusDoes
<1>10. ASSUME ClearEmbedding
      PROVE  allowed' = allowed
  BY <1>10, ClearEmbeddingDoes
<1>11. ASSUME RepublishCleared
      PROVE  allowed' = allowed
  BY <1>11, WriterMoves DEF RepublishCleared
<1>12. ASSUME EnqueueJob
      PROVE  allowed' = allowed
  BY <1>12, WriterMoves DEF EnqueueJob
<1>13. ASSUME SetFields
      PROVE  allowed' = allowed
  BY <1>13, SetFieldsDoes
<1>14. ASSUME FindForJob
      PROVE  allowed' = allowed
  BY <1>14, WriterMoves DEF FindForJob
<1>15. ASSUME SetEmbeddings
      PROVE  allowed' = allowed
  BY <1>15, SetEmbeddingsDoes
<1>16. ASSUME NEW w \in Writers, ReadBack(w)
      PROVE  allowed' = allowed
  BY <1>16, WriterMoves DEF ReadBack
<1>17. ASSUME NEW w \in Writers, DropTags(w)
      PROVE  allowed' = allowed
  BY <1>17, WriterMoves DEF DropTags
<1>18. ASSUME NEW w \in Writers, WriteTags(w)
      PROVE  allowed' = allowed
  BY <1>18, WriteTagsDoes
<1>19. ASSUME NEW w \in Writers, PublishCopy(w)
      PROVE  allowed' = allowed
  BY <1>19, PublishCopyDoes
<1>20. ASSUME RemoveDoc
      PROVE  allowed' = allowed
  BY <1>20, WriterMoves DEF RemoveDoc
<1>21. ASSUME UnlistKey
      PROVE  allowed' = allowed
  BY <1>21, WriterMoves DEF UnlistKey
<1>22. ASSUME DropVectors
      PROVE  allowed' = allowed
  BY <1>22, WriterMoves DEF DropVectors
<1>23. ASSUME EmitRemoved
      PROVE  allowed' = allowed
  BY <1>23, WriterMoves DEF EmitRemoved
<1>24. ASSUME FailJob
      PROVE  allowed' = allowed
  BY <1>24, FailJobDoes
<1> QED
  BY <1>1, <1>2, <1>3, <1>4, <1>5, <1>6, <1>7, <1>8, <1>9, <1>10, <1>11, <1>12, <1>13, <1>14, <1>15, <1>16, <1>17,
     <1>18, <1>19, <1>20, <1>21, <1>22, <1>23, <1>24 DEF WritersAct

\* Writers keep the key of a document that is there in the set ...
LEMMA WritersListing ==
    ASSUME Typed, Roles, Listing, Keyed, WritersAct
    PROVE  Listing'
<1> USE DEF ServerWrites, Listing, InTurn, Busy, Moves, Writers, Roles, Deleting, Removed
<1>0. ~May("overlap") /\ (~May("expiry") \/ (~May("refresh") /\ ~May("boot") /\ ~May("error")))
  BY DEF Keyed, Without, May
<1>w. Without({"refresh", "boot", "error"}) => ~May("refresh") /\ ~May("boot") /\ ~May("error")
  BY DEF Without, May
<1>a. allowed' = allowed
  BY WritersStayAllowed
<1>b. /\ Without({"expiry"})' = Without({"expiry"})
      /\ Without({"refresh", "boot", "error"})' = Without({"refresh", "boot", "error"})
  BY <1>a DEF Without
<1>1. ASSUME StartLoad
      PROVE  Listing'
  BY <1>1, StartMoves, <1>0, <1>w, <1>b DEF StartLoad, Start, Working, Like, redis, memory
<1>2. ASSUME StartDelete
      PROVE  Listing'
  BY <1>2, StartMoves, <1>0, <1>w, <1>b DEF StartDelete, Start, Working, Like, redis, memory
<1>3. ASSUME StartJob
      PROVE  Listing'
  BY <1>3, StartMoves, <1>0, <1>w, <1>b DEF StartJob, Start, Working, Like, redis, memory
<1>4. ASSUME NEW s \in Statuses, StartStatus(s)
      PROVE  Listing'
  BY <1>4, StartMoves, StartStatusDoes, <1>0, <1>w, <1>b DEF Start, Working, Like, redis, memory
<1>5. ASSUME NEW t \in Texts, StartEdit(t)
      PROVE  Listing'
  BY <1>5, StartMoves, StartEditDoes, <1>0, <1>w, <1>b DEF Start, Working, Like, redis, memory
<1>6. ASSUME FindForLoad
      PROVE  Listing'
  BY <1>6, FindForLoadDoes, <1>0, <1>w, <1>b DEF Working, Like, redis, memory
<1>7. ASSUME SaveDoc
      PROVE  Listing'
  <2>1. /\ writer["load"].at = "set" /\ writer["load"].value # Absent /\ doc' = writer["load"].value
        /\ UNCHANGED <<row, listed, refresh, allowed>>
    BY <1>7 DEF SaveDoc, memory, Typed, Loaded, Needs
  <2>2. Moves("load", "list", writer["load"].value)
    BY <1>7, WriterMoves
  <2>3. refresh.at # "unlist"
    BY <2>1 DEF Keyed, Working
  <2> QED
    BY <2>1, <2>2, <2>3, <1>b DEF Working
<1>8. ASSUME ListKey
      PROVE  Listing'
  BY <1>8, WriterMoves, <1>0, <1>w, <1>b DEF ListKey, Working, Like, redis, memory
<1>9. ASSUME SetStatus
      PROVE  Listing'
  BY <1>9, SetStatusDoes, <1>0, <1>w, <1>b DEF Working, Like, redis, memory
<1>10. ASSUME ClearEmbedding
      PROVE  Listing'
  BY <1>10, ClearEmbeddingDoes, <1>0, <1>w, <1>b DEF Working, Like, redis, memory
<1>11. ASSUME RepublishCleared
      PROVE  Listing'
  BY <1>11, WriterMoves, <1>0, <1>w, <1>b DEF RepublishCleared, Working, Like, redis, memory, PublishUpsert, Emit
<1>12. ASSUME EnqueueJob
      PROVE  Listing'
  BY <1>12, WriterMoves, <1>0, <1>w, <1>b DEF EnqueueJob, Working, Like, redis, memory
<1>13. ASSUME SetFields
      PROVE  Listing'
  BY <1>13, SetFieldsDoes, <1>0, <1>w, <1>b DEF Working, Like, redis, memory
<1>14. ASSUME FindForJob
      PROVE  Listing'
  BY <1>14, WriterMoves, <1>0, <1>w, <1>b DEF FindForJob, Working, Like, redis, memory
<1>15. ASSUME SetEmbeddings
      PROVE  Listing'
  BY <1>15, SetEmbeddingsDoes, <1>0, <1>w, <1>b DEF Working, Like, redis, memory
<1>16. ASSUME NEW w \in Writers, ReadBack(w)
      PROVE  Listing'
  BY <1>16, WriterMoves, <1>0, <1>w, <1>b DEF ReadBack, Working, Like, redis, memory
<1>17. ASSUME NEW w \in Writers, DropTags(w)
      PROVE  Listing'
  BY <1>17, WriterMoves, <1>0, <1>w, <1>b DEF DropTags, Working, Like, redis, memory
<1>18. ASSUME NEW w \in Writers, WriteTags(w)
      PROVE  Listing'
  BY <1>18, WriteTagsDoes, <1>0, <1>w, <1>b DEF Working, Like, redis, memory
<1>19. ASSUME NEW w \in Writers, PublishCopy(w)
      PROVE  Listing'
  BY <1>19, PublishCopyDoes, <1>0, <1>w, <1>b DEF Working, Like, redis, memory, PublishUpsert, Emit
<1>20. ASSUME RemoveDoc
      PROVE  Listing'
  BY <1>20, WriterMoves, <1>0, <1>w, <1>b DEF RemoveDoc, Working, Like, redis, memory
<1>21. ASSUME UnlistKey
      PROVE  Listing'
  BY <1>21, WriterMoves, <1>0, <1>w, <1>b DEF UnlistKey, Working, Like, redis, memory
<1>22. ASSUME DropVectors
      PROVE  Listing'
  BY <1>22, WriterMoves, <1>0, <1>w, <1>b DEF DropVectors, Working, Like, redis, memory
<1>23. ASSUME EmitRemoved
      PROVE  Listing'
  BY <1>23, WriterMoves, <1>0, <1>w, <1>b DEF EmitRemoved, Working, Like, redis, memory, Emit
<1>24. ASSUME FailJob
      PROVE  Listing'
  BY <1>24, FailJobDoes, <1>0, <1>w, <1>b DEF Working, redis, memory
<1> QED
  BY <1>1, <1>2, <1>3, <1>4, <1>5, <1>6, <1>7, <1>8, <1>9, <1>10, <1>11, <1>12, <1>13, <1>14, <1>15, <1>16, <1>17,
     <1>18, <1>19, <1>20, <1>21, <1>22, <1>23, <1>24 DEF WritersAct

\* ... and so do readers, who take out keys without document.
LEMMA ReadersListing ==
    ASSUME TypeOK, Listing, Keyed, ReadersAct
    PROVE  Listing'
<1> USE DEF ServerWrites, Listing, InTurn, Busy, Deleting, Removed
<1>0. ~May("overlap") /\ (~May("expiry") \/ (~May("refresh") /\ ~May("boot") /\ ~May("error")))
  BY DEF Keyed, Without, May
<1>w. Without({"refresh", "boot", "error"}) => ~May("refresh") /\ ~May("boot") /\ ~May("error")
  BY DEF Without, May
<1>a. allowed' = allowed
  BY ReadersLeave
<1>b. /\ Without({"expiry"})' = Without({"expiry"})
      /\ Without({"refresh", "boot", "error"})' = Without({"refresh", "boot", "error"})
  BY <1>a DEF Without
<1>r. UNCHANGED <<row, doc, tagVec, docVec, jobs, lost, writer, writes, allowed>>
  BY ReadersLeave
<1>t. refresh \in [at : {"idle", "keys", "read", "unlist", "store"}, value : Copy, previous : Copy \union {Nothing}]
  BY DEF TypeOK
<1>1. ASSUME ReadKeys
      PROVE  Listing'
  BY <1>1, <1>0, <1>w, <1>b, <1>r, <1>t DEF ReadKeys, ReadersMayStart, Working, redis
<1>2. ASSUME ReadDocs
      PROVE  Listing'
  BY <1>2, <1>0, <1>w, <1>b, <1>r, <1>t DEF ReadDocs, ReadersMayStart, Working, redis
<1>3. ASSUME UnlistStale
      PROVE  Listing'
  BY <1>3, <1>0, <1>w, <1>b, <1>r, <1>t DEF UnlistStale, ReadersMayStart, Working, redis
<1>4. ASSUME StoreList
      PROVE  Listing'
  BY <1>4, <1>0, <1>w, <1>b, <1>r, <1>t DEF StoreList, Built, NoRefresh, NoList, ReadersMayStart, Working, redis
<1>5. ASSUME ReadForRepair
      PROVE  Listing'
  BY <1>5, <1>0, <1>w, <1>b, <1>r, <1>t DEF ReadForRepair, NoRepair, ReadersMayStart, Working, redis
<1>6. ASSUME ApplyRepair
      PROVE  Listing'
  BY <1>6, <1>0, <1>w, <1>b, <1>r, <1>t DEF ApplyRepair, NoRepair, ReadersMayStart, Working, redis
<1>7. ASSUME StartRefresh
      PROVE  Listing'
  BY <1>7, <1>0, <1>w, <1>b, <1>r, <1>t DEF StartRefresh, BeginRefresh, ReadersMayStart, Working, redis
<1>8. ASSUME StartBuild
      PROVE  Listing'
  BY <1>8, <1>0, <1>w, <1>b, <1>r, <1>t DEF StartBuild, BeginRefresh, Built, ReadersMayStart, Working, redis
<1>9. ASSUME StartRepair
      PROVE  Listing'
  BY <1>9, <1>0, <1>w, <1>b, <1>r, <1>t DEF StartRepair, ReadersMayStart, Working, redis
<1>10. ASSUME FailRefresh
      PROVE  Listing'
  BY <1>10, <1>0, <1>w, <1>b, <1>r, <1>t DEF FailRefresh, ReadersMayStart, Working, redis
<1>11. ASSUME Age
      PROVE  Listing'
  BY <1>11, <1>0, <1>w, <1>b, <1>r, <1>t DEF Age, ReadersMayStart, Working, redis
<1> QED
  BY <1>1, <1>2, <1>3, <1>4, <1>5, <1>6, <1>7, <1>8, <1>9, <1>10, <1>11 DEF ReadersAct, ReaderStep

\* Without readers beside writers, writers leave the list current ...
LEMMA WritersCurrent ==
    ASSUME Typed, Roles, Current, Without({"refresh", "boot", "expiry", "error"}), WritersAct
    PROVE  Current'
<1> USE DEF ServerWrites, Alike, Current, Moves, Writers, Roles, Announcing, Removed
<1>0. ~May("refresh") /\ ~May("boot") /\ ~May("error")
  BY DEF Without, May
<1>1. ASSUME StartLoad
      PROVE  Current'
  BY <1>1, StartMoves, <1>0 DEF StartLoad, Start, Working, Like, redis, memory, Findable
<1>2. ASSUME StartDelete
      PROVE  Current'
  BY <1>2, StartMoves, <1>0 DEF StartDelete, Start, Working, Like, redis, memory, Findable
<1>3. ASSUME StartJob
      PROVE  Current'
  BY <1>3, StartMoves, <1>0 DEF StartJob, Start, Working, Like, redis, memory, Findable
<1>4. ASSUME NEW s \in Statuses, StartStatus(s)
      PROVE  Current'
  BY <1>4, StartMoves, StartStatusDoes, <1>0 DEF Start, Working, Like, redis, memory, Findable
<1>5. ASSUME NEW t \in Texts, StartEdit(t)
      PROVE  Current'
  BY <1>5, StartMoves, StartEditDoes, <1>0 DEF Start, Working, Like, redis, memory, Findable
<1>6. ASSUME FindForLoad
      PROVE  Current'
  BY <1>6, FindForLoadDoes, <1>0 DEF Working, Like, redis, memory, Findable
<1>7. ASSUME SaveDoc
      PROVE  Current'
  BY <1>7, WriterMoves, <1>0 DEF SaveDoc, Working, Like, redis, memory, Findable, Typed, Loaded, Needs
<1>8. ASSUME ListKey
      PROVE  Current'
  BY <1>8, WriterMoves, <1>0 DEF ListKey, Working, Like, redis, memory, Findable
<1>9. ASSUME SetStatus
      PROVE  Current'
  BY <1>9, SetStatusDoes, <1>0 DEF Working, Like, redis, memory, Findable
<1>10. ASSUME ClearEmbedding
      PROVE  Current'
  BY <1>10, ClearEmbeddingDoes, <1>0 DEF Working, Like, redis, memory, Findable
<1>11. ASSUME RepublishCleared
      PROVE  Current'
  BY <1>11, WriterMoves, <1>0 DEF RepublishCleared, Working, Like, redis, memory, Findable, PublishUpsert, Emit,
     NoList
<1>12. ASSUME EnqueueJob
      PROVE  Current'
  BY <1>12, WriterMoves, <1>0 DEF EnqueueJob, Working, Like, redis, memory, Findable
<1>13. ASSUME SetFields
      PROVE  Current'
  BY <1>13, SetFieldsDoes, <1>0 DEF Working, Like, redis, memory, Findable
<1>14. ASSUME FindForJob
      PROVE  Current'
  BY <1>14, WriterMoves, <1>0 DEF FindForJob, Working, Like, redis, memory, Findable
<1>15. ASSUME SetEmbeddings
      PROVE  Current'
  BY <1>15, SetEmbeddingsDoes, <1>0 DEF Working, Like, redis, memory, Findable
<1>16. ASSUME NEW w \in Writers, ReadBack(w)
      PROVE  Current'
  BY <1>16, WriterMoves, <1>0 DEF ReadBack, Working, Like, redis, memory, Findable
<1>17. ASSUME NEW w \in Writers, DropTags(w)
      PROVE  Current'
  BY <1>17, WriterMoves, <1>0 DEF DropTags, Working, Like, redis, memory, Findable
<1>18. ASSUME NEW w \in Writers, WriteTags(w)
      PROVE  Current'
  BY <1>18, WriteTagsDoes, <1>0 DEF Working, Like, redis, memory, Findable
<1>19. ASSUME NEW w \in Writers, PublishCopy(w)
      PROVE  Current'
  BY <1>19, PublishCopyDoes, <1>0 DEF Working, Like, redis, memory, Findable, PublishUpsert, Emit, NoList
<1>20. ASSUME RemoveDoc
      PROVE  Current'
  BY <1>20, WriterMoves, <1>0 DEF RemoveDoc, Working, Like, redis, memory, Findable
<1>21. ASSUME UnlistKey
      PROVE  Current'
  BY <1>21, WriterMoves, <1>0 DEF UnlistKey, Working, Like, redis, memory, Findable
<1>22. ASSUME DropVectors
      PROVE  Current'
  BY <1>22, WriterMoves, <1>0 DEF DropVectors, Working, Like, redis, memory, Findable
<1>23. ASSUME EmitRemoved
      PROVE  Current'
  BY <1>23, WriterMoves, <1>0 DEF EmitRemoved, Working, Like, redis, memory, Findable, Emit, NoList
<1>24. ASSUME FailJob
      PROVE  Current'
  BY <1>24, FailJobDoes, <1>0 DEF redis, memory, Findable
<1> QED
  BY <1>1, <1>2, <1>3, <1>4, <1>5, <1>6, <1>7, <1>8, <1>9, <1>10, <1>11, <1>12, <1>13, <1>14, <1>15, <1>16, <1>17,
     <1>18, <1>19, <1>20, <1>21, <1>22, <1>23, <1>24 DEF WritersAct

\* ... and readers build a current one.
LEMMA ReadersCurrent ==
    ASSUME TypeOK, Current, Without({"refresh", "boot", "expiry", "error"}), ReadersAct
    PROVE  Current'
<1> USE DEF ServerWrites, Alike, Current, Announcing, Removed
<1>0. ~May("refresh") /\ ~May("boot") /\ ~May("error")
  BY DEF Without, May
<1>r. UNCHANGED <<row, doc, tagVec, docVec, jobs, lost, writer, writes, allowed>>
  BY ReadersLeave
<1>t. refresh \in [at : {"idle", "keys", "read", "unlist", "store"}, value : Copy, previous : Copy \union {Nothing}]
  BY DEF TypeOK
<1>l. list \in [value : Copy, age : {"none", "fresh", "stale", "old"}]
  BY DEF TypeOK
<1>1. ASSUME ReadKeys
      PROVE  Current'
  BY <1>1, <1>0, <1>r, <1>t, <1>l DEF ReadKeys, ReadersMayStart, Working, redis, Findable
<1>2. ASSUME ReadDocs
      PROVE  Current'
  BY <1>2, <1>0, <1>r, <1>t, <1>l DEF ReadDocs, ReadersMayStart, Working, redis, Findable
<1>3. ASSUME UnlistStale
      PROVE  Current'
  BY <1>3, <1>0, <1>r, <1>t, <1>l DEF UnlistStale, ReadersMayStart, Working, redis, Findable
<1>4. ASSUME StoreList
      PROVE  Current'
  <2>1. /\ refresh.at = "store" /\ refresh' = NoRefresh /\ listed' = listed
        /\ list' = [value |-> refresh.value, age |-> "fresh"]
    BY <1>4 DEF StoreList, redis
  <2>2. Alike(list'.value, Findable') /\ refresh'.at = "idle"
    BY <1>r, <2>1 DEF Findable, NoRefresh
  <2>3. writer["cron"].at = "idle"
    BY <2>1 DEF Writers
  <2> QED
    BY <1>r, <2>1, <2>2, <2>3
<1>5. ASSUME ReadForRepair
      PROVE  Current'
  BY <1>5, <1>0, <1>r, <1>t, <1>l DEF ReadForRepair, NoRepair, ReadersMayStart, Working, redis, Findable
<1>6. ASSUME ApplyRepair
      PROVE  Current'
  BY <1>6, <1>0, <1>r, <1>t, <1>l DEF ApplyRepair, NoRepair, ReadersMayStart, Working, redis, Findable
<1>7. ASSUME StartRefresh
      PROVE  Current'
  BY <1>7, <1>0, <1>r, <1>t, <1>l DEF StartRefresh, BeginRefresh, ReadersMayStart, Working, redis, Findable
<1>8. ASSUME StartBuild
      PROVE  Current'
  BY <1>8, <1>0, <1>r, <1>t, <1>l DEF StartBuild, BeginRefresh, Built, ReadersMayStart, Working, redis, Findable
<1>9. ASSUME StartRepair
      PROVE  Current'
  BY <1>9, <1>0, <1>r, <1>t, <1>l DEF StartRepair, ReadersMayStart, Working, redis, Findable
<1>10. ASSUME FailRefresh
      PROVE  Current'
  BY <1>10, <1>0, <1>r, <1>t, <1>l DEF FailRefresh, ReadersMayStart, Working, redis, Findable
<1>11. ASSUME Age
      PROVE  Current'
  BY <1>11, <1>0, <1>r, <1>t, <1>l DEF Age, ReadersMayStart, Working, redis, Findable
<1> QED
  BY <1>1, <1>2, <1>3, <1>4, <1>5, <1>6, <1>7, <1>8, <1>9, <1>10, <1>11 DEF ReadersAct, ReaderStep

\* A document lags behind itself, also when a job embeds it anew.
LEMMA LagsEmbedded ==
    /\ \A d : Lags(d, d)
    /\ \A c, e \in Copy, d \in Campaign :
         Lags(c, d) /\ d.emb \in {None, d.text} /\ Like(e, d.status, d.text, d.text) => Lags(c, e)
<1>1. \A d : Lags(d, d)
  BY DEF Lags
<1>2. ASSUME NEW c \in Copy, NEW e \in Copy, NEW d \in Campaign,
             Lags(c, d), d.emb \in {None, d.text}, Like(e, d.status, d.text, d.text)
      PROVE  Lags(c, e)
  <2>1. e \in Campaign /\ e # Absent /\ e.status = d.status /\ e.text = d.text /\ e.emb = d.text
    BY <1>2 DEF Like
  <2>2. d.emb = None => [e EXCEPT !.emb = None] = d
    BY <2>1 DEF Campaign
  <2>3. d.emb = d.text => e = d
    BY <2>1 DEF Campaign
  <2>4. [d EXCEPT !.emb = None] = [e EXCEPT !.emb = None]
    BY <2>1 DEF Campaign
  <2> QED
    BY <1>2, <2>1, <2>2, <2>3, <2>4 DEF Lags
<1> QED
  BY <1>1, <1>2

\* Writers tell the snapshot what the document is ...
LEMMA WritersServed ==
    ASSUME Typed, Roles, Carrying, Embedded, Served,
           Without({"overlap", "eager", "refresh", "repair", "expiry", "error", "disabled"}), WritersAct
    PROVE  Served'
<1> USE DEF ServerWrites, Served, Moves, Writers, Roles, Announcing
<1>0. ~May("overlap") /\ ~May("eager") /\ ~May("repair") /\ ~May("disabled")
  BY DEF Without, May
<1>c. \A w \in Writers :
         /\ writer[w].at = "publish" => writer[w].value = doc
         /\ writer[w].at \in {"read", "status", "clear", "fields", "republish", "model"} => doc # Absent
         /\ writer[w].at = "removed" => doc = Absent
  BY DEF Carrying
<1>e. \A c \in Copy : Emit(c) =>
         /\ ready' = ready /\ refresh' = refresh /\ building' = building /\ repair' = repair
         /\ ready => snapshot' = c
         /\ ~ready => mutation' = c
  BY <1>0 DEF Emit, Take
<1>l. \A d : Lags(d, d)
  BY LagsEmbedded
<1>d. doc \in Copy /\ Absent \in Copy /\ Nothing \notin Copy
  BY AbsentIsCopy, NothingIsNoCopy DEF Typed, TypeOK
<1>1. ASSUME StartLoad
      PROVE  Served'
  BY <1>1, StartMoves, <1>0, <1>c DEF StartLoad, Start, Working, Like, redis, memory
<1>2. ASSUME StartDelete
      PROVE  Served'
  BY <1>2, StartMoves, <1>0, <1>c DEF StartDelete, Start, Working, Like, redis, memory
<1>3. ASSUME StartJob
      PROVE  Served'
  BY <1>3, StartMoves, <1>0, <1>c DEF StartJob, Start, Working, Like, redis, memory
<1>4. ASSUME NEW s \in Statuses, StartStatus(s)
      PROVE  Served'
  BY <1>4, StartMoves, StartStatusDoes, <1>0, <1>c DEF Start, Working, Like, redis, memory
<1>5. ASSUME NEW t \in Texts, StartEdit(t)
      PROVE  Served'
  BY <1>5, StartMoves, StartEditDoes, <1>0, <1>c DEF Start, Working, Like, redis, memory
<1>6. ASSUME FindForLoad
      PROVE  Served'
  BY <1>6, FindForLoadDoes, <1>0, <1>c DEF Working, Like, redis, memory
<1>7. ASSUME SaveDoc
      PROVE  Served'
  BY <1>7, WriterMoves, <1>0, <1>c DEF SaveDoc, Working, Like, redis, memory
<1>8. ASSUME ListKey
      PROVE  Served'
  BY <1>8, WriterMoves, <1>0, <1>c DEF ListKey, Working, Like, redis, memory
<1>9. ASSUME SetStatus
      PROVE  Served'
  BY <1>9, SetStatusDoes, <1>0, <1>c DEF Working, Like, redis, memory
<1>10. ASSUME ClearEmbedding
      PROVE  Served'
  BY <1>10, ClearEmbeddingDoes, <1>0, <1>c DEF Working, Like, redis, memory
<1>11. ASSUME RepublishCleared
      PROVE  Served'
  <2>1. Emit(doc) /\ doc' = doc /\ Moves("owner", "enqueue", writer["owner"].value)
    BY <1>11, <1>c, WriterMoves DEF RepublishCleared, PublishUpsert, redis
  <2>2. /\ ready' = ready /\ refresh' = refresh /\ building' = building /\ repair' = repair
        /\ ready => snapshot' = doc'
        /\ ~ready => mutation' = doc' /\ mutation' # Nothing
    BY <1>d, <1>e, <2>1
  <2>3. ServerWrites
    BY <1>11 DEF RepublishCleared
  <2> QED
    BY <1>l, <2>1, <2>2, <2>3
<1>12. ASSUME EnqueueJob
      PROVE  Served'
  BY <1>12, WriterMoves, <1>0, <1>c DEF EnqueueJob, Working, Like, redis, memory
<1>13. ASSUME SetFields
      PROVE  Served'
  BY <1>13, SetFieldsDoes, <1>0, <1>c DEF Working, Like, redis, memory
<1>14. ASSUME FindForJob
      PROVE  Served'
  BY <1>14, WriterMoves, <1>0, <1>c DEF FindForJob, Working, Like, redis, memory
<1>15. ASSUME SetEmbeddings
      PROVE  Served'
  <2>1. /\ doc # Absent /\ doc.emb \in {None, doc.text} /\ doc \in Campaign
        /\ Like(doc', doc.status, doc.text, doc.text) /\ doc' \in Copy
        /\ Moves("worker", "read", writer["worker"].value) /\ UNCHANGED memory
    BY <1>15, <1>c, <1>d, CopyHas, SetEmbeddingsDoes DEF Embedded, Carrying, Copy, Like
  <2>2. \A c \in Copy : Lags(c, doc) => Lags(c, doc')
    BY <2>1, LagsEmbedded
  <2>3. snapshot \in Copy /\ mutation \in Copy \union {Nothing} /\ refresh.value \in Copy
        /\ list.value \in Copy /\ repair.value \in Copy
    BY DEF Typed, TypeOK
  <2> QED
    BY <2>1, <2>2, <2>3 DEF memory
<1>16. ASSUME NEW w \in Writers, ReadBack(w)
      PROVE  Served'
  BY <1>16, WriterMoves, <1>0, <1>c DEF ReadBack, Working, Like, redis, memory
<1>17. ASSUME NEW w \in Writers, DropTags(w)
      PROVE  Served'
  BY <1>17, WriterMoves, <1>0, <1>c DEF DropTags, Working, Like, redis, memory
<1>18. ASSUME NEW w \in Writers, WriteTags(w)
      PROVE  Served'
  BY <1>18, WriteTagsDoes, <1>0, <1>c DEF Working, Like, redis, memory
<1>19. ASSUME NEW w \in Writers, PublishCopy(w)
      PROVE  Served'
  <2>0. writer[w].at = "publish" /\ doc' = doc /\ Moves(w, "idle", Absent)
    BY <1>19, PublishCopyDoes
  <2>1. CASE w = "worker"
    BY <1>19, <2>0, <2>1, PublishCopyDoes DEF memory
  <2>2. CASE w # "worker"
    <3>1. Emit(doc)
      BY <1>19, <1>c, <2>0, <2>2, PublishCopyDoes DEF PublishUpsert
    <3>2. /\ ready' = ready /\ refresh' = refresh /\ building' = building /\ repair' = repair
          /\ ready => snapshot' = doc'
          /\ ~ready => mutation' = doc' /\ mutation' # Nothing
      BY <1>d, <1>e, <2>0, <3>1
    <3>3. ServerWrites
      BY <2>0, <2>2
    <3> QED
      BY <1>l, <2>0, <3>2, <3>3
  <2> QED
    BY <2>1, <2>2
<1>20. ASSUME RemoveDoc
      PROVE  Served'
  BY <1>20, WriterMoves, <1>0, <1>c DEF RemoveDoc, Working, Like, redis, memory
<1>21. ASSUME UnlistKey
      PROVE  Served'
  BY <1>21, WriterMoves, <1>0, <1>c DEF UnlistKey, Working, Like, redis, memory
<1>22. ASSUME DropVectors
      PROVE  Served'
  BY <1>22, WriterMoves, <1>0, <1>c DEF DropVectors, Working, Like, redis, memory
<1>23. ASSUME EmitRemoved
      PROVE  Served'
  <2>1. Emit(doc) /\ doc' = doc /\ Moves("owner", "idle", Absent)
    BY <1>23, <1>c, WriterMoves DEF EmitRemoved, redis
  <2>2. /\ ready' = ready /\ refresh' = refresh /\ building' = building /\ repair' = repair
        /\ ready => snapshot' = doc'
        /\ ~ready => mutation' = doc' /\ mutation' # Nothing
    BY <1>d, <1>e, <2>1
  <2>3. ServerWrites
    BY <1>23 DEF EmitRemoved
  <2> QED
    BY <1>l, <2>1, <2>2, <2>3
<1>24. ASSUME FailJob
      PROVE  Served'
  BY <1>24, FailJobDoes, <1>0, <1>c DEF redis, memory
<1> QED
  BY <1>1, <1>2, <1>3, <1>4, <1>5, <1>6, <1>7, <1>8, <1>9, <1>10, <1>11, <1>12, <1>13, <1>14, <1>15, <1>16, <1>17,
     <1>18, <1>19, <1>20, <1>21, <1>22, <1>23, <1>24 DEF WritersAct

\* ... and a snapshot that is built is the document, events included.
LEMMA ReadersServed ==
    ASSUME TypeOK, Listing, Served,
           Without({"overlap", "eager", "refresh", "repair", "expiry", "error", "disabled"}), ReadersAct
    PROVE  Served'
<1> USE DEF ServerWrites, Served, Announcing
<1>0. ~May("refresh") /\ ~May("repair") /\ ~May("error")
  BY DEF Without, May
<1>r. UNCHANGED <<row, doc, tagVec, docVec, jobs, lost, writer, writes, allowed>>
  BY ReadersLeave
<1>t. /\ refresh \in [at : {"idle", "keys", "read", "unlist", "store"}, value : Copy, previous : Copy \union {Nothing}]
      /\ list \in [value : Copy, age : {"none", "fresh", "stale", "old"}]
      /\ repair \in [at : {"idle", "read", "apply"}, value : Copy]
  BY DEF TypeOK
<1>k. doc # Absent /\ writer["load"].at # "list" => listed
  BY DEF Listing
<1>1. ASSUME ReadKeys
      PROVE  Served'
  BY <1>1, <1>0, <1>r, <1>t, <1>k, LagsEmbedded DEF ReadKeys, ReadersMayStart, Working, Writers
<1>2. ASSUME ReadDocs
      PROVE  Served'
  BY <1>2, <1>0, <1>r, <1>t, LagsEmbedded DEF ReadDocs, ReadersMayStart, Working
<1>3. ASSUME UnlistStale
      PROVE  Served'
  BY <1>3, <1>0, <1>r, <1>t DEF UnlistStale, ReadersMayStart, Working
<1>4. ASSUME StoreList
      PROVE  Served'
  BY <1>4, <1>0, <1>r, <1>t DEF StoreList, Built, NoRefresh, NoList, ReadersMayStart, Working
<1>5. ASSUME ReadForRepair
      PROVE  Served'
  BY <1>5, <1>0, <1>r, <1>t, LagsEmbedded DEF ReadForRepair, NoRepair, ReadersMayStart, Working
<1>6. ASSUME ApplyRepair
      PROVE  Served'
  BY <1>6, <1>0, <1>r, <1>t DEF ApplyRepair, NoRepair, ReadersMayStart, Working
<1>7. ASSUME StartRefresh
      PROVE  Served'
  BY <1>7, <1>0, <1>r, <1>t DEF StartRefresh, BeginRefresh, ReadersMayStart, Working
<1>8. ASSUME StartBuild
      PROVE  Served'
  BY <1>8, <1>0, <1>r, <1>t DEF StartBuild, BeginRefresh, Built, ReadersMayStart, Working
<1>9. ASSUME StartRepair
      PROVE  Served'
  BY <1>9, <1>0, <1>r, <1>t DEF StartRepair, ReadersMayStart, Working
<1>10. ASSUME FailRefresh
      PROVE  Served'
  BY <1>10, <1>0, <1>r, <1>t DEF FailRefresh, ReadersMayStart, Working
<1>11. ASSUME Age
      PROVE  Served'
  BY <1>11, <1>0, <1>r, <1>t DEF Age, ReadersMayStart, Working
<1> QED
  BY <1>1, <1>2, <1>3, <1>4, <1>5, <1>6, <1>7, <1>8, <1>9, <1>10, <1>11 DEF ReadersAct, ReaderStep

-----------------------------------------------------------------------------
(***************************************************************************)
(* The invariant as a whole.                                               *)
(***************************************************************************)
\* Tag vectors are typed.
LEMMA TagVectorsType ==
    ASSUME NEW c \in Copy
    PROVE  TagVectors(c) \in [Tags -> Statuses \union {None}]
<1>1. HasTagVector(c) => c.status \in Statuses
  BY CopyHas DEF HasTagVector
<1> QED
  BY <1>1 DEF TagVectors

\* In the beginning the invariant holds.
LEMMA CopiesInit == Init => CopiesInv
<1> SUFFICES ASSUME Init PROVE CopiesInv
  OBVIOUS
<1> PICK c : c = [status |-> "ACTIVE", text |-> FirstText, emb |-> FirstText]
  OBVIOUS
<1>1. c \in Campaign /\ c \in Copy /\ Absent \in Copy /\ c # Absent /\ c.text = FirstText /\ c.emb = FirstText
  BY AbsentIsCopy, CopiesAssumption DEF Campaign, Copy, Statuses
<1>2. row = c /\ doc \in {c, Absent} /\ listed = (doc = c)
  BY DEF Init
<1>3. doc \in Copy
  BY <1>1, <1>2
<1>4. \A w \in Writers : writer[w].at = "idle" /\ writer[w].value = Absent
  BY DEF Init, Idle
<1>5. Typed
  <2>1. WrittenTypes
    <3>1. writer \in [Writers -> Writing]
      BY <1>1 DEF Init, Idle, Writing, Steps
    <3>2. tagVec \in [Tags -> Statuses \union {None}]
      BY <1>3, TagVectorsType DEF Init
    <3>3. docVec \in [status : Statuses, emb : Texts] \union {Absent}
      BY <1>3, VectorTypes DEF Init
    <3>4. row \in Copy /\ listed \in BOOLEAN /\ jobs \in Nat
      BY <1>1, <1>2 DEF Init
    <3>5. lost \in BOOLEAN
      BY DEF Init
    <3> QED
      BY <1>3, <3>1, <3>2, <3>3, <3>4, <3>5 DEF WrittenTypes
  <2>2. ReadTypes
    BY <1>1 DEF ReadTypes, Init, NoList, NoRefresh, NoRepair
  <2>3. CountTypes
    BY CopiesAssumption DEF CountTypes, Init
  <2>4. Loaded
    BY <1>4 DEF Loaded, Needs
  <2> QED
    BY <2>1, <2>2, <2>3, <2>4, TypesSplit DEF Typed
<1>6. Roles
  BY <1>4 DEF Roles, Writers
<1>7. ListingInv
  BY <1>1, <1>2, <1>4 DEF ListingInv, Listing, InTurn, Busy, Deleting, Removed, Init, NoRefresh, Writers
<1>8. CarryingInv
  BY <1>4 DEF CarryingInv, Carrying, Alone, Busy
<1>9. FollowingInv
  BY <1>4 DEF FollowingInv, Following, Init
<1>10. EmbeddedInv
  BY <1>1, <1>2, <1>4, CopiesAssumption DEF EmbeddedInv, Embedded, Editing, Writers
<1>11. CurrentInv
  BY <1>4 DEF CurrentInv, Current, Init, NoRefresh, NoList, Writers
<1>12. ServedInv
  BY <1>4 DEF ServedInv, Served, Init, NoRefresh, NoList, NoRepair, Working
<1> QED
  BY <1>5, <1>6, <1>7, <1>8, <1>9, <1>10, <1>11, <1>12 DEF CopiesInv

\* Every step is one of a writer or a reader, or an expiry.
LEMMA NextSplits == Next => WritersAct \/ ReadersAct \/ Expire
BY DEF Next, WritersAct, ReadersAct, WriterStep, Write

\* Writers keep the bounds of the counters.
LEMMA WritersKeepCounts ==
    ASSUME Typed, WritersAct
    PROVE  CountTypes'
<1>0. CountTypes /\ MaxWrites \in Nat
  BY TypesSplit, CopiesAssumption DEF Typed
<1> USE DEF CountTypes
<1>1. ASSUME StartLoad
      PROVE  CountTypes'
  BY <1>1, StartMoves, <1>0 DEF StartLoad, Start
<1>2. ASSUME StartDelete
      PROVE  CountTypes'
  BY <1>2, StartMoves, <1>0 DEF StartDelete, Start
<1>3. ASSUME StartJob
      PROVE  CountTypes'
  BY <1>3, StartMoves, <1>0 DEF StartJob, Start
<1>4. ASSUME NEW s \in Statuses, StartStatus(s)
      PROVE  CountTypes'
  BY <1>4, StartMoves, StartStatusDoes, <1>0 DEF Start
<1>5. ASSUME NEW t \in Texts, StartEdit(t)
      PROVE  CountTypes'
  BY <1>5, StartMoves, StartEditDoes, <1>0 DEF Start
<1>6. ASSUME FindForLoad
      PROVE  CountTypes'
  BY <1>6, FindForLoadDoes, <1>0
<1>7. ASSUME SaveDoc
      PROVE  CountTypes'
  BY <1>7, WriterMoves, <1>0 DEF SaveDoc
<1>8. ASSUME ListKey
      PROVE  CountTypes'
  BY <1>8, WriterMoves, <1>0 DEF ListKey
<1>9. ASSUME SetStatus
      PROVE  CountTypes'
  BY <1>9, SetStatusDoes, <1>0
<1>10. ASSUME ClearEmbedding
      PROVE  CountTypes'
  BY <1>10, ClearEmbeddingDoes, <1>0
<1>11. ASSUME RepublishCleared
      PROVE  CountTypes'
  BY <1>11, WriterMoves, <1>0 DEF RepublishCleared
<1>12. ASSUME EnqueueJob
      PROVE  CountTypes'
  BY <1>12, WriterMoves, <1>0 DEF EnqueueJob
<1>13. ASSUME SetFields
      PROVE  CountTypes'
  BY <1>13, SetFieldsDoes, <1>0
<1>14. ASSUME FindForJob
      PROVE  CountTypes'
  BY <1>14, WriterMoves, <1>0 DEF FindForJob
<1>15. ASSUME SetEmbeddings
      PROVE  CountTypes'
  BY <1>15, SetEmbeddingsDoes, <1>0
<1>16. ASSUME NEW w \in Writers, ReadBack(w)
      PROVE  CountTypes'
  BY <1>16, WriterMoves, <1>0 DEF ReadBack
<1>17. ASSUME NEW w \in Writers, DropTags(w)
      PROVE  CountTypes'
  BY <1>17, WriterMoves, <1>0 DEF DropTags
<1>18. ASSUME NEW w \in Writers, WriteTags(w)
      PROVE  CountTypes'
  BY <1>18, WriteTagsDoes, <1>0
<1>19. ASSUME NEW w \in Writers, PublishCopy(w)
      PROVE  CountTypes'
  BY <1>19, PublishCopyDoes, <1>0
<1>20. ASSUME RemoveDoc
      PROVE  CountTypes'
  BY <1>20, WriterMoves, <1>0 DEF RemoveDoc
<1>21. ASSUME UnlistKey
      PROVE  CountTypes'
  BY <1>21, WriterMoves, <1>0 DEF UnlistKey
<1>22. ASSUME DropVectors
      PROVE  CountTypes'
  BY <1>22, WriterMoves, <1>0 DEF DropVectors
<1>23. ASSUME EmitRemoved
      PROVE  CountTypes'
  BY <1>23, WriterMoves, <1>0 DEF EmitRemoved
<1>24. ASSUME FailJob
      PROVE  CountTypes'
  BY <1>24, FailJobDoes, <1>0
<1> QED
  BY <1>1, <1>2, <1>3, <1>4, <1>5, <1>6, <1>7, <1>8, <1>9, <1>10, <1>11, <1>12, <1>13, <1>14, <1>15, <1>16, <1>17,
     <1>18, <1>19, <1>20, <1>21, <1>22, <1>23, <1>24 DEF WritersAct

\* Every step of a writer keeps the invariant ...
LEMMA WritersKeepInv ==
    ASSUME CopiesInv, WritersAct
    PROVE  CopiesInv'
<1> USE DEF CopiesInv
<1>a. allowed' = allowed
  BY WritersStayAllowed
<1>1. Typed'
  <2>1. WrittenTypes' /\ ReadTypes' /\ Loaded'
    BY WritersKeepTypes, WritersKeepReadTypes, WritersKeepLoaded
  <2>2. CountTypes'
    BY WritersKeepCounts
  <2> QED
    BY <2>1, <2>2 DEF Typed, TypeOK, WrittenTypes, ReadTypes, CountTypes, Writing
<1>2. Roles'
  BY WritersKeepRoles
<1>3. ListingInv'
  BY <1>a, WritersListing DEF ListingInv, Keyed, Without
<1>4. CarryingInv'
  BY <1>a, WritersCarry DEF CarryingInv, Without
<1>5. FollowingInv'
  BY <1>a, WritersFollow DEF FollowingInv, CarryingInv, Without
<1>6. EmbeddedInv'
  BY <1>a, WritersEmbed DEF EmbeddedInv, CarryingInv, Without
<1>7. CurrentInv'
  BY <1>a, WritersCurrent DEF CurrentInv, Without
<1>8. ServedInv'
  BY <1>a, WritersServed DEF ServedInv, CarryingInv, EmbeddedInv, Without
<1> QED
  BY <1>1, <1>2, <1>3, <1>4, <1>5, <1>6, <1>7, <1>8

\* ... and so does every step of a reader.
LEMMA ReadersKeepInv ==
    ASSUME CopiesInv, ReadersAct
    PROVE  CopiesInv'
<1> USE DEF CopiesInv
<1>a. UNCHANGED <<row, doc, tagVec, docVec, jobs, lost, writer, writes, allowed>>
  BY ReadersLeave
<1>1. Typed'
  <2>1. ReadTypes' /\ listed' \in BOOLEAN /\ errors' \in 0..MaxErrors
    BY ReadersKeepTypes DEF Typed
  <2>2. WrittenTypes'
    BY <1>a, <2>1, TypesSplit DEF Typed, WrittenTypes
  <2>3. CountTypes'
    BY <1>a, <2>1, TypesSplit DEF Typed, CountTypes
  <2>4. Loaded'
    BY <1>a DEF Typed, Loaded
  <2> QED
    BY <2>1, <2>2, <2>3, <2>4 DEF Typed, TypeOK, WrittenTypes, ReadTypes, CountTypes, Writing
<1>2. Roles'
  BY <1>a DEF Roles
<1>3. ListingInv'
  BY <1>a, ReadersListing DEF ListingInv, Keyed, Without, Typed
<1>4. CarryingInv'
  BY <1>a DEF CarryingInv, Carrying, Alone, Busy, Without
<1>5. FollowingInv'
  BY <1>a DEF FollowingInv, Following, TagVectors, DocVector, HasTagVector, Without
<1>6. EmbeddedInv'
  BY <1>a DEF EmbeddedInv, Embedded, Editing, Without
<1>7. CurrentInv'
  BY <1>a, ReadersCurrent DEF CurrentInv, Without, Typed
<1>8. ServedInv'
  BY <1>a, ReadersServed DEF ServedInv, ListingInv, Keyed, Without, Typed
<1> QED
  BY <1>1, <1>2, <1>3, <1>4, <1>5, <1>6, <1>7, <1>8

\* A document expires only while no writer works.
LEMMA ExpiryKeepsInv ==
    ASSUME CopiesInv, Expire
    PROVE  CopiesInv'
<1> USE DEF CopiesInv
<1>a. /\ May("expiry") /\ doc' = Absent
      /\ UNCHANGED <<row, listed, tagVec, docVec, jobs, lost, writer, memory, writes, errors, allowed>>
  BY DEF Expire
<1>i. \A w \in Writers : writer[w].at = "idle" /\ writer'[w].at = "idle"
  BY DEF Expire, Working
<1>1. Typed'
  <2>1. WrittenTypes'
    BY <1>a, TypesSplit, AbsentIsCopy DEF Typed, WrittenTypes
  <2>2. ReadTypes'
    BY <1>a, TypesSplit DEF Typed, ReadTypes, memory
  <2>3. CountTypes'
    BY <1>a, TypesSplit DEF Typed, CountTypes
  <2>4. Loaded'
    BY <1>a DEF Typed, Loaded
  <2> QED
    BY <2>1, <2>2, <2>3, <2>4 DEF Typed, TypeOK, WrittenTypes, ReadTypes, CountTypes, Writing
<1>2. Roles'
  BY <1>a DEF Roles
<1>3. ListingInv'
  <2> SUFFICES ASSUME Keyed PROVE Listing'
    BY <1>a DEF ListingInv, Keyed, Without
  <2>1. Listing
    BY DEF ListingInv, Keyed
  <2>2. Without({"expiry"})' = FALSE
    BY <1>a DEF Without, May
  <2>3. Without({"refresh", "boot", "error"})' = Without({"refresh", "boot", "error"})
    BY <1>a DEF Without
  <2>4. InTurn' /\ ~ServerWrites'
    BY <1>i DEF InTurn, Busy, ServerWrites
  <2> QED
    BY <1>a, <1>i, <2>1, <2>2, <2>3, <2>4 DEF Listing, Busy, Deleting, Removed, Writers, memory
<1>4. CarryingInv'
  BY <1>i DEF CarryingInv, Carrying, Alone, Busy
<1>5. FollowingInv'
  BY <1>a DEF FollowingInv, Without, May
<1>6. EmbeddedInv'
  BY <1>a, <1>i DEF EmbeddedInv, Embedded, Editing, Writers
<1>7. CurrentInv'
  BY <1>a DEF CurrentInv, Without, May
<1>8. ServedInv'
  BY <1>a DEF ServedInv, Without, May
<1> QED
  BY <1>1, <1>2, <1>3, <1>4, <1>5, <1>6, <1>7, <1>8

\* The invariant is inductive.
LEMMA CopiesNext == CopiesInv /\ [Next]_vars => CopiesInv'
<1> SUFFICES ASSUME CopiesInv, [Next]_vars PROVE CopiesInv'
  OBVIOUS
<1>1. CASE Next
  BY <1>1, NextSplits, WritersKeepInv, ReadersKeepInv, ExpiryKeepsInv
<1>2. CASE UNCHANGED vars
  <2>1. UNCHANGED <<row, doc, listed, tagVec, docVec, jobs, lost, writer, list, refresh, snapshot, ready, building,
                    mutation, repair, writes, errors, allowed>>
    BY <1>2 DEF vars, redis, memory
  <2>2. Typed' /\ Roles'
    BY <2>1 DEF CopiesInv, Typed, TypeOK, Loaded, Roles
  <2>3. ListingInv'
    BY <2>1 DEF CopiesInv, ListingInv, Keyed, Listing, InTurn, Busy, Deleting, Removed, Without, ServerWrites
  <2>4. CarryingInv' /\ FollowingInv' /\ EmbeddedInv'
    BY <2>1 DEF CopiesInv, CarryingInv, Carrying, Alone, Busy, FollowingInv, Following, TagVectors, DocVector,
                HasTagVector, EmbeddedInv, Embedded, Editing, Without
  <2>5. CurrentInv'
    BY <2>1 DEF CopiesInv, CurrentInv, Current, Findable, Alike, Removed, Announcing, Without, ServerWrites
  <2>6. ServedInv'
    BY <2>1 DEF CopiesInv, ServedInv, Served, Lags, Announcing, Without, ServerWrites
  <2> QED
    BY <2>2, <2>3, <2>4, <2>5, <2>6 DEF CopiesInv
<1> QED
  BY <1>1, <1>2

(***************************************************************************)
(* The invariant holds in every state, whichever hazards may happen, for   *)
(* every set of texts and tags and any number of writes.                   *)
(***************************************************************************)
THEOREM CopiesInvHolds == Spec => []CopiesInv
BY CopiesInit, CopiesNext, PTL DEF Spec

(***************************************************************************)
(* Every variable has its type: no step puts the absence of a campaign     *)
(* where a campaign is needed, and setting a path of a missing document    *)
(* (JSON.SET of a field) creates none.                                     *)
(***************************************************************************)
THEOREM CopiesKeepTypes == Spec => []TypeOK
<1>1. CopiesInv => TypeOK
  BY DEF CopiesInv, Typed
<1> QED
  BY <1>1, CopiesInvHolds, PTL

(***************************************************************************)
(* When nobody is at work, the snapshot the matcher serves from is the     *)
(* document in Redis or lacks only what the embedding worker has added     *)
(* since, in another process; the vectors of the search indexes are the    *)
(* document's unless a job broke off; the cached list and the set of keys  *)
(* hold the campaign the document holds; each as far as the other hazards  *)
(* leave it alone (see CopiesAgree).                                       *)
(***************************************************************************)
THEOREM CopiesAgreeAtRest == Spec => []CopiesAgree
<1>1. CopiesInv => CopiesAgree
  <2> SUFFICES ASSUME CopiesInv, Quiet PROVE SnapshotFollows /\ VectorsFollow /\ ListIsCurrent /\ LiveIsListed
    BY DEF CopiesAgree
  <2>1. \A w \in Writers : writer[w].at = "idle"
    BY DEF Quiet, Working
  <2>2. SnapshotFollows
    BY <2>1 DEF CopiesInv, ServedInv, Served, Lags, Announcing, SnapshotFollows
  <2>3. VectorsFollow
    BY <2>1 DEF CopiesInv, FollowingInv, Following, VectorsFollow
  <2>4. ListIsCurrent
    BY <2>1 DEF CopiesInv, CurrentInv, Current, Announcing, ListIsCurrent
  <2>5. LiveIsListed
    BY <2>1 DEF CopiesInv, ListingInv, Keyed, Listing, LiveIsListed, Writers
  <2> QED
    BY <2>2, <2>3, <2>4, <2>5
<1> QED
  BY <1>1, CopiesInvHolds, PTL

(***************************************************************************)
(* When nobody is at work, the document is embedded from its own text and  *)
(* never from an older one; where it is not embedded, a job is waiting or  *)
(* the last one has failed, whichever jobs fail and wherever they break    *)
(* off.                                                                    *)
(***************************************************************************)
THEOREM EmbeddingsOfText == Spec => []EmbeddingsFollowText
<1>1. CopiesInv => EmbeddingsFollowText
  <2> SUFFICES ASSUME CopiesInv, Without({"overlap", "eager"}), Quiet, doc # Absent
               PROVE  doc.emb = doc.text \/ (doc.emb = None /\ (jobs > 0 \/ lost))
    BY DEF EmbeddingsFollowText
  <2>1. \A w \in Writers : writer[w].at = "idle"
    BY DEF Quiet, Working
  <2> QED
    BY <2>1 DEF CopiesInv, EmbeddedInv, Embedded, Writers
<1> QED
  BY <1>1, CopiesInvHolds, PTL

=============================================================================
