---------------------------- MODULE CampaignCopies ----------------------------
(***************************************************************************)
(* One campaign and its copies: the row in MySQL, the document in Redis,   *)
(* its key in the set of all keys, the vectors a search finds it by, the   *)
(* list of all campaigns and the serving snapshot in the server's memory.  *)
(* A writer changes the document, reads it again, writes the vectors and   *)
(* publishes what it read; every call is a step, and whoever reads copies  *)
(* may come in between.  The embedding worker is a process of its own: it  *)
(* shares Redis with the server, and the server hears none of its events.  *)
(* A text stands for what is embedded: the title, the content and the tag. *)
(***************************************************************************)
EXTENDS Naturals, FiniteSets

CONSTANTS
    Texts, Tags,
    TagOf,        \* the tag of each text
    FirstText,    \* the text of the campaign in the beginning
    None,
    MaxWrites,    \* bound: requests and jobs that write, other than embedding jobs
    MaxErrors,    \* bound: lists that could not be read, embedding jobs that failed
    Regimes       \* sets of hazards; one of them is what may happen

(***************************************************************************)
(* Hazards.  overlap: writers work at the same time; eager: an embedding   *)
(* job starts while the edit that asked for it goes on; refresh, repair,   *)
(* boot: the list, one campaign, the whole snapshot is read while a writer *)
(* of the server works; expiry: the document expires; error: reading the   *)
(* list fails; failure: an embedding job fails; disabled: the snapshot is  *)
(* not configured, so that events pass it by, but is built and asked all   *)
(* the same when a search finds no vectors.                                *)
(***************************************************************************)
Hazards == {"overlap", "eager", "refresh", "repair", "boot", "expiry", "error", "failure", "disabled"}

ASSUME CopiesAssumption ==
    /\ TagOf \in [Texts -> Tags] /\ FirstText \in Texts
    /\ None \notin Texts /\ None \notin Tags /\ None # "nothing"
    /\ MaxWrites \in Nat /\ MaxErrors \in Nat
    /\ Regimes \subseteq SUBSET Hazards

VARIABLES
    row,       \* MySQL
    doc,       \* campaign:{id}
    listed,    \* is the key in campaign:keys
    tagVec,    \* campaign-tag-vec: documents, by tag: the status they carry
    docVec,    \* campaign-doc-vec: document
    jobs,      \* embedding jobs waiting
    lost,      \* history: since a job was last asked for, one has failed for good
    writer,    \* what each writer is doing
    list,      \* allCampaignsCache
    refresh,   \* allCampaignsInFlight
    snapshot,  \* state.campaignsById, once ready
    ready,     \* initialized
    building,  \* initializationInFlight
    mutation,  \* mutationsDuringInitialization
    repair,    \* a lookup that reads what the snapshot lacks
    writes, errors,
    allowed    \* the hazards of this behaviour

redis  == <<doc, listed, tagVec, docVec>>
memory == <<list, refresh, snapshot, ready, building, mutation, repair>>
vars   == <<row, redis, jobs, lost, writer, memory, writes, errors, allowed>>

-----------------------------------------------------------------------------
Statuses == {"ACTIVE", "PAUSED"}
Absent   == [status |-> None]
Campaign == [status : Statuses, text : Texts, emb : Texts \union {None}]
Copy     == Campaign \union {Absent}
Nothing  == [status |-> "nothing"]

Writers == {"load", "owner", "cron", "worker"}
Idle    == [at |-> "idle", value |-> Absent]

Steps == {"idle", "find", "set", "status", "list", "clear", "republish", "enqueue", "fields", "model",
          "read", "dropTags", "writeTags", "publish", "remove", "unlist", "dropVectors", "removed"}

TypeOK ==
    /\ row \in Copy /\ doc \in Copy /\ listed \in BOOLEAN
    /\ tagVec \in [Tags -> Statuses \union {None}]
    /\ docVec \in [status : Statuses, emb : Texts] \union {Absent}
    /\ jobs \in Nat /\ lost \in BOOLEAN
    /\ writer \in [Writers -> [at : Steps, value : Copy]]
    /\ list \in [value : Copy, age : {"none", "fresh", "stale", "old"}]
    /\ refresh \in [at : {"idle", "keys", "read", "unlist", "store"}, value : Copy, previous : Copy \union {Nothing}]
    /\ snapshot \in Copy /\ ready \in BOOLEAN /\ building \in BOOLEAN
    /\ mutation \in Copy \union {Nothing}
    /\ repair \in [at : {"idle", "read", "apply"}, value : Copy]
    /\ writes \in 0..MaxWrites /\ errors \in 0..MaxErrors /\ allowed \in Regimes

-----------------------------------------------------------------------------
May(hazard) == hazard \in allowed

Working == \E w \in Writers : writer[w].at # "idle"

\* A writer in the process that keeps the list and the snapshot.
ServerWrites == \E w \in Writers \ {"worker"} : writer[w].at # "idle"

\* What was embedded has a vector for the campaign's tag.
HasTagVector(c) == c # Absent /\ c.emb # None /\ TagOf[c.emb] = TagOf[c.text]

\* The service cannot tell a vector of another title from one of this title.
HasRequiredEmbeddings(c) == HasTagVector(c)

NoList    == [value |-> Absent, age |-> "none"]
NoRefresh == [at |-> "idle", value |-> Absent, previous |-> Nothing]
NoRepair  == [at |-> "idle", value |-> Absent]

TagVectors(c) ==
    [t \in Tags |-> IF HasTagVector(c) /\ t = TagOf[c.text] THEN c.status ELSE None]

DocVector(c) ==
    IF c = Absent \/ c.emb = None THEN Absent ELSE [status |-> c.status, emb |-> c.emb]

Init ==
    LET c == [status |-> "ACTIVE", text |-> FirstText, emb |-> FirstText]
    IN  /\ row = c
        /\ doc \in {c, Absent}
        /\ listed = (doc = c)
        /\ tagVec = TagVectors(doc) /\ docVec = DocVector(doc)
        /\ jobs = 0 /\ lost = FALSE
        /\ writer = [w \in Writers |-> Idle]
        /\ list = NoList /\ refresh = NoRefresh
        /\ snapshot = Absent /\ ready = FALSE /\ building = FALSE /\ mutation = Nothing
        /\ repair = NoRepair
        /\ writes = 0 /\ errors = 0 /\ allowed \in Regimes

-----------------------------------------------------------------------------
(***************************************************************************)
(* Events.  An upsert invalidates the list and replaces the copy in the    *)
(* snapshot; while the snapshot is being built, it is kept for the end.    *)
(***************************************************************************)
Take(c) ==
    IF May("disabled") THEN UNCHANGED <<snapshot, mutation>>
    ELSE /\ snapshot' = IF ready THEN c ELSE snapshot
         /\ mutation' = IF ready THEN mutation ELSE c

EmitOnceReady(c) ==
    /\ list' = NoList
    /\ snapshot' = IF ready THEN c ELSE snapshot
    /\ UNCHANGED <<mutation, refresh, ready, building, repair>>

Emit(c) ==
    /\ list' = NoList /\ Take(c)
    /\ UNCHANGED <<refresh, ready, building, repair>>

PublishUpsert(c) == Emit(c)

Goto(w, at)       == writer' = [writer EXCEPT ![w].at = at]
Carry(w, at, c)   == writer' = [writer EXCEPT ![w] = [at |-> at, value |-> c]]
Finish(w)         == writer' = [writer EXCEPT ![w] = Idle]

-----------------------------------------------------------------------------
(***************************************************************************)
(* Writers.                                                                *)
(***************************************************************************)
Start(w, at, c) ==
    /\ writer[w].at = "idle"
    /\ \/ May("overlap")
       \/ ~Working
       \/ w = "worker" /\ May("eager")
    /\ \/ w = "worker" \/ ServerWrites
       \/ refresh.at = "idle" \/ May("refresh") \/ May("boot") \/ May("error")
    /\ w = "worker" \/ ServerWrites \/ repair.at = "idle" \/ May("repair")
    /\ IF w = "worker" THEN writes' = writes
       ELSE writes < MaxWrites /\ writes' = writes + 1
    /\ Carry(w, at, c)

\* A start of the server, or a creation, writes the whole document.
StartLoad ==
    /\ row # Absent
    /\ Start("load", "find", row)
    /\ UNCHANGED <<row, redis, jobs, lost, memory, errors, allowed>>

\* The status as the cron job changes it: Redis first, MySQL afterwards.
StartStatus(s) ==
    /\ doc # Absent
    /\ Start("cron", "status", [doc EXCEPT !.status = s])
    /\ UNCHANGED <<row, redis, jobs, lost, memory, errors, allowed>>

\* An edit, from the end of its transaction.
StartEdit(text) ==
    /\ row # Absent /\ doc # Absent /\ row.text # text
    /\ row' = [row EXCEPT !.text = text]
    /\ Start("owner", "clear", row')
    /\ UNCHANGED <<redis, jobs, lost, memory, errors, allowed>>

StartDelete ==
    /\ row # Absent
    /\ row' = Absent
    /\ Start("owner", "remove", Absent)
    /\ UNCHANGED <<redis, jobs, lost, memory, errors, allowed>>

StartJob ==
    /\ jobs > 0 /\ jobs' = jobs - 1
    /\ Start("worker", "find", Absent)
    /\ UNCHANGED <<row, redis, lost, memory, errors, allowed>>

\* mergeReusableEmbeddings: vectors of the same tag are kept.
FindForLoad ==
    LET c == writer["load"].value
    IN  /\ writer["load"].at = "find"
        /\ Carry("load", "set", [c EXCEPT !.emb =
                 IF doc # Absent /\ doc.emb # None /\ TagOf[doc.emb] = TagOf[c.text]
                 THEN doc.emb ELSE None])
        /\ UNCHANGED <<row, redis, jobs, lost, memory, writes, errors, allowed>>

SaveDoc ==
    /\ writer["load"].at = "set"
    /\ doc' = writer["load"].value
    /\ Goto("load", "list")
    /\ UNCHANGED <<row, listed, tagVec, docVec, jobs, lost, memory, writes, errors, allowed>>

ListKey ==
    /\ writer["load"].at = "list"
    /\ listed' = TRUE
    /\ Goto("load", "dropTags")
    /\ UNCHANGED <<row, doc, tagVec, docVec, jobs, lost, memory, writes, errors, allowed>>

\* A path of a document that is not there cannot be set: the call throws.
SetStatus ==
    /\ writer["cron"].at = "status"
    /\ IF doc = Absent THEN Finish("cron") /\ doc' = doc
       ELSE /\ doc' = [doc EXCEPT !.status = writer["cron"].value.status]
            /\ Goto("cron", "read")
    /\ UNCHANGED <<row, listed, tagVec, docVec, jobs, lost, memory, writes, errors, allowed>>

ClearEmbedding ==
    /\ writer["owner"].at = "clear"
    /\ IF doc = Absent THEN Finish("owner") /\ UNCHANGED <<doc, tagVec, docVec>>
       ELSE /\ doc' = [doc EXCEPT !.emb = None]
            /\ tagVec' = [t \in Tags |-> None] /\ docVec' = Absent
            /\ Goto("owner", "republish")
    /\ UNCHANGED <<row, listed, jobs, lost, memory, writes, errors, allowed>>

\* The document is read and published at once: nothing is awaited in between.
RepublishCleared ==
    /\ writer["owner"].at = "republish"
    /\ IF doc = Absent THEN UNCHANGED memory ELSE PublishUpsert(doc)
    /\ Goto("owner", "enqueue")
    /\ UNCHANGED <<row, redis, jobs, lost, writes, errors, allowed>>

EnqueueNothing ==
    /\ writer["owner"].at = "enqueue"
    /\ Goto("owner", "fields")
    /\ UNCHANGED <<row, redis, jobs, lost, memory, writes, errors, allowed>>

EnqueueJob ==
    /\ writer["owner"].at = "enqueue"
    /\ jobs' = jobs + 1 /\ lost' = FALSE
    /\ Goto("owner", "fields")
    /\ UNCHANGED <<row, redis, memory, writes, errors, allowed>>

SetFields ==
    LET c == writer["owner"].value
    IN  /\ writer["owner"].at = "fields"
        /\ IF doc = Absent THEN Finish("owner") /\ doc' = doc
           ELSE /\ doc' = [doc EXCEPT !.text = c.text, !.status = c.status]
                /\ Goto("owner", "read")
        /\ UNCHANGED <<row, listed, tagVec, docVec, jobs, lost, memory, writes, errors, allowed>>

FindForJob ==
    /\ writer["worker"].at = "find"
    /\ IF doc = Absent THEN Finish("worker") ELSE Carry("worker", "model", doc)
    /\ UNCHANGED <<row, redis, jobs, lost, memory, writes, errors, allowed>>

SetEmbeddings ==
    /\ writer["worker"].at = "model"
    /\ doc' = IF doc = Absent THEN Absent ELSE [doc EXCEPT !.emb = writer["worker"].value.text]
    /\ Goto("worker", "read")
    /\ UNCHANGED <<row, listed, tagVec, docVec, jobs, lost, memory, writes, errors, allowed>>

ReadBack(w) ==
    /\ writer[w].at = "read"
    /\ IF doc = Absent THEN Finish(w) ELSE Carry(w, "dropTags", doc)
    /\ UNCHANGED <<row, redis, jobs, lost, memory, writes, errors, allowed>>

DropTags(w) ==
    /\ writer[w].at = "dropTags"
    /\ tagVec' = [t \in Tags |-> None]
    /\ Goto(w, "writeTags")
    /\ UNCHANGED <<row, doc, listed, docVec, jobs, lost, memory, writes, errors, allowed>>

WriteTags(w) ==
    LET c == writer[w].value
    IN  /\ writer[w].at = "writeTags"
        /\ tagVec' = IF HasTagVector(c) THEN [tagVec EXCEPT ![TagOf[c.text]] = c.status] ELSE tagVec
        /\ Goto(w, "publish")
        /\ UNCHANGED <<row, doc, listed, docVec, jobs, lost, memory, writes, errors, allowed>>

\* The vector of the document, the event, and what the caller does next: a
\* load asks for missing vectors, the cron job writes the row.  The worker
\* clears the list of its own process, and nobody there waits for the event.
PublishCopy(w) ==
    LET c    == writer[w].value
        asks == w = "load" /\ ~HasRequiredEmbeddings(c)
    IN  /\ writer[w].at = "publish"
        /\ docVec' = DocVector(c)
        /\ IF w = "worker" THEN UNCHANGED memory ELSE PublishUpsert(c)
        /\ jobs' = IF asks THEN jobs + 1 ELSE jobs
        /\ lost' = (lost /\ ~asks)
        /\ row' = IF w = "cron" /\ row # Absent THEN [row EXCEPT !.status = c.status] ELSE row
        /\ Finish(w)
        /\ UNCHANGED <<doc, listed, tagVec, writes, errors, allowed>>

\* A job has one attempt: an exception at any of its calls ends it for good.
\* If the process dies instead, the job stalls and is handed out again.  A
\* pipeline reports errors in its replies and does not throw, so that the job
\* goes on as if it had set the embeddings.
FailJob ==
    /\ May("failure") /\ errors < MaxErrors /\ errors' = errors + 1
    /\ writer["worker"].at # "idle"
    /\ \/ Finish("worker") /\ lost' = TRUE /\ jobs' = jobs
       \/ Finish("worker") /\ lost' = lost /\ jobs' = jobs + 1
       \/ writer["worker"].at = "model" /\ Goto("worker", "read") /\ lost' = TRUE /\ jobs' = jobs
    /\ UNCHANGED <<row, redis, memory, writes, allowed>>

RemoveDoc ==
    /\ writer["owner"].at = "remove"
    /\ doc' = Absent
    /\ Goto("owner", "unlist")
    /\ UNCHANGED <<row, listed, tagVec, docVec, jobs, lost, memory, writes, errors, allowed>>

UnlistKey ==
    /\ writer["owner"].at = "unlist"
    /\ listed' = FALSE
    /\ Goto("owner", "dropVectors")
    /\ UNCHANGED <<row, doc, tagVec, docVec, jobs, lost, memory, writes, errors, allowed>>

DropVectors ==
    /\ writer["owner"].at = "dropVectors"
    /\ tagVec' = [t \in Tags |-> None] /\ docVec' = Absent
    /\ Goto("owner", "removed")
    /\ UNCHANGED <<row, doc, listed, jobs, lost, memory, writes, errors, allowed>>

EmitRemoved ==
    /\ writer["owner"].at = "removed"
    /\ Emit(Absent)
    /\ Finish("owner")
    /\ UNCHANGED <<row, redis, jobs, lost, writes, errors, allowed>>

Expire ==
    /\ May("expiry") /\ doc # Absent /\ ~Working
    /\ doc' = Absent
    /\ UNCHANGED <<row, listed, tagVec, docVec, jobs, lost, writer, memory, writes, errors, allowed>>

-----------------------------------------------------------------------------
(***************************************************************************)
(* The list of all campaigns: the keys, then the documents, then the keys  *)
(* without document are taken out of the set.  A list that cannot be read  *)
(* is the previous one, or empty.                                          *)
(***************************************************************************)
ReadersMayStart(hazard) == ~ServerWrites \/ May(hazard)

BeginRefresh ==
    refresh' = [at |-> "keys", value |-> Absent,
                previous |-> IF list.age = "none" THEN Nothing ELSE list.value]

StartRefresh ==
    /\ ReadersMayStart("refresh")
    /\ refresh.at = "idle" /\ list.age # "fresh"
    /\ BeginRefresh
    /\ UNCHANGED <<row, redis, jobs, lost, writer, list, snapshot, ready, building, mutation, repair, writes, errors,
                   allowed>>

ReadKeys ==
    /\ refresh.at = "keys"
    /\ refresh' = [refresh EXCEPT !.at = IF listed THEN "read" ELSE "store"]
    /\ UNCHANGED <<row, redis, jobs, lost, writer, list, snapshot, ready, building, mutation, repair, writes, errors,
                   allowed>>

ReadDocs ==
    /\ refresh.at = "read"
    /\ refresh' = [refresh EXCEPT !.value = doc, !.at = IF doc = Absent THEN "unlist" ELSE "store"]
    /\ UNCHANGED <<row, redis, jobs, lost, writer, list, snapshot, ready, building, mutation, repair, writes, errors,
                   allowed>>

UnlistStale ==
    /\ refresh.at = "unlist"
    /\ listed' = FALSE
    /\ refresh' = [refresh EXCEPT !.at = "store"]
    /\ UNCHANGED <<row, doc, tagVec, docVec, jobs, lost, writer, list, snapshot, ready, building, mutation, repair,
                   writes, errors, allowed>>

FailRefresh ==
    /\ May("error") /\ errors < MaxErrors /\ errors' = errors + 1
    /\ refresh.at \in {"keys", "read", "unlist"}
    /\ refresh' = [refresh EXCEPT !.at = "store",
                   !.value = IF refresh.previous = Nothing THEN Absent ELSE refresh.previous]
    /\ UNCHANGED <<row, redis, jobs, lost, writer, list, snapshot, ready, building, mutation, repair, writes, allowed>>

\* The snapshot is what was read, with the events of the meantime on top.
Built(c) ==
    /\ snapshot' = IF mutation = Nothing THEN c ELSE mutation
    /\ ready' = TRUE /\ building' = FALSE /\ mutation' = Nothing

StoreList ==
    /\ refresh.at = "store"
    /\ list' = [value |-> refresh.value, age |-> "fresh"]
    /\ refresh' = NoRefresh
    /\ IF building THEN Built(refresh.value) ELSE UNCHANGED <<snapshot, ready, building, mutation>>
    /\ UNCHANGED <<row, redis, jobs, lost, writer, repair, writes, errors, allowed>>

AgeToStale ==
    /\ list.age = "fresh"
    /\ list' = [list EXCEPT !.age = "stale"]
    /\ UNCHANGED <<row, redis, jobs, lost, writer, refresh, snapshot, ready, building, mutation, repair, writes, errors,
                   allowed>>

Age ==
    /\ list.age \in {"fresh", "stale"}
    /\ list' = [list EXCEPT !.age = IF @ = "fresh" THEN "stale" ELSE "old"]
    /\ UNCHANGED <<row, redis, jobs, lost, writer, refresh, snapshot, ready, building, mutation, repair, writes, errors,
                   allowed>>

-----------------------------------------------------------------------------
\* getAllCampaigns without a stale list: a fresh one, the one being read, or a new one.
StartBuild ==
    /\ ReadersMayStart("boot") /\ ~ready /\ ~building
    /\ IF list.age = "fresh" THEN Built(list.value) /\ refresh' = refresh
       ELSE /\ IF refresh.at = "idle" THEN BeginRefresh ELSE refresh' = refresh
            /\ building' = TRUE /\ UNCHANGED <<snapshot, ready, mutation>>
    /\ UNCHANGED <<row, redis, jobs, lost, writer, list, repair, writes, errors, allowed>>

\* findCampaignsByIds reads what the snapshot lacks, for an id the vector search or a tag gave.
StartRepair ==
    /\ ReadersMayStart("repair") /\ ready
    /\ repair.at = "idle" /\ ~HasRequiredEmbeddings(snapshot)
    /\ repair' = [repair EXCEPT !.at = "read"]
    /\ UNCHANGED <<row, redis, jobs, lost, writer, list, refresh, snapshot, ready, building, mutation, writes, errors,
                   allowed>>

ReadForRepair ==
    /\ repair.at = "read"
    /\ repair' = IF doc = Absent THEN NoRepair ELSE [at |-> "apply", value |-> doc]
    /\ UNCHANGED <<row, redis, jobs, lost, writer, list, refresh, snapshot, ready, building, mutation, writes, errors,
                   allowed>>

ApplyRepair ==
    /\ repair.at = "apply"
    /\ snapshot' = repair.value
    /\ repair' = NoRepair
    /\ UNCHANGED <<row, redis, jobs, lost, writer, list, refresh, ready, building, mutation, writes, errors, allowed>>

-----------------------------------------------------------------------------
Write(w) == ReadBack(w) \/ DropTags(w) \/ WriteTags(w) \/ PublishCopy(w)

WriterStep ==
    \/ \E w \in Writers : Write(w)
    \/ FindForLoad \/ SaveDoc \/ ListKey \/ SetStatus
    \/ ClearEmbedding \/ RepublishCleared \/ EnqueueJob \/ SetFields
    \/ FindForJob \/ SetEmbeddings
    \/ RemoveDoc \/ UnlistKey \/ DropVectors \/ EmitRemoved

ReaderStep ==
    \/ ReadKeys \/ ReadDocs \/ UnlistStale \/ StoreList
    \/ ReadForRepair \/ ApplyRepair

Next ==
    \/ StartLoad \/ StartDelete \/ StartJob
    \/ \E s \in Statuses : StartStatus(s)
    \/ \E t \in Texts : StartEdit(t)
    \/ WriterStep \/ ReaderStep
    \/ StartRefresh \/ StartBuild \/ StartRepair
    \/ Expire \/ FailRefresh \/ FailJob \/ Age

Spec ==
    /\ Init /\ [][Next]_vars
    /\ WF_vars(WriterStep) /\ WF_vars(ReaderStep) /\ WF_vars(StartJob) /\ WF_vars(Age)

-----------------------------------------------------------------------------
Without(hazards) == allowed \intersect hazards = {}

Quiet == ~Working /\ refresh.at = "idle" /\ repair.at = "idle" /\ ~building

\* The copy c lacks at most what a job has embedded since in d; a lookup then
\* sees that the vectors are missing, and reads the campaign again.
Lags(c, d) == c = d \/ (d # Absent /\ c = [d EXCEPT !.emb = None])

\* The same campaign, whatever is embedded.
Alike(c, d) == c = d \/ (c # Absent /\ d # Absent /\ c.status = d.status /\ c.text = d.text)

(***************************************************************************)
(* When nobody is at work, the copies agree with the document as far as    *)
(* the hazards leave them alone.                                           *)
(*  - What the matcher serves from is the document, or the document as it  *)
(*    was before a job embedded it: the worker's event does not reach the  *)
(*    server.  No event of the server is lost, also not one that comes     *)
(*    while the snapshot is built, and a snapshot, a list or a repair that *)
(*    is read while a job works brings nothing older.  Writers that        *)
(*    overlap publish out of order, a repair may bring back what an event  *)
(*    has just replaced, and the expiry of a document is no event.         *)
(*  - The vectors a search goes by carry the document's status and are     *)
(*    made of what the document was embedded from, unless a job broke off. *)
(*  - A cached list holds nothing that was invalidated, unless it was      *)
(*    being read when the event came; it may lack what was embedded.       *)
(*  - Those that go through the set of keys find the document, unless a    *)
(*    listing has just removed the key of a document that had expired.     *)
(***************************************************************************)
SnapshotFollows ==
    Without({"overlap", "eager", "refresh", "repair", "expiry", "error", "disabled"}) /\ ready
      => Lags(snapshot, doc)

VectorsFollow ==
    Without({"overlap", "eager", "expiry", "failure"}) => tagVec = TagVectors(doc) /\ docVec = DocVector(doc)

\* What a reader of all campaigns finds.
Findable == IF listed THEN doc ELSE Absent

ListIsCurrent ==
    Without({"refresh", "boot", "expiry", "error"}) /\ list.age # "none" => Alike(list.value, Findable)

LiveIsListed ==
    Without({"overlap"}) /\ (Without({"expiry"}) \/ Without({"refresh", "boot", "error"})) /\ doc # Absent
      => listed

CopiesAgree == Quiet => SnapshotFollows /\ VectorsFollow /\ ListIsCurrent /\ LiveIsListed

(***************************************************************************)
(* When nobody is at work, a document is embedded from its own text, never *)
(* from an older one; or it has no embedding, and then a job is waiting to *)
(* make it, or the last one that was asked for has failed: such a campaign *)
(* stays without vectors until it is edited or loaded again.               *)
(***************************************************************************)
EmbeddingsFollowText ==
    Without({"overlap", "eager"}) /\ Quiet /\ doc # Absent
      => doc.emb = doc.text \/ (doc.emb = None /\ (jobs > 0 \/ lost))

(***************************************************************************)
(* What an edit announces: the embeddings are made anew, so that with no   *)
(* job left to do and none failed they are those of the text.  It is false *)
(* where the worker is quick: the edit queues the job before it has        *)
(* written the new text, and a worker that starts at once embeds the old   *)
(* one for good.                                                           *)
(***************************************************************************)
EditsAreEmbedded == Quiet /\ jobs = 0 /\ ~lost /\ doc # Absent => doc.emb = doc.text

(***************************************************************************)
(* Whatever races and errors there were, a list that is served agrees with *)
(* the document in the end: no later than its time to live allows.         *)
(***************************************************************************)
ListConverges == <>[](list.age \in {"fresh", "stale"} => list.value = Findable)

=============================================================================
